--------------------------- MODULE AccumulatorMC ---------------------------
(***************************************************************************)
(* The accumulator by itself, driven as run drives it: a push that reaches *)
(* a trigger is followed by a take, and the age timer or a shutdown takes  *)
(* a batch that has not reached one.                                       *)
(***************************************************************************)
EXTENDS Accumulator

CONSTANTS
    m1, m2, m3, m4, m5,
    MaxHandles  \* bound: handles one batch collects (repeats count against no threshold)

VARIABLE mustFlush  \* push has returned true

mcVars == <<accVars, mustFlush>>

\* Four trades, one of them published twice (m1 and m2), one with an empty payload.
MCMsgs == {m1, m2, m3, m4, m5}
MCEvent ==
    [m \in MCMsgs |->
        [exchange |-> "binance",
         id       |-> CASE m \in {m1, m2} -> 1 [] m = m3 -> 2 [] m = m4 -> 3 [] m = m5 -> 4,
         ts       |-> 5]]
MCPayloadBytes ==
    [m \in MCMsgs |-> CASE m \in {m1, m2} -> 2 [] m = m3 -> 3 [] m = m4 -> 0 [] m = m5 -> 1]

Init == AccInit /\ mustFlush = FALSE

DoPush(m) ==
    /\ ~mustFlush
    /\ Len(acks) < MaxHandles
    /\ Push(m)
    /\ mustFlush' = (Reached(rows', bytes', firstSeen') # "none")

DoFlush == Take /\ mustFlush' = FALSE

DoAge == Age /\ UNCHANGED mustFlush

Next ==
    \/ \E m \in Msgs \ Undecodable : DoPush(m)
    \/ DoFlush
    \/ DoAge

Spec == Init /\ [][Next]_mcVars

=============================================================================
