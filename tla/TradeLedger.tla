---------------------------- MODULE TradeLedger ----------------------------
(***************************************************************************)
(* What the batcher promises, without saying how: a ledger of trades fed   *)
(* from a stream.  Sets of trades are recorded, a trade at most once, and  *)
(* a message is settled (acked, never seen again) only when its trade is   *)
(* in the ledger or it carries none.                                       *)
(***************************************************************************)
EXTENDS DedupProbe

VARIABLES
    copies,  \* how often each message's row is in the ledger
    settled  \* messages that will not be delivered again

ledgerVars == <<copies, settled>>

Recorded(m) == copies[m] > 0

LedgerInit ==
    /\ copies = [m \in Msgs |-> 0]
    /\ settled = {}

(* One commit: new trades only, each once, all of them or none. *)
Record(S) ==
    /\ S # {}
    /\ \A m \in S : \A n \in Msgs :
           n # m /\ (Recorded(n) \/ n \in S) => Event[n] # Event[m]
    /\ \A m \in S : ~Recorded(m)
    /\ copies' = [m \in Msgs |-> IF m \in S THEN 1 ELSE copies[m]]
    /\ UNCHANGED settled

Settle(m) ==
    /\ m \in Undecodable \/ \E n \in Msgs : Recorded(n) /\ DedupKey(n) = DedupKey(m)
    /\ settled' = settled \union {m}
    /\ UNCHANGED copies

LedgerNext ==
    \/ \E S \in SUBSET (Msgs \ Undecodable) : Record(S)
    \/ \E m \in Msgs : Settle(m)

LedgerSpec == LedgerInit /\ [][LedgerNext]_ledgerVars

=============================================================================
