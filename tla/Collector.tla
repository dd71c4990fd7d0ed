----------------------------- MODULE Collector -----------------------------
(***************************************************************************)
(* The collector (crypto-data, crypto-collector): a driver that runs the   *)
(* big loop over and over, and the connection manager each run of the loop *)
(* spawns.  The manager opens a websocket, hands its reading half to the   *)
(* loop through a channel of capacity one, sleeps for CONNECTION_TIMEOUT   *)
(* and opens the next.  The loop reads trades, publishes them, and adopts  *)
(* a new connection when it is handed one.                                 *)
(*                                                                         *)
(* The loop does not stop its manager: a manager whose loop has ended      *)
(* lives on until it next tries to hand over a connection.                 *)
(*                                                                         *)
(* The exchange numbers its trades.  A connection delivers, in order, all  *)
(* trades from its opening on: it is given by the next one to be read and, *)
(* once it no longer delivers, the last one it delivers.                   *)
(***************************************************************************)
EXTENDS Integers, Sequences, FiniteSets

CONSTANTS
    MaxTrades,   \* bound: trades of the exchange
    MaxFailures  \* bound: failures in a behaviour

ASSUME CollectorAssumption == MaxTrades \in Nat /\ MaxFailures \in Nat

VARIABLES
    emitted,    \* trades so far
    managers,   \* the manager of each run of the loop
    runs,       \* runs of the loop so far; the last is the current one
    loop,       \* "down", "init" or "reading"
    read,       \* the connection the loop reads
    handover,   \* the channel between the current manager and the loop
    published,  \* trades published to JetStream
    openings,   \* history: the first trades of the connections that were opened
    lost,       \* history: trades read whose publish did not arrive
    failures    \* failures so far

vars == <<emitted, managers, runs, loop, read, handover, published, openings, lost, failures>>

(* A run follows a failure, but for the first. *)
Runs == 1 .. MaxFailures + 1

None == [state |-> "none", next |-> 0, last |-> 0]
Opened == [state |-> "up", next |-> emitted + 1, last |-> 0]

(* The trades connection c has for its reader. *)
Unread(c) == IF c.state = "none" THEN {} ELSE c.next .. (IF c.state = "up" THEN emitted ELSE c.last)

(* The connection is cut, which its reader sees after the last trade, or it  *)
(* falls silent (the peer is gone without a word), which it never sees.      *)
Broken(c, how) == [state |-> how, next |-> c.next, last |-> emitted]

Manager(phase, c) == [phase |-> phase, stream |-> c]

Init ==
    /\ emitted = 0
    /\ managers = [i \in Runs |-> Manager("gone", None)]
    /\ runs = 0
    /\ loop = "down"
    /\ read = None
    /\ handover = <<>>
    /\ published = {}
    /\ openings = {}
    /\ lost = {}
    /\ failures = 0

Failure ==
    /\ failures < MaxFailures
    /\ failures' = failures + 1

Emit ==
    /\ emitted < MaxTrades
    /\ emitted' = emitted + 1
    /\ UNCHANGED <<managers, runs, loop, read, handover, published, openings, lost, failures>>

-----------------------------------------------------------------------------
(* connection_manager *)

managerVars == <<emitted, runs, loop, read, published, lost>>

Becomes(i, phase, c) == managers' = [managers EXCEPT ![i] = Manager(phase, c)]

Connect(i) ==
    /\ managers[i].phase = "connecting"
    /\ Becomes(i, "sending", Opened)
    /\ openings' = openings \union {Opened.next}
    /\ UNCHANGED <<handover, failures>>

ConnectFails(i) ==
    /\ managers[i].phase = "connecting"
    /\ Becomes(i, "gone", None)
    /\ Failure
    /\ UNCHANGED <<handover, openings>>

(* connect_async has no timeout: a handshake may never end.                  *)
ConnectHangs(i) ==
    /\ managers[i].phase = "connecting"
    /\ Becomes(i, "hung", None)
    /\ Failure
    /\ UNCHANGED <<handover, openings>>

(* The loop of manager i still has the receiving end of its channel. *)
Listening(i) == i = runs /\ loop # "down"

\* Mutant of HandOver: a manager without a loop goes on.
HandOverRegardless(i) ==
    /\ managers[i].phase = "sending"
    /\ Becomes(i, "sleeping", None)
    /\ IF Listening(i)
       THEN handover = <<>> /\ handover' = <<managers[i].stream>>
       ELSE UNCHANGED handover
    /\ UNCHANGED <<openings, failures>>

\* Mutant of HandOver: the channel has room for any number of connections.
HandOverUnbounded(i) ==
    /\ managers[i].phase = "sending"
    /\ IF Listening(i)
       THEN /\ handover' = Append(handover, managers[i].stream)
            /\ Becomes(i, "sleeping", None)
       ELSE /\ Becomes(i, "gone", None)
            /\ UNCHANGED handover
    /\ UNCHANGED <<openings, failures>>

(* sender.send, which waits for room and fails when the loop is gone. *)
HandOver(i) ==
    /\ managers[i].phase = "sending"
    /\ IF Listening(i)
       THEN /\ handover = <<>>
            /\ handover' = <<managers[i].stream>>
            /\ Becomes(i, "sleeping", None)
       ELSE /\ Becomes(i, "gone", None)
            /\ UNCHANGED handover
    /\ UNCHANGED <<openings, failures>>

(* CONNECTION_TIMEOUT has passed. *)
Wake(i) ==
    /\ managers[i].phase = "sleeping"
    /\ Becomes(i, "connecting", None)
    /\ UNCHANGED <<handover, openings, failures>>

ManagerStep(i) == (Connect(i) \/ HandOver(i) \/ Wake(i)) /\ UNCHANGED managerVars

-----------------------------------------------------------------------------
(* the_big_loop, and the driver around it *)

ManagerGone == handover = <<>> /\ managers[runs].phase = "gone"

(* After the backoff: a channel, a manager, and the wait for a connection.   *)
Start ==
    /\ loop = "down"
    /\ runs < MaxFailures + 1
    /\ loop' = "init"
    /\ runs' = runs + 1
    /\ managers' = [managers EXCEPT ![runs + 1] = Manager("connecting", None)]
    /\ UNCHANGED <<emitted, read, handover, published, openings, lost, failures>>

(* The loop ends; what it holds is dropped, its manager is not told.         *)
LoopEnds ==
    /\ loop' = "down"
    /\ read' = None
    /\ handover' = <<>>
    /\ UNCHANGED <<emitted, runs, published, openings, lost>>

InitFails == loop = "init" /\ ManagerGone /\ LoopEnds

\* Mutant of ManagerDied: None from the channel only disables its branch.
ManagerDiedUnheeded ==
    /\ loop = "reading"
    /\ ManagerGone
    /\ UNCHANGED <<emitted, runs, loop, read, handover, published, openings, lost>>

(* "Manager died" *)
ManagerDied == loop = "reading" /\ ManagerGone /\ LoopEnds

(* new_read: the connection is adopted; the one before is let go, with the   *)
(* trades it still has unread.                                               *)
Adopt ==
    /\ loop # "down"
    /\ handover # <<>>
    /\ loop' = "reading"
    /\ read' = Head(handover)
    /\ handover' = <<>>
    /\ UNCHANGED <<emitted, runs, published, openings, lost>>

\* Mutant of ReadTrade: a message is lost when its branch of select! loses.
ReadTradeOrDropIt ==
    /\ loop = "reading"
    /\ Unread(read) # {}
    /\ read' = [read EXCEPT !.next = @ + 1]
    /\ published' = IF handover = <<>> THEN published \union {read.next} ELSE published
    /\ UNCHANGED <<emitted, runs, loop, handover, openings, lost>>

(* handle_message *)
ReadTrade ==
    /\ loop = "reading"
    /\ Unread(read) # {}
    /\ read' = [read EXCEPT !.next = @ + 1]
    /\ published' = published \union {read.next}
    /\ UNCHANGED <<emitted, runs, loop, handover, openings, lost>>

(* A websocket error, or the end of the stream. *)
ReadEnds ==
    /\ loop = "reading"
    /\ read.state = "cut"
    /\ Unread(read) = {}
    /\ LoopEnds

LoopStep ==
    /\ InitFails \/ ManagerDied \/ Adopt \/ ReadTrade \/ ReadEnds
    /\ UNCHANGED <<managers, failures>>

(* The publish fails, which is logged, or is never confirmed, which is not   *)
(* noticed: the trade is gone.                                               *)
PublishLost ==
    /\ loop = "reading"
    /\ Unread(read) # {}
    /\ read' = [read EXCEPT !.next = @ + 1]
    /\ lost' = lost \union {read.next}
    /\ Failure
    /\ UNCHANGED <<emitted, managers, runs, loop, handover, published, openings>>

(* A connection breaks, wherever it is. *)
Breaks(how) ==
    /\ Failure
    /\ \/ /\ read.state = "up"
          /\ read' = Broken(read, how)
          /\ UNCHANGED <<handover, managers>>
       \/ /\ handover # <<>> /\ Head(handover).state = "up"
          /\ handover' = <<Broken(Head(handover), how)>>
          /\ UNCHANGED <<read, managers>>
       \/ \E i \in Runs :
          /\ managers[i].stream.state = "up"
          /\ managers' = [managers EXCEPT ![i].stream = Broken(@, how)]
          /\ UNCHANGED <<read, handover>>
    /\ UNCHANGED <<emitted, runs, loop, published, openings, lost>>

(* The process dies, of a text that is no trade (unwrap) or otherwise, and   *)
(* all tasks with it.                                                        *)
Crash ==
    /\ loop # "down"
    /\ Failure
    /\ LoopEnds
    /\ managers' = [i \in Runs |-> Manager("gone", None)]

(* A manager whose handshake hangs does nothing for ever; in a finite run,   *)
(* that may be all there is left.                                            *)
Hangs == loop # "down" /\ managers[runs].phase = "hung" /\ UNCHANGED vars

Next ==
    \/ Emit
    \/ \E i \in Runs : ManagerStep(i)
    \/ \E i \in Runs : (ConnectFails(i) \/ ConnectHangs(i)) /\ UNCHANGED managerVars
    \/ Start \/ LoopStep
    \/ PublishLost \/ Crash \/ Hangs
    \/ \E how \in {"cut", "silent"} : Breaks(how)

Spec == Init /\ [][Next]_vars

(* The tasks are scheduled, sleeps and connects end; nothing has to fail.    *)
Fairness == WF_vars(Start) /\ WF_vars(LoopStep) /\ \A i \in Runs : WF_vars(ManagerStep(i))

FairSpec == Spec /\ Fairness

-----------------------------------------------------------------------------
(* All connections someone holds.                                            *)
Connections ==
    {read} \union {handover[i] : i \in DOMAIN handover} \union {managers[i].stream : i \in Runs}

TypeOK ==
    /\ \A c \in Connections :
        /\ c.state \in {"none", "up", "cut", "silent"}
        /\ c.next \in 0 .. MaxTrades + 1 /\ c.last \in 0 .. MaxTrades
    /\ \A i \in Runs : managers[i].phase \in {"gone", "connecting", "hung", "sending", "sleeping"}
    /\ loop \in {"down", "init", "reading"}
    /\ runs \in 0 .. MaxFailures + 1
    /\ emitted \in 0 .. MaxTrades
    /\ published \subseteq 1 .. MaxTrades /\ lost \subseteq 1 .. MaxTrades
    /\ openings \subseteq 1 .. MaxTrades + 1
    /\ Len(handover) <= 1
    /\ failures \in 0 .. MaxFailures

(* Within a connection no trade is passed over: whatever fails, and however  *)
(* the loop, its managers and those of earlier loops interleave, a trade is  *)
(* published, or lost on its way to the server, right after the one before   *)
(* it, or else the exchange began a connection with it.  So what the stream  *)
(* misses ends where a connection was opened.  It may miss trades with no    *)
(* failure at all: those that a connection still has unread when the loop    *)
(* adopts a newer one, if they are from before the newer one was opened.     *)
GapsEndAtOpenings ==
    \A t \in published \union lost : t \in openings \/ t - 1 \in published \union lost

(* The loop waits for a manager that hangs, and hears of nothing else: it    *)
(* has no connection yet, or one that has fallen silent.                     *)
WaitsForHung ==
    /\ loop # "down" /\ managers[runs].phase = "hung"
    /\ loop = "init" \/ read.state = "silent"

(* The collector comes back: whatever breaks, it reads a live connection     *)
(* again, be it that the loop notices and restarts, or that the connection   *)
(* has fallen silent and the manager replaces it after CONNECTION_TIMEOUT.   *)
(* One thing only keeps it down, a handshake that hangs when the loop has    *)
(* nothing else to hear from.                                                *)
ComesBack == []<>(loop = "reading" /\ read.state = "up") \/ <>[]WaitsForHung

(* Managers left behind by a loop that ended do not pile up for ever: each   *)
(* is gone in the end, unless its handshake hangs.                           *)
OrphansEnd ==
    \A i \in Runs : [](i < runs => <>(managers[i].phase \in {"gone", "hung"}))

=============================================================================
