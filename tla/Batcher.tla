------------------------------ MODULE Batcher ------------------------------
(***************************************************************************)
(* The batcher process: the run loop and flush (batcher.rs), composed with *)
(* the accumulator, the JetStream source and the Iceberg sink, with the    *)
(* failures the code is written for.                                       *)
(*                                                                         *)
(* Two tasks run in the process, on different threads: the pull task of    *)
(* the source and the run loop, which calls the sink.  They share the      *)
(* channel and nothing else.  Around them are the JetStream server (ack    *)
(* timers, redelivery), the catalog and the clock.  A step of this module  *)
(* is what one of these does between two awaits.                           *)
(*                                                                         *)
(* The process restarts as soon as it is gone: until it is back only ack   *)
(* timers move, and they move at any time.                                 *)
(***************************************************************************)
EXTENDS JetStreamSource, IcebergSink

CONSTANTS
    FaultKinds,  \* the failures that may happen
    MaxFaults    \* bound: how many of them may happen in a behaviour

(***************************************************************************)
(* The failures:                                                           *)
(*   "catalog"  a commit attempt or a reload fails, or its answer is lost  *)
(*   "probe"    a read fails under the dedup probe                         *)
(*   "write"    a data file cannot be written                              *)
(*   "ack"      an ack does not reach the server                           *)
(*   "fetch"    a pull stream ends in an error                             *)
(*   "early"    ack_wait passes for a message the process still holds      *)
(*   "stop"     SIGTERM                                                    *)
(*   "crash"    the process is killed                                      *)
(***************************************************************************)
AllFaults == {"catalog", "probe", "write", "ack", "fetch", "early", "stop", "crash"}

ASSUME FaultAssumption == FaultKinds \subseteq AllFaults /\ MaxFaults \in Nat

VARIABLES
    trigger,  \* run's flush in progress, and why; "none": run is at its select
    handles,  \* batch.acks: ack handles of the batch being flushed
    faults    \* failures so far

vars == <<accVars, sourceVars, sinkVars, trigger, handles, faults>>

Init ==
    /\ AccInit
    /\ SourceInit
    /\ SinkInit
    /\ trigger = "none"
    /\ handles = {}
    /\ faults = 0

Fault(kind) ==
    /\ kind \in FaultKinds
    /\ faults < MaxFaults
    /\ faults' = faults + 1

-----------------------------------------------------------------------------
(* The run loop at its select: a row, the age timer, or the signal. *)

(* Step::Row(Some(envelope)) *)
RecvRow ==
    /\ trigger = "none"
    /\ channel # <<>>
    /\ Push(Head(channel))
    /\ channel' = Tail(channel)
    /\ trigger' = Reached(rows', bytes', firstSeen')
    /\ UNCHANGED <<delivery, fetched, sinkVars, handles, faults>>

(* Step::Due *)
TimerDue ==
    /\ trigger = "none"
    /\ firstSeen = "old"
    /\ trigger' = "Interval"
    /\ UNCHANGED <<accVars, sourceVars, sinkVars, handles, faults>>

(* Step::Stop *)
Stop ==
    /\ trigger = "none"
    /\ Fault("stop")
    /\ trigger' = "Shutdown"
    /\ UNCHANGED <<accVars, sourceVars, sinkVars, handles>>

-----------------------------------------------------------------------------
(* flush *)

AfterFlush == IF trigger = "Shutdown" THEN "exit" ELSE "none"

(* Nothing buffered: flush returns at once, and drops the handles it took. *)
FlushNothing ==
    /\ trigger \notin {"none", "exit"}
    /\ phase = "idle"
    /\ rows = <<>>
    /\ Take
    /\ trigger' = AfterFlush
    /\ UNCHANGED <<sourceVars, sinkVars, handles, faults>>

FlushBatch ==
    /\ trigger \notin {"none", "exit"}
    /\ rows # <<>>
    /\ WriteBatch(rows)
    /\ handles' = ToSet(acks)
    /\ Take
    /\ UNCHANGED <<sourceVars, trigger, faults>>

(* The sink's own steps, and its failures. *)
SinkRuns ==
    /\ SinkStep
    /\ UNCHANGED <<accVars, sourceVars, trigger, handles, faults>>

SinkFails ==
    /\ \/ ProbeFails /\ Fault("probe")
       \/ WriteFails /\ Fault("write")
       \/ (CommitAnswerLost \/ CommitFails \/ ReloadFails) /\ Fault("catalog")
    /\ UNCHANGED <<accVars, sourceVars, trigger, handles>>

\* Mutant of AckRow: acks do not wait for write_batch to return.
AckRowDuringCommit(m) ==
    /\ phase \in {"write", "commit", "ok"}
    /\ m \in handles
    /\ ServerAck(m)
    /\ handles' = handles \ {m}
    /\ UNCHANGED <<accVars, fetched, channel, sinkVars, trigger, faults>>

(* After the commit, the acks are sent concurrently, in any order. *)
AckRow(m) ==
    /\ phase = "ok"
    /\ m \in handles
    /\ ServerAck(m)
    /\ handles' = handles \ {m}
    /\ UNCHANGED <<accVars, fetched, channel, sinkVars, trigger, faults>>

(* An ack that fails is counted; an ack that is published and lost is not    *)
(* even noticed.  Neither is sent again.                                     *)
AckLost(m) ==
    /\ phase = "ok"
    /\ m \in handles
    /\ Fault("ack")
    /\ handles' = handles \ {m}
    /\ UNCHANGED <<accVars, sourceVars, sinkVars, trigger>>

FlushDone ==
    /\ phase = "ok"
    /\ handles = {}
    /\ Return
    /\ trigger' = AfterFlush
    /\ UNCHANGED <<accVars, sourceVars, handles, faults>>

(* A failed batch is dropped with its handles: redelivery brings it back.    *)
FlushFailed ==
    /\ phase = "err"
    /\ Return
    /\ handles' = {}
    /\ trigger' = AfterFlush
    /\ UNCHANGED <<accVars, sourceVars, faults>>

-----------------------------------------------------------------------------
(* The process ends, and with it everything in its memory. *)
Dies ==
    /\ Take
    /\ SinkDies
    /\ fetched' = <<>>
    /\ channel' = <<>>
    /\ handles' = {}
    /\ trigger' = "none"
    /\ UNCHANGED delivery

(* run has returned after the shutdown flush. *)
Exit == trigger = "exit" /\ Dies /\ UNCHANGED faults

Crash == Fault("crash") /\ Dies

-----------------------------------------------------------------------------
(* The pull task, the server and the clock. *)

PullRuns ==
    /\ PullStep
    /\ UNCHANGED <<accVars, sinkVars, trigger, handles, faults>>

PullFails ==
    /\ \/ DropUnacked /\ Fault("ack")
       \/ FetchError /\ Fault("fetch")
    /\ UNCHANGED <<accVars, sinkVars, trigger, handles>>

(* Messages the server will not deliver again. *)
Acked == {m \in Msgs : delivery[m] = "acked"}

(* Messages some part of the process holds, to commit or to ack them. *)
Held == ToSet(fetched) \union ToSet(channel) \union ToSet(acks) \union handles

(* ack_wait is set far above the time a message is held (effective_ack_wait), *)
(* so it passes for a held message only by way of a failure.                  *)
Redeliver(m) ==
    /\ AckWait(m)
    /\ IF m \in Held THEN Fault("early") ELSE UNCHANGED faults
    /\ UNCHANGED <<accVars, sinkVars, trigger, handles>>

IntervalPasses ==
    /\ Age
    /\ UNCHANGED <<sourceVars, sinkVars, trigger, handles, faults>>

-----------------------------------------------------------------------------
(* The run loop, as one task: what it does next when nothing fails. *)
RunLoop ==
    \/ RecvRow \/ TimerDue
    \/ FlushNothing \/ FlushBatch \/ SinkRuns
    \/ \E m \in Msgs : AckRow(m)
    \/ FlushDone \/ FlushFailed \/ Exit

Failure ==
    \/ Stop \/ SinkFails \/ PullFails \/ Crash
    \/ \E m \in Msgs : AckLost(m)

(* The stream has no more messages and the process waits for one: the only   *)
(* state, of a finite stream, in which nothing is left to do.                *)
StreamDrained ==
    /\ Acked = Msgs
    /\ Held = {}
    /\ trigger = "none"
    /\ UNCHANGED vars

Next ==
    \/ RunLoop
    \/ PullRuns
    \/ \E m \in Msgs : Redeliver(m)
    \/ IntervalPasses
    \/ Failure
    \/ StreamDrained

Spec == Init /\ [][Next]_vars

(***************************************************************************)
(* Fairness: both tasks are scheduled, the clock advances, and the server  *)
(* redelivers what is not acked in time.  No failure has to happen.        *)
(***************************************************************************)
Fairness ==
    /\ WF_vars(RunLoop)
    /\ WF_vars(PullRuns)
    /\ WF_vars(IntervalPasses)
    /\ \A m \in Msgs : WF_vars(m \notin Held /\ Redeliver(m))

FairSpec == Spec /\ Fairness

-----------------------------------------------------------------------------
ControlTypeOK ==
    /\ trigger \in {"none", "Count", "Bytes", "Interval", "Shutdown", "exit"}
    /\ handles \subseteq Msgs \ Undecodable
    /\ faults \in Nat

(* Every variable has its type: batches and handles are of decodable         *)
(* messages, write_batch is in one of its phases.                            *)
TypeOK == AccTypeOK /\ SourceTypeOK /\ SinkTypeOK /\ ControlTypeOK

KeyStored(m) == \E n \in Msgs : stored[n] > 0 /\ DedupKey(n) = DedupKey(m)

(* No trade is lost: a message that will never be delivered again has a row  *)
(* with its key in the table (or did not decode), whatever failed before, be *)
(* it the commit, the ack, or the process between the two.                   *)
AckedIsStored == \A m \in Acked \ Undecodable : KeyStored(m)

(* A redelivered micro-batch is a no-op (delivery semantics of the guide): a *)
(* trade has one row at most, however often its message comes back, even     *)
(* after a commit that was reported as failed and was not.                   *)
StoredOnce ==
    /\ \A m \in Msgs : stored[m] <= 1
    /\ \A m, n \in InTable : Event[m] = Event[n] => m = n

(* The batcher implements the ledger: a commit records new trades only, each *)
(* once, and a message is settled only when its trade is recorded.           *)
Ledger == INSTANCE TradeLedger WITH copies <- stored, settled <- Acked

ImplementsLedger == Ledger!LedgerSpec

(* While ack_wait is long enough, the process never holds two deliveries of  *)
(* one message, and holds none of a message that is settled or about to be   *)
(* redelivered: no batch is fed its own rows again (effective_ack_wait), and *)
(* what the process buffers is bounded by max_ack_pending.                   *)
HeldOnce ==
    /\ \A m \in Held : delivery[m] = "pending"
    /\ Len(fetched) + Len(channel) + Len(acks) + Cardinality(handles) = Cardinality(Held)

(* Until something fails, each delivered message is held somewhere in the    *)
(* process: no handle falls through between the pull, the channel, the       *)
(* buffer and the flush, where only ack_wait would bring it back.            *)
NoDeliveryForgotten == faults = 0 => AckPending \subseteq Held

(* The batch being flushed: write_batch is called on the rows whose handles  *)
(* flush holds, so each handle is covered by a row of the batch, and the ack *)
(* phase starts with each row in the table, written now or found there.      *)
FlushCoversHandles ==
    /\ phase # "idle" =>
         \A m \in handles : \E i \in DOMAIN incoming : DedupKey(incoming[i]) = DedupKey(m)
    /\ phase = "ok" => \A i \in DOMAIN incoming : KeyStored(incoming[i])

(***************************************************************************)
(* Why no trade is lost, as an inductive invariant: a handle is covered by *)
(* a row from the moment it is buffered until it is acked, and a row of    *)
(* the batch is, once the probe has run, to be written or found in the     *)
(* table.                                                                  *)
(***************************************************************************)
Decided == phase \in {"write", "commit", "backoff", "ok"}

SeenKeysBuffered == \A k \in seenKeys : \E j \in DOMAIN rows : DedupKey(rows[j]) = k

HandlesInBatch ==
    /\ phase = "idle" => handles = {}
    /\ \A m \in handles : \E i \in DOMAIN incoming : DedupKey(incoming[i]) = DedupKey(m)

WrittenOrFound ==
    Decided => \A i \in DOMAIN incoming : incoming[i] \in fresh \/ KeyStored(incoming[i])

ReferencedIsStored ==
    /\ phase \in {"idle", "probe", "write"} => ~referenced
    /\ referenced => \A i \in DOMAIN incoming : incoming[i] \in fresh => stored[incoming[i]] > 0
    /\ phase = "ok" => fresh = {} \/ referenced

NoLossInv ==
    /\ HandlesCovered /\ SeenKeysBuffered
    /\ HandlesInBatch /\ WrittenOrFound /\ ReferencedIsStored
    /\ AckedIsStored

(***************************************************************************)
(* Why no trade is stored twice, with dedup on: the rows of a batch have   *)
(* distinct keys, and from the probe to the commit none of the rows to be  *)
(* written is in the table.                                                *)
(***************************************************************************)
RowKeysSeen == \A i \in DOMAIN rows : DedupKey(rows[i]) \in seenKeys

FreshIsNew ==
    /\ Decided => fresh \subseteq ToSet(incoming)
    /\ phase \in {"commit", "backoff"} => fresh # {}
    /\ phase \in {"write", "commit", "backoff"} /\ ~referenced =>
         \A m \in fresh : \A n \in InTable : Event[n] # Event[m]

OnceInv ==
    /\ DistinctKeys(rows) /\ RowKeysSeen
    /\ DistinctKeys(incoming) /\ FreshIsNew
    /\ StoredOnce

(* Every message is settled in the end: failures that stop happening do not  *)
(* leave anything behind that keeps a message from being stored and acked.   *)
EverythingSettles == \A m \in Msgs : <>(delivery[m] = "acked")

-----------------------------------------------------------------------------
(* What a comment and the guide say, and the code does not do. *)

(* batcher.rs on a failed commit: "JetStream redelivers after `ack_wait` and *)
(* the rows are rewritten into a fresh snapshot"; the guide: "the loop keeps *)
(* running".  A batch whose write failed is stored and acked later.          *)
FailedBatchIsRewritten ==
    \A m \in Msgs : (phase = "err" /\ m \in handles) ~> (delivery[m] = "acked")

=============================================================================
