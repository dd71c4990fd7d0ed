----------------------------- MODULE FlowProofs -----------------------------
(***************************************************************************)
(* Theorems about what the batcher holds between a delivery and its ack:   *)
(* the accumulator as the run loop drives it, and the way of the handles   *)
(* through pull, channel, buffer and flush.                                *)
(***************************************************************************)
EXTENDS BatcherProofs

(* While a batch is flushed, and once the last one is, nothing is buffered.  *)
FlushHasTaken ==
    /\ phase # "idle" => rows = <<>> /\ trigger \notin {"none", "exit"}
    /\ trigger = "exit" => rows = <<>>

(* At its select, the run loop leaves no batch that has reached a size.      *)
NoneReached == trigger = "none" => rows = <<>> \/ (Len(rows) < MaxRecords /\ bytes < MaxBytes)

RowsAndRepeats == Len(acks) = Len(rows) + duplicates

AccInv == FlushHasTaken /\ NoneReached /\ RowsAndRepeats /\ TimerFollowsRows /\ WithinPolicy

-----------------------------------------------------------------------------
(* A push into a buffer that has not reached a size.                         *)
LEMMA PushFlow ==
    ASSUME AccTypeOK, AccInv, trigger = "none", NEW m \in Msgs \ Undecodable, Push(m)
    PROVE  /\ RowsAndRepeats' /\ TimerFollowsRows' /\ WithinPolicy'
           /\ rows' # <<>> \/ rows' = rows
<1>1. /\ rows \in Seq(Msgs \ Undecodable) /\ acks \in Seq(Msgs \ Undecodable)
      /\ duplicates \in Nat /\ bytes \in Nat
      /\ MaxRecords \in Nat /\ MaxBytes \in Nat /\ PayloadBytes[m] \in Nat
    BY PolicyAssumption DEF AccTypeOK
<1>2. CASE PushDuplicate(m)
    <2>1. rows' = rows /\ bytes' = bytes /\ firstSeen' = firstSeen
        BY <1>2 DEF PushDuplicate
    <2>2. Len(acks') = Len(acks) + 1 /\ duplicates' = duplicates + 1
        BY <1>1, <1>2 DEF PushDuplicate
    <2>3. RowsAndRepeats'
        BY <1>1, <2>1, <2>2 DEF AccInv, RowsAndRepeats
    <2>. QED
        BY <2>1, <2>3 DEF AccInv, TimerFollowsRows, WithinPolicy
<1>3. CASE PushRow(m)
    <2>1. /\ rows' = Append(rows, m) /\ acks' = Append(acks, m) /\ duplicates' = duplicates
          /\ bytes' = bytes + AtLeastOne(PayloadBytes[m])
          /\ firstSeen' = IF rows = <<>> THEN "young" ELSE firstSeen
        BY <1>3 DEF PushRow
    <2>2. /\ rows' # <<>> /\ Len(rows') = Len(rows) + 1 /\ rows'[Len(rows')] = m
          /\ Len(acks') = Len(acks) + 1
        BY <1>1, <2>1
    <2>3. RowsAndRepeats'
        BY <1>1, <2>1, <2>2 DEF AccInv, RowsAndRepeats
    <2>4. TimerFollowsRows'
        BY <2>1, <2>2 DEF AccInv, TimerFollowsRows
    <2>5. AtLeastOne(PayloadBytes[m]) \in Nat /\ AtLeastOne(MaxRecords) \in Nat
          /\ AtLeastOne(MaxRecords) >= 1 /\ AtLeastOne(MaxRecords) >= MaxRecords
        BY <1>1 DEF AtLeastOne
    <2>6. bytes' - AtLeastOne(PayloadBytes[rows'[Len(rows')]]) = bytes
        BY <1>1, <2>1, <2>2, <2>5
    <2>7. ASSUME rows = <<>> PROVE WithinPolicy'
        <3>1. Len(rows') = 1
            BY <2>2, <2>7
        <3>. QED
            BY <2>5, <3>1 DEF WithinPolicy
    <2>8. ASSUME Len(rows) < MaxRecords, bytes < MaxBytes PROVE WithinPolicy'
        <3>1. Len(rows') <= AtLeastOne(MaxRecords)
            BY <1>1, <2>2, <2>5, <2>8
        <3>2. bytes' - AtLeastOne(PayloadBytes[rows'[Len(rows')]]) < MaxBytes
            BY <2>6, <2>8
        <3>. QED
            BY <3>1, <3>2 DEF WithinPolicy
    <2>. QED
        BY <2>2, <2>3, <2>4, <2>7, <2>8 DEF AccInv, NoneReached
<1>. QED
    BY <1>2, <1>3 DEF Push

LEMMA TakeFlow ==
    ASSUME Take
    PROVE  /\ RowsAndRepeats' /\ TimerFollowsRows' /\ WithinPolicy' /\ rows' = <<>>
<1>1. rows' = <<>> /\ acks' = <<>> /\ duplicates' = 0 /\ firstSeen' = "none"
    BY DEF Take
<1>2. AtLeastOne(MaxRecords) \in Nat
    BY PolicyAssumption DEF AtLeastOne
<1>. QED
    BY <1>1, <1>2 DEF RowsAndRepeats, TimerFollowsRows, WithinPolicy

LEMMA AccInvInit == Init => AccInv
<1> SUFFICES ASSUME Init PROVE AccInv
    OBVIOUS
<1>1. AtLeastOne(MaxRecords) \in Nat
    BY PolicyAssumption DEF AtLeastOne
<1>. QED
    BY <1>1 DEF Init, AccInit, SinkInit, AccInv, FlushHasTaken, NoneReached, RowsAndRepeats,
       TimerFollowsRows, WithinPolicy

LEMMA AccInvStep == TypeOK /\ AccInv /\ [Next]_vars => AccInv'
<1> SUFFICES ASSUME TypeOK, AccInv, [Next]_vars PROVE AccInv'
    OBVIOUS
<1>1. CASE RecvRow
    <2>1. Head(channel) \in Msgs \ Undecodable /\ AccTypeOK
        BY <1>1, HeadTailProperties DEF RecvRow, TypeOK, SourceTypeOK
    <2>2. RowsAndRepeats' /\ TimerFollowsRows' /\ WithinPolicy'
        BY <1>1, <2>1, PushFlow DEF RecvRow
    <2>3. phase' = "idle"
        BY <1>1 DEF RecvRow, sinkVars, AccInv, FlushHasTaken
    <2>4. trigger' = Reached(rows', bytes', firstSeen')
        BY <1>1 DEF RecvRow
    <2>5. Len(rows') \in Nat /\ bytes' \in Nat /\ MaxRecords \in Nat /\ MaxBytes \in Nat
        BY AccTypeStep, PolicyAssumption DEF AccTypeOK
    <2>6. trigger' # "exit" /\ NoneReached'
        BY <2>4, <2>5 DEF Reached, NoneReached
    <2>. QED
        BY <2>2, <2>3, <2>6 DEF AccInv, FlushHasTaken
<1>2. CASE FlushNothing
    <2>1. phase' = phase /\ trigger' = AfterFlush
        BY <1>2 DEF FlushNothing, sinkVars
    <2>. QED
        BY <1>2, <2>1, TakeFlow DEF FlushNothing, AccInv, FlushHasTaken, NoneReached
<1>3. CASE FlushBatch
    BY <1>3, TakeFlow DEF FlushBatch, AccInv, FlushHasTaken, NoneReached
<1>4. CASE Exit \/ Crash
    BY <1>4, TakeFlow DEF Exit, Crash, Dies, SinkDies, AccInv, FlushHasTaken, NoneReached
<1>5. CASE FlushDone \/ FlushFailed
    <2>1. UNCHANGED accVars /\ phase' = "idle" /\ rows = <<>>
        BY <1>5 DEF FlushDone, FlushFailed, Return, AccInv, FlushHasTaken
    <2>. QED
        BY <2>1 DEF accVars, AccInv, FlushHasTaken, NoneReached, RowsAndRepeats,
           TimerFollowsRows, WithinPolicy
<1>6. CASE IntervalPasses
    BY <1>6 DEF IntervalPasses, Age, sinkVars, AccInv, FlushHasTaken, NoneReached,
       RowsAndRepeats, TimerFollowsRows, WithinPolicy
<1>7. CASE SinkRuns \/ SinkFails
    <2>1. UNCHANGED accVars /\ trigger' = trigger
        BY <1>7 DEF SinkRuns, SinkFails
    <2>2. phase # "idle"
        BY <1>7 DEF SinkRuns, SinkFails, SinkStep, ProbeDone, FilesWritten, CommitOk,
           CommitRefused, CommitFails, Reload, ProbeFails, WriteFails, CommitAnswerLost,
           ReloadFails
    <2>. QED
        BY <2>1, <2>2 DEF accVars, AccInv, FlushHasTaken, NoneReached, RowsAndRepeats,
           TimerFollowsRows, WithinPolicy
<1>8. CASE TimerDue \/ Stop
    <2>1. UNCHANGED accVars /\ phase' = phase /\ trigger = "none" /\ trigger' \notin {"none", "exit"}
        BY <1>8 DEF TimerDue, Stop, sinkVars
    <2>. QED
        BY <2>1 DEF accVars, AccInv, FlushHasTaken, NoneReached, RowsAndRepeats,
           TimerFollowsRows, WithinPolicy
<1>9. CASE UNCHANGED <<accVars, phase, trigger>>
    BY <1>9 DEF accVars, AccInv, FlushHasTaken, NoneReached, RowsAndRepeats,
       TimerFollowsRows, WithinPolicy
<1>. QED
    BY <1>1, <1>2, <1>3, <1>4, <1>5, <1>6, <1>7, <1>8, <1>9 DEF Next, RunLoop, Failure,
       PullRuns, PullFails, Redeliver, StreamDrained, AckRow, AckLost, vars, sinkVars

LEMMA AccInvAlways == Spec => [](TypeOK /\ AccInv)
<1>1. Init => TypeOK /\ AccInv
    BY TypeInit, AccInvInit
<1>2. TypeOK /\ AccInv /\ [Next]_vars => TypeOK' /\ AccInv'
    BY TypeStep, AccInvStep
<1>. QED
    BY <1>1, <1>2, PTL DEF Spec

(* In the run loop, which flushes as soon as push says so, a batch never     *)
(* outgrows the policy, whatever max_records, max_bytes and payloads are.    *)
THEOREM BatchesFitPolicy == Spec => []WithinPolicy
<1>1. AccInv => WithinPolicy
    BY DEF AccInv
<1>. QED
    BY <1>1, AccInvAlways, PTL

(* The run loop's age timer is armed exactly while rows are buffered.        *)
THEOREM TimerIsArmed == Spec => []TimerFollowsRows
<1>1. AccInv => TimerFollowsRows
    BY DEF AccInv
<1>. QED
    BY <1>1, AccInvAlways, PTL

(* No row of a batch is lost or counted twice on its way through push.       *)
THEOREM HandlesAreCounted == Spec => []NoHandleLost
<1>1. CASE Dedup
    <2>1. TypeOK /\ AccInv /\ OnceInv => NoHandleLost
        BY DEF AccInv, RowsAndRepeats, OnceInv, NoHandleLost
    <2>. QED
        BY <1>1, <2>1, AccInvAlways, OnceInductive, PTL
<1>2. CASE ~Dedup
    <2>1. AccInv => NoHandleLost
        BY <1>2 DEF AccInv, RowsAndRepeats, NoHandleLost
    <2>. QED
        BY <2>1, AccInvAlways, PTL
<1>. QED
    BY <1>1, <1>2

(* Every handle in the buffer stands for a row of the buffer.                *)
THEOREM HandlesStandForRows == Spec => []HandlesCovered
<1>1. NoLossInv => HandlesCovered
    BY DEF NoLossInv
<1>. QED
    BY <1>1, NoLossInductive, PTL

(* Later rows never make an old batch young, in any step of the process.     *)
THEOREM AgeGrows == Spec => AgeOnlyGrows
<1>1. ASSUME TypeOK, AccInv, [Next]_vars, firstSeen = "old", rows' # <<>>
      PROVE  firstSeen' = "old"
    <2>1. CASE RecvRow
        BY <1>1, <2>1 DEF RecvRow, Push, PushDuplicate, PushRow, AccInv, TimerFollowsRows
    <2>2. CASE Take
        BY <1>1, <2>2 DEF Take
    <2>3. CASE UNCHANGED accVars
        BY <1>1, <2>3 DEF accVars
    <2>. QED
        BY <1>1, <2>1, <2>2, <2>3 DEF Next, RunLoop, Failure, TimerDue, Stop, FlushNothing,
           FlushBatch, SinkRuns, SinkFails, PullRuns, PullFails, AckRow, AckLost, FlushDone,
           FlushFailed, Redeliver, Exit, Crash, Dies, IntervalPasses, Age, StreamDrained, vars
<1>2. TypeOK /\ AccInv /\ [Next]_vars
        => [firstSeen = "old" /\ rows' # <<>> => firstSeen' = "old"]_accVars
    BY <1>1
<1>. QED
    BY <1>2, AccInvAlways, PTL DEF Spec, AgeOnlyGrows

-----------------------------------------------------------------------------
(* Sequences without repetition, and the sets of their elements *)

LEMMA ToSetEmpty == ToSet(<<>>) = {} /\ IsInjective(<<>>)
    BY DEF ToSet, IsInjective

LEMMA AppendSet ==
    ASSUME NEW S, NEW s \in Seq(S), NEW x \in S
    PROVE  /\ ToSet(Append(s, x)) = ToSet(s) \union {x}
           /\ IsInjective(s) /\ x \notin ToSet(s) => IsInjective(Append(s, x))
<1>1. /\ DOMAIN s = 1 .. Len(s) /\ Len(s) \in Nat
      /\ DOMAIN Append(s, x) = 1 .. Len(s) + 1
      /\ \A i \in 1 .. Len(s) : Append(s, x)[i] = s[i]
      /\ Append(s, x)[Len(s) + 1] = x
    OBVIOUS
<1>2. \A i \in DOMAIN Append(s, x) : i \in 1 .. Len(s) \/ i = Len(s) + 1
    BY <1>1
<1>3. ToSet(Append(s, x)) = ToSet(s) \union {x}
    <2>1. \A y \in ToSet(s) : y \in ToSet(Append(s, x))
        BY <1>1 DEF ToSet
    <2>2. x \in ToSet(Append(s, x))
        BY <1>1 DEF ToSet
    <2>3. \A y \in ToSet(Append(s, x)) : y \in ToSet(s) \/ y = x
        BY <1>1, <1>2 DEF ToSet
    <2>. QED
        BY <2>1, <2>2, <2>3
<1>4. ASSUME IsInjective(s), x \notin ToSet(s) PROVE IsInjective(Append(s, x))
    <2>1. \A i \in 1 .. Len(s) : s[i] # x
        BY <1>1, <1>4 DEF ToSet
    <2>. QED
        BY <1>1, <1>2, <1>4, <2>1 DEF IsInjective
<1>. QED
    BY <1>3, <1>4

LEMMA TailSet ==
    ASSUME NEW S, NEW s \in Seq(S), s # <<>>
    PROVE  /\ ToSet(s) = {Head(s)} \union ToSet(Tail(s))
           /\ IsInjective(s) => IsInjective(Tail(s)) /\ Head(s) \notin ToSet(Tail(s))
<1>1. /\ DOMAIN s = 1 .. Len(s) /\ Len(s) \in Nat \ {0}
      /\ DOMAIN Tail(s) = 1 .. Len(s) - 1
      /\ \A i \in 1 .. Len(s) - 1 : Tail(s)[i] = s[i + 1] /\ i + 1 \in 1 .. Len(s)
      /\ Head(s) = s[1]
    BY HeadTailProperties, EmptySeq
<1>2. ToSet(s) = {Head(s)} \union ToSet(Tail(s))
    <2>1. \A y \in ToSet(Tail(s)) : y \in ToSet(s)
        BY <1>1 DEF ToSet
    <2>2. Head(s) \in ToSet(s)
        BY <1>1 DEF ToSet
    <2>3. ASSUME NEW i \in DOMAIN s, i # 1 PROVE s[i] \in ToSet(Tail(s))
        <3>1. i - 1 \in DOMAIN Tail(s) /\ Tail(s)[i - 1] = s[i]
            BY <1>1, <2>3
        <3>. QED
            BY <3>1 DEF ToSet
    <2>4. \A y \in ToSet(s) : y = Head(s) \/ y \in ToSet(Tail(s))
        BY <1>1, <2>3 DEF ToSet
    <2>. QED
        BY <2>1, <2>2, <2>4
<1>3. ASSUME IsInjective(s)
      PROVE  IsInjective(Tail(s)) /\ Head(s) \notin ToSet(Tail(s))
    <2>1. IsInjective(Tail(s))
        BY <1>1, <1>3 DEF IsInjective
    <2>2. \A i \in DOMAIN Tail(s) : Tail(s)[i] # Head(s)
        BY <1>1, <1>3 DEF IsInjective
    <2>. QED
        BY <2>1, <2>2 DEF ToSet
<1>. QED
    BY <1>2, <1>3

LEMMA InjectiveCardinality ==
    ASSUME NEW S, NEW s \in Seq(S), IsInjective(s)
    PROVE  IsFiniteSet(ToSet(s)) /\ Cardinality(ToSet(s)) = Len(s)
<1>1. Len(s) \in Nat /\ DOMAIN s = 1 .. Len(s)
    OBVIOUS
<1>2. IsFiniteSet(1 .. Len(s)) /\ Cardinality(1 .. Len(s)) = Len(s)
    BY <1>1, FS_Interval
<1>3. s \in Bijection(1 .. Len(s), ToSet(s))
    <2>1. s \in [1 .. Len(s) -> ToSet(s)]
        BY <1>1 DEF ToSet
    <2>2. \A t \in ToSet(s) : \E i \in 1 .. Len(s) : s[i] = t
        BY <1>1 DEF ToSet
    <2>. QED
        BY <1>1, <2>1, <2>2 DEF Bijection, Injection, Surjection, IsInjective
<1>. QED
    BY <1>2, <1>3, FS_Bijection DEF ExistsBijection

-----------------------------------------------------------------------------
(* What a step can do to the handles of the process. *)

handleVars == <<fetched, channel, acks, handles>>

(* Handles are let go without an ack: by a failure, or a batch without rows. *)
LetGo ==
    /\ UNCHANGED delivery
    /\ \/ DropUnacked /\ UNCHANGED <<acks, handles>>
       \/ FetchError /\ UNCHANGED <<acks, handles>>
       \/ handles' \subseteq handles /\ UNCHANGED <<fetched, channel, acks>>
       \/ fetched' = <<>> /\ channel' = <<>> /\ acks' = <<>> /\ handles' = {}

Passes(from, to) == from # <<>> /\ from' = Tail(from) /\ to' = Append(to, Head(from))

LEMMA HandleCases ==
    ASSUME TypeOK, NoLossInv, [Next]_vars
    PROVE  \/ \E m \in Msgs : Deliver(m) /\ UNCHANGED <<acks, handles>>
           \/ DropUndecodable /\ UNCHANGED <<acks, handles>>
           \/ Passes(fetched, channel) /\ UNCHANGED <<delivery, acks, handles>>
           \/ Passes(channel, acks) /\ UNCHANGED <<delivery, fetched, handles>>
           \/ /\ FlushBatch /\ handles = {} /\ handles' = ToSet(acks) /\ acks' = <<>>
              /\ UNCHANGED <<delivery, fetched, channel>>
           \/ \E m \in Msgs : AckRow(m)
           \/ \E m \in Msgs : Redeliver(m) /\ UNCHANGED handleVars
           \/ LetGo /\ faults' = faults + 1
           \/ (FlushFailed \/ Exit) /\ LetGo
           \/ UNCHANGED <<delivery, handleVars>>
<1> DEFINE Goal == \/ \E m \in Msgs : Deliver(m) /\ UNCHANGED <<acks, handles>>
                   \/ DropUndecodable /\ UNCHANGED <<acks, handles>>
                   \/ Passes(fetched, channel) /\ UNCHANGED <<delivery, acks, handles>>
                   \/ Passes(channel, acks) /\ UNCHANGED <<delivery, fetched, handles>>
                   \/ /\ FlushBatch /\ handles = {} /\ handles' = ToSet(acks) /\ acks' = <<>>
                      /\ UNCHANGED <<delivery, fetched, channel>>
                   \/ \E m \in Msgs : AckRow(m)
                   \/ \E m \in Msgs : Redeliver(m) /\ UNCHANGED handleVars
                   \/ LetGo /\ faults' = faults + 1
                   \/ (FlushFailed \/ Exit) /\ LetGo
                   \/ UNCHANGED <<delivery, handleVars>>
<1>1. CASE PullRuns
    BY <1>1 DEF PullRuns, PullStep, Deliver, DropUndecodable, Send, Passes, accVars
<1>2. CASE PullFails
    BY <1>2 DEF PullFails, Fault, DropUnacked, FetchError, LetGo, accVars
<1>3. CASE RecvRow
    BY <1>3 DEF RecvRow, Push, PushDuplicate, PushRow, Passes
<1>4. CASE FlushBatch
    BY <1>4 DEF FlushBatch, WriteBatch, Take, sourceVars, NoLossInv, HandlesInBatch
<1>5. CASE FlushNothing
    <2>1. DOMAIN acks = {}
        BY <1>5 DEF FlushNothing, NoLossInv, HandlesCovered
    <2>2. acks = <<>>
        BY <2>1, EmptySeq DEF TypeOK, AccTypeOK
    <2>. QED
        BY <1>5, <2>2 DEF FlushNothing, Take, sourceVars, handleVars
<1>6. CASE Crash
    BY <1>6 DEF Crash, Fault, Dies, Take, LetGo
<1>7. CASE Exit
    BY <1>7 DEF Exit, Dies, Take, LetGo
<1>8. CASE FlushFailed
    BY <1>8 DEF FlushFailed, accVars, sourceVars, LetGo
<1>9. ASSUME NEW m \in Msgs, AckLost(m) PROVE Goal
    BY <1>9 DEF AckLost, Fault, accVars, sourceVars, LetGo
<1>10. ASSUME NEW m \in Msgs, Redeliver(m) PROVE Goal
    BY <1>10 DEF Redeliver, AckWait, accVars, handleVars
<1>11. ASSUME NEW m \in Msgs, AckRow(m) PROVE Goal
    BY <1>11
<1>12. CASE UNCHANGED <<delivery, handleVars>>
    BY <1>12
<1>. QED
    BY <1>1, <1>2, <1>3, <1>4, <1>5, <1>6, <1>7, <1>8, <1>9, <1>10, <1>11, <1>12
       DEF Next, RunLoop, Failure, TimerDue, Stop, SinkRuns, SinkFails, FlushDone,
           IntervalPasses, Age, StreamDrained, vars, accVars, sourceVars, handleVars

-----------------------------------------------------------------------------
(* Until something fails *)

NothingFailed ==
    /\ trigger \notin {"Shutdown", "exit"}
    /\ phase \notin {"backoff", "err"}
    /\ referenced => phase = "ok"
    /\ registered => phase = "probe"

CleanInv == faults = 0 => NothingFailed /\ AckPending \subseteq Held

LEMMA FaultsGrow ==
    ASSUME TypeOK, [Next]_vars
    PROVE  /\ faults \in Nat
           /\ faults' = faults \/ faults' = faults + 1
<1>1. faults \in Nat
    BY DEF TypeOK, ControlTypeOK
<1>. QED
    BY <1>1 DEF Next, RunLoop, Failure, RecvRow, TimerDue, Stop, FlushNothing, FlushBatch,
       SinkRuns, SinkFails, PullRuns, PullFails, AckRow, AckLost, FlushDone, FlushFailed,
       Redeliver, Exit, Crash, IntervalPasses, StreamDrained, Fault, vars

LEMMA NothingFailedStep ==
    ASSUME TypeOK, NothingFailed, [Next]_vars, faults' = faults
    PROVE  NothingFailed'
<1>1. faults' # faults + 1
    BY DEF TypeOK, ControlTypeOK
<1>2. CASE RecvRow
    BY <1>2 DEF RecvRow, Reached, sinkVars, NothingFailed
<1>3. CASE TimerDue
    BY <1>3 DEF TimerDue, sinkVars, NothingFailed
<1>4. CASE FlushNothing
    BY <1>4 DEF FlushNothing, AfterFlush, sinkVars, NothingFailed
<1>5. CASE FlushBatch
    BY <1>5 DEF FlushBatch, WriteBatch, NothingFailed
<1>6. CASE SinkRuns
    BY <1>6 DEF SinkRuns, SinkStep, ProbeDone, FilesWritten, CommitOk, CommitRefused, CommitFails,
       Reload, NothingFailed
<1>7. CASE FlushDone
    BY <1>7 DEF FlushDone, Return, AfterFlush, NothingFailed
<1>8. CASE FlushFailed \/ Exit
    BY <1>8 DEF FlushFailed, Exit, NothingFailed
<1>9. CASE Failure
    BY <1>1, <1>9 DEF Failure, Stop, SinkFails, PullFails, Crash, AckLost, Fault
<1>10. CASE UNCHANGED <<sinkVars, trigger>>
    BY <1>10 DEF sinkVars, NothingFailed
<1>. QED
    BY <1>2, <1>3, <1>4, <1>5, <1>6, <1>7, <1>8, <1>9, <1>10 DEF Next, RunLoop, AckRow,
       PullRuns, Redeliver, IntervalPasses, StreamDrained, vars

(* Until something fails, a delivered message is held.                       *)
LEMMA HeldStep ==
    ASSUME TypeOK, NoLossInv, NothingFailed, AckPending \subseteq Held, [Next]_vars,
           faults' = faults
    PROVE  (AckPending \subseteq Held)'
<1>1. /\ fetched \in Seq(Msgs) /\ channel \in Seq(Msgs) /\ acks \in Seq(Msgs)
      /\ delivery \in [Msgs -> {"available", "pending", "acked"}] /\ faults \in Nat
    BY SeqMonotonic DEF TypeOK, AccTypeOK, SourceTypeOK, ControlTypeOK
<1> SUFFICES ASSUME NEW n \in Msgs, delivery'[n] = "pending" PROVE n \in Held'
    BY DEF AckPending
<1>2. ASSUME delivery[n] = "pending"
      PROVE  n \in ToSet(fetched) \union ToSet(channel) \union ToSet(acks) \union handles
    BY <1>2 DEF AckPending, Held
<1>3. ASSUME NEW m \in Msgs, Deliver(m), UNCHANGED <<acks, handles>> PROVE n \in Held'
    <2>1. ToSet(fetched') = ToSet(fetched) \union {m} /\ channel' = channel
        BY <1>1, <1>3, AppendSet DEF Deliver
    <2>2. n = m \/ delivery[n] = "pending"
        BY <1>1, <1>3 DEF Deliver
    <2>. QED
        BY <1>2, <1>3, <2>1, <2>2 DEF Held
<1>4. CASE DropUndecodable /\ UNCHANGED <<acks, handles>>
    <2>1. ToSet(fetched) = {Head(fetched)} \union ToSet(fetched') /\ channel' = channel
        BY <1>1, <1>4, TailSet DEF DropUndecodable
    <2>2. n # Head(fetched) /\ delivery[n] = "pending"
        <3>1. Head(fetched) \in Msgs
            BY <1>1, <1>4, HeadTailProperties DEF DropUndecodable
        <3>. QED
            BY <1>1, <1>4, <3>1 DEF DropUndecodable, ServerAck
    <2>. QED
        BY <1>2, <1>4, <2>1, <2>2 DEF Held
<1>5. ASSUME NEW S, NEW s \in Seq(Msgs), NEW r \in Seq(Msgs), s # <<>>
      PROVE  ToSet(s) \union ToSet(r) = ToSet(Tail(s)) \union ToSet(Append(r, Head(s)))
    BY <1>5, TailSet, AppendSet, HeadTailProperties
<1>6. CASE Passes(fetched, channel) /\ UNCHANGED <<delivery, acks, handles>>
    BY <1>1, <1>2, <1>5, <1>6 DEF Passes, Held
<1>7. CASE Passes(channel, acks) /\ UNCHANGED <<delivery, fetched, handles>>
    BY <1>1, <1>2, <1>5, <1>7 DEF Passes, Held
<1>8. CASE handles = {} /\ handles' = ToSet(acks) /\ UNCHANGED <<delivery, fetched, channel>>
    BY <1>2, <1>8 DEF Held
<1>9. ASSUME NEW m \in Msgs, AckRow(m) PROVE n \in Held'
    <2>1. n # m /\ delivery[n] = "pending"
        BY <1>1, <1>9 DEF AckRow, ServerAck
    <2>. QED
        BY <1>2, <1>9, <2>1 DEF AckRow, accVars, Held
<1>10. ASSUME NEW m \in Msgs, Redeliver(m), UNCHANGED handleVars PROVE n \in Held'
    <2>1. delivery[n] = "pending"
        BY <1>1, <1>10 DEF Redeliver, AckWait
    <2>. QED
        BY <1>2, <1>10, <2>1 DEF handleVars, Held
<1>11. CASE UNCHANGED <<delivery, handleVars>>
    BY <1>2, <1>11 DEF handleVars, Held
<1>12. ~(LetGo /\ faults' = faults + 1) /\ ~((FlushFailed \/ Exit) /\ LetGo)
    BY <1>1 DEF FlushFailed, Exit, NothingFailed
<1>. QED
    BY <1>3, <1>4, <1>6, <1>7, <1>8, <1>9, <1>10, <1>11, <1>12, HandleCases

(* Until something fails, no handle falls through between the pull, the      *)
(* channel, the buffer and the flush: a message that is delivered and not    *)
(* acked is held by one of them.                                             *)
THEOREM NothingIsForgotten == Spec => []NoDeliveryForgotten
<1>1. Init => CleanInv
    BY DEF Init, SourceInit, SinkInit, CleanInv, NothingFailed, AckPending
<1>2. TypeOK /\ NoLossInv /\ CleanInv /\ [Next]_vars => CleanInv'
    <2> SUFFICES ASSUME TypeOK, NoLossInv, CleanInv, [Next]_vars, faults' = 0
                 PROVE  NothingFailed' /\ (AckPending \subseteq Held)'
        BY DEF CleanInv
    <2>1. faults = 0
        BY FaultsGrow
    <2>. QED
        BY <2>1, NothingFailedStep, HeldStep DEF CleanInv
<1>3. CleanInv => NoDeliveryForgotten
    BY DEF CleanInv, NoDeliveryForgotten
<1>. QED
    BY <1>1, <1>2, <1>3, NoLossInductive, PTL DEF Spec

-----------------------------------------------------------------------------
(* While ack_wait is long enough *)

(* No message is held twice, and what is held awaits its ack.                *)
HeldOnceInv ==
    /\ IsInjective(fetched) /\ IsInjective(channel) /\ IsInjective(acks)
    /\ IsFiniteSet(handles)
    /\ ToSet(fetched) \intersect ToSet(channel) = {}
    /\ ToSet(fetched) \intersect ToSet(acks) = {}
    /\ ToSet(channel) \intersect ToSet(acks) = {}
    /\ handles \intersect (ToSet(fetched) \union ToSet(channel) \union ToSet(acks)) = {}
    /\ \A m \in Held : delivery[m] = "pending"

(* A message moves on, from one of the sequences to the next.                *)
LEMMA PassesMoves ==
    ASSUME NEW s \in Seq(Msgs), NEW r \in Seq(Msgs), s # <<>>,
           IsInjective(s), IsInjective(r), ToSet(s) \intersect ToSet(r) = {}
    PROVE  /\ IsInjective(Tail(s)) /\ IsInjective(Append(r, Head(s)))
           /\ ToSet(Tail(s)) \intersect ToSet(Append(r, Head(s))) = {}
           /\ ToSet(Tail(s)) \subseteq ToSet(s)
           /\ ToSet(Append(r, Head(s))) \subseteq ToSet(s) \union ToSet(r)
<1>1. Head(s) \in Msgs
    BY HeadTailProperties
<1>2. /\ ToSet(s) = {Head(s)} \union ToSet(Tail(s))
      /\ IsInjective(Tail(s)) /\ Head(s) \notin ToSet(Tail(s))
    BY TailSet
<1>3. Head(s) \notin ToSet(r)
    BY <1>2
<1>4. /\ ToSet(Append(r, Head(s))) = ToSet(r) \union {Head(s)}
      /\ IsInjective(Append(r, Head(s)))
    BY <1>1, <1>3, AppendSet
<1>. QED
    BY <1>2, <1>4

LEMMA HeldOnceStep ==
    ASSUME TypeOK, NoLossInv, HeldOnceInv, [Next]_vars, "early" \notin FaultKinds
    PROVE  HeldOnceInv'
<1>1. /\ fetched \in Seq(Msgs) /\ channel \in Seq(Msgs) /\ acks \in Seq(Msgs)
      /\ delivery \in [Msgs -> {"available", "pending", "acked"}]
    BY SeqMonotonic DEF TypeOK, AccTypeOK, SourceTypeOK
<1>2. ToSet(<<>>) = {} /\ IsInjective(<<>>)
    BY ToSetEmpty
<1>3. ASSUME NEW m \in Msgs, Deliver(m), UNCHANGED <<acks, handles>> PROVE HeldOnceInv'
    <2>1. m \notin Held
        BY <1>1, <1>3 DEF Deliver, HeldOnceInv
    <2>2. /\ ToSet(fetched') = ToSet(fetched) \union {m} /\ IsInjective(fetched')
          /\ channel' = channel
        BY <1>1, <1>3, <2>1, AppendSet DEF Deliver, HeldOnceInv, Held
    <2>3. \A n \in Held' : delivery'[n] = "pending"
        BY <1>1, <1>3, <2>2 DEF Deliver, HeldOnceInv, Held
    <2>. QED
        BY <1>3, <2>1, <2>2, <2>3 DEF HeldOnceInv, Held
<1>4. CASE DropUndecodable /\ UNCHANGED <<acks, handles>>
    <2>1. /\ ToSet(fetched) = {Head(fetched)} \union ToSet(fetched')
          /\ IsInjective(fetched') /\ Head(fetched) \notin ToSet(fetched')
          /\ channel' = channel
        BY <1>1, <1>4, TailSet DEF DropUndecodable, HeldOnceInv
    <2>2. Head(fetched) \notin Held' /\ Held' \subseteq Held
        BY <1>4, <2>1 DEF HeldOnceInv, Held
    <2>3. \A n \in Held' : delivery'[n] = delivery[n]
        BY <1>1, <1>4, <2>2 DEF DropUndecodable, ServerAck
    <2>. QED
        BY <1>4, <2>1, <2>2, <2>3 DEF HeldOnceInv
<1>5. CASE Passes(fetched, channel) /\ UNCHANGED <<delivery, acks, handles>>
    BY <1>1, <1>5, PassesMoves DEF Passes, HeldOnceInv, Held
<1>6. CASE Passes(channel, acks) /\ UNCHANGED <<delivery, fetched, handles>>
    BY <1>1, <1>6, PassesMoves DEF Passes, HeldOnceInv, Held
<1>7. CASE /\ handles = {} /\ handles' = ToSet(acks) /\ acks' = <<>>
           /\ UNCHANGED <<delivery, fetched, channel>>
    <2>1. IsFiniteSet(handles')
        BY <1>1, <1>7, InjectiveCardinality DEF HeldOnceInv
    <2>. QED
        BY <1>2, <1>7, <2>1 DEF HeldOnceInv, Held
<1>8. ASSUME NEW m \in Msgs, AckRow(m) PROVE HeldOnceInv'
    <2>1. UNCHANGED <<fetched, channel, acks>> /\ handles' = handles \ {m} /\ m \in handles
        BY <1>8 DEF AckRow, accVars
    <2>2. m \notin Held' /\ Held' \subseteq Held
        BY <2>1 DEF HeldOnceInv, Held
    <2>3. \A n \in Held' : delivery'[n] = delivery[n]
        BY <1>1, <1>8, <2>2 DEF AckRow, ServerAck
    <2>4. IsFiniteSet(handles')
        BY <2>1, FS_Subset DEF HeldOnceInv
    <2>. QED
        BY <2>1, <2>2, <2>3, <2>4 DEF HeldOnceInv
<1>9. ASSUME NEW m \in Msgs, Redeliver(m), UNCHANGED handleVars PROVE HeldOnceInv'
    <2>1. m \notin Held /\ Held' = Held
        BY <1>9 DEF Redeliver, Fault, handleVars, Held
    <2>2. \A n \in Held' : delivery'[n] = delivery[n]
        BY <1>1, <1>9, <2>1 DEF Redeliver, AckWait
    <2>. QED
        BY <1>9, <2>1, <2>2 DEF HeldOnceInv, handleVars
<1>10. CASE LetGo
    <2>1. CASE DropUnacked /\ UNCHANGED <<acks, handles>>
        <3>1. /\ ToSet(fetched') \subseteq ToSet(fetched) /\ IsInjective(fetched')
              /\ channel' = channel
            BY <1>1, <2>1, TailSet DEF DropUnacked, HeldOnceInv
        <3>. QED
            BY <1>10, <2>1, <3>1 DEF LetGo, HeldOnceInv, Held
    <2>2. CASE FetchError /\ UNCHANGED <<acks, handles>>
        BY <1>2, <1>10, <2>2 DEF LetGo, FetchError, HeldOnceInv, Held
    <2>3. CASE handles' \subseteq handles /\ UNCHANGED <<fetched, channel, acks>>
        BY <1>10, <2>3, FS_Subset DEF LetGo, HeldOnceInv, Held
    <2>4. CASE fetched' = <<>> /\ channel' = <<>> /\ acks' = <<>> /\ handles' = {}
        BY <1>2, <2>4, FS_EmptySet DEF HeldOnceInv, Held
    <2>. QED
        BY <1>10, <2>1, <2>2, <2>3, <2>4 DEF LetGo
<1>11. CASE UNCHANGED <<delivery, handleVars>>
    BY <1>11 DEF handleVars, HeldOnceInv, Held
<1>. QED
    BY <1>3, <1>4, <1>5, <1>6, <1>7, <1>8, <1>9, <1>10, <1>11, HandleCases

LEMMA DisjointCardinality ==
    ASSUME NEW S, NEW T, IsFiniteSet(S), IsFiniteSet(T), S \intersect T = {}
    PROVE  /\ IsFiniteSet(S \union T)
           /\ Cardinality(S \union T) = Cardinality(S) + Cardinality(T)
<1>1. Cardinality(S) \in Nat /\ Cardinality(T) \in Nat
    BY FS_CardinalityType
<1>2. Cardinality(S \intersect T) = 0
    BY FS_EmptySet
<1>3. /\ IsFiniteSet(S \union T)
      /\ Cardinality(S \union T) = Cardinality(S) + Cardinality(T) - Cardinality(S \intersect T)
    BY FS_Union
<1>. QED
    BY <1>1, <1>2, <1>3

(* While ack_wait is long enough (effective_ack_wait), no message is held    *)
(* twice, so what the process holds is counted once in max_ack_pending.      *)
THEOREM DeliveriesAreHeldOnce ==
    ASSUME "early" \notin FaultKinds
    PROVE  Spec => []HeldOnce
<1>1. Init => HeldOnceInv
    BY ToSetEmpty, FS_EmptySet DEF Init, AccInit, SourceInit, HeldOnceInv, Held
<1>2. TypeOK /\ NoLossInv /\ HeldOnceInv /\ [Next]_vars => HeldOnceInv'
    BY HeldOnceStep
<1>3. TypeOK /\ HeldOnceInv => HeldOnce
    <2> SUFFICES ASSUME TypeOK, HeldOnceInv PROVE HeldOnce
        OBVIOUS
    <2>1. /\ fetched \in Seq(Msgs) /\ channel \in Seq(Msgs) /\ acks \in Seq(Msgs)
        BY SeqMonotonic DEF TypeOK, AccTypeOK, SourceTypeOK
    <2> DEFINE F == ToSet(fetched)  C == ToSet(channel)  A == ToSet(acks)
    <2>2. /\ IsFiniteSet(F) /\ Cardinality(F) = Len(fetched) /\ Len(fetched) \in Nat
          /\ IsFiniteSet(C) /\ Cardinality(C) = Len(channel) /\ Len(channel) \in Nat
          /\ IsFiniteSet(A) /\ Cardinality(A) = Len(acks) /\ Len(acks) \in Nat
          /\ IsFiniteSet(handles) /\ Cardinality(handles) \in Nat
        BY <2>1, InjectiveCardinality, FS_CardinalityType DEF HeldOnceInv
    <2>3. /\ F \intersect C = {} /\ (F \union C) \intersect A = {}
          /\ (F \union C \union A) \intersect handles = {}
          /\ Held = F \union C \union A \union handles
        BY DEF HeldOnceInv, Held
    <2>4. \A m \in Held : delivery[m] = "pending"
        BY DEF HeldOnceInv
    <2> HIDE DEF F, C, A
    <2>6. /\ IsFiniteSet(F \union C)
          /\ Cardinality(F \union C) = Cardinality(F) + Cardinality(C)
        BY <2>2, <2>3, DisjointCardinality
    <2> DEFINE FC == F \union C
    <2>7. /\ IsFiniteSet(FC) /\ FC \intersect A = {}
          /\ Cardinality(FC) = Cardinality(F) + Cardinality(C)
          /\ (FC \union A) \intersect handles = {}
          /\ Held = FC \union A \union handles
        BY <2>3, <2>6
    <2> HIDE DEF FC
    <2>8. /\ IsFiniteSet(FC \union A)
          /\ Cardinality(FC \union A) = Cardinality(FC) + Cardinality(A)
        BY <2>2, <2>7, DisjointCardinality
    <2> DEFINE FCA == FC \union A
    <2>9. /\ IsFiniteSet(FCA) /\ FCA \intersect handles = {}
          /\ Cardinality(FCA) = Cardinality(FC) + Cardinality(A)
          /\ Held = FCA \union handles
        BY <2>7, <2>8
    <2> HIDE DEF FCA
    <2>10. Cardinality(FCA \union handles) = Cardinality(FCA) + Cardinality(handles)
        BY <2>2, <2>9, DisjointCardinality
    <2>11. Cardinality(Held) = Len(fetched) + Len(channel) + Len(acks) + Cardinality(handles)
        BY <2>2, <2>7, <2>9, <2>10
    <2>. QED
        BY <2>4, <2>11 DEF HeldOnce
<1>. QED
    BY <1>1, <1>2, <1>3, NoLossInductive, PTL DEF Spec

=============================================================================
