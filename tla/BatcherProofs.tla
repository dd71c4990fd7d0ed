--------------------------- MODULE BatcherProofs ---------------------------
(***************************************************************************)
(* Theorems of the batcher, for every stream, policy and set of failures.  *)
(***************************************************************************)
EXTENDS Batcher, SequenceTheorems, FiniteSetTheorems, TLAPS


(* The number of copies of a row in a batch is a number. *)
LEMMA CopiesType ==
    ASSUME NEW rs \in Seq(Msgs \ Undecodable), NEW m
    PROVE  Copies(rs, m) \in Nat
<1>1. DOMAIN rs = 1 .. Len(rs) /\ Len(rs) \in Nat
    OBVIOUS
<1>2. IsFiniteSet(DOMAIN rs)
    BY <1>1, FS_Interval
<1>3. IsFiniteSet({i \in DOMAIN rs : rs[i] = m})
    BY <1>2, FS_Subset
<1>. QED
    BY <1>3, FS_CardinalityType DEF Copies

(* Pushing a row keeps the accumulator well-typed. *)
LEMMA PushType ==
    ASSUME AccTypeOK, NEW m \in Msgs \ Undecodable, Push(m)
    PROVE  AccTypeOK'
<1>1. CASE PushDuplicate(m)
    BY <1>1 DEF AccTypeOK, PushDuplicate
<1>2. CASE PushRow(m)
    <2>1. rows' \in Seq(Msgs \ Undecodable) /\ acks' \in Seq(Msgs \ Undecodable)
        BY <1>2 DEF AccTypeOK, PushRow
    <2>2. seenKeys' \subseteq {DedupKey(n) : n \in Msgs}
        BY <1>2 DEF AccTypeOK, PushRow
    <2>3. bytes' \in Nat
        BY <1>2, PolicyAssumption DEF AccTypeOK, PushRow, AtLeastOne
    <2>4. duplicates' \in Nat /\ firstSeen' \in {"none", "young", "old"}
        BY <1>2 DEF AccTypeOK, PushRow
    <2>. QED
        BY <2>1, <2>2, <2>3, <2>4 DEF AccTypeOK
<1>. QED
    BY <1>1, <1>2 DEF Push

(* So does taking the batch. *)
LEMMA TakeType == Take => AccTypeOK'
    BY DEF Take, AccTypeOK

(* Every step of the sink keeps it well-typed. *)
LEMMA SinkType ==
    ASSUME SinkTypeOK,
           \/ SinkStep \/ ProbeFails \/ WriteFails \/ CommitAnswerLost
           \/ CommitFails \/ ReloadFails \/ Return \/ SinkDies
    PROVE  SinkTypeOK'
<1>1. ASSUME AppendFiles PROVE stored' \in [Msgs -> Nat]
    <2>1. ASSUME NEW m \in Msgs
          PROVE  stored[m] + (IF m \in fresh THEN Copies(incoming, m) ELSE 0) \in Nat
        <3>1. Copies(incoming, m) \in Nat
            BY CopiesType DEF SinkTypeOK
        <3>2. stored[m] \in Nat
            BY DEF SinkTypeOK
        <3>. QED
            BY <3>1, <3>2
    <2>. QED
        BY <1>1, <2>1 DEF AppendFiles
<1>2. CASE ProbeDone
    <2>1. fresh' \subseteq Msgs \ Undecodable
        BY <1>2 DEF SinkTypeOK, ProbeDone, Survivors, ToSet
    <2>. QED
        BY <1>2, <2>1 DEF SinkTypeOK, ProbeDone, Phases
<1>3. CASE CommitOk
    BY <1>1, <1>3 DEF SinkTypeOK, CommitOk, AppendFiles, Phases
<1>4. CASE CommitAnswerLost
    BY <1>1, <1>4 DEF SinkTypeOK, CommitAnswerLost, AppendFiles, AfterFailure, Phases
<1>5. CASE CommitRefused \/ CommitFails
    BY <1>5 DEF SinkTypeOK, CommitRefused, CommitFails, AfterFailure, Phases
<1>6. CASE FilesWritten \/ Reload \/ ProbeFails \/ WriteFails \/ ReloadFails
    BY <1>6 DEF SinkTypeOK, FilesWritten, Reload, ProbeFails, WriteFails, ReloadFails, Phases
<1>7. CASE Return \/ SinkDies
    <2>1. incoming' \in Seq(Msgs \ Undecodable)
        BY <1>7, EmptySeq DEF Return, SinkDies
    <2>2. fresh' \subseteq Msgs \ Undecodable /\ attempt' \in Nat
        BY <1>7 DEF Return, SinkDies
    <2>4. referenced' \in BOOLEAN
        BY <1>7 DEF Return, SinkDies
    <2>3. registered' \in BOOLEAN /\ stored' \in [Msgs -> Nat] /\ phase' \in Phases
        BY <1>7 DEF SinkTypeOK, Return, SinkDies, Phases
    <2>. QED
        BY <2>1, <2>2, <2>3, <2>4 DEF SinkTypeOK
<1>. QED
    BY <1>2, <1>3, <1>4, <1>5, <1>6, <1>7 DEF SinkStep

(* So does the call of write_batch. *)
LEMMA WriteBatchType ==
    ASSUME SinkTypeOK, NEW rs \in Seq(Msgs \ Undecodable), WriteBatch(rs)
    PROVE  SinkTypeOK'
    BY DEF SinkTypeOK, WriteBatch, Phases

(* Every step of the source keeps it well-typed. *)
LEMMA SourceType ==
    ASSUME SourceTypeOK,
           PullStep \/ DropUnacked \/ FetchError \/ \E m \in Msgs : AckWait(m)
    PROVE  SourceTypeOK'
<1>1. ASSUME NEW m \in Msgs, Deliver(m) PROVE SourceTypeOK'
    BY <1>1 DEF SourceTypeOK, Deliver
<1>2. CASE fetched # <<>> /\ (DropUndecodable \/ DropUnacked \/ Send)
    <2>1. Head(fetched) \in Msgs /\ Tail(fetched) \in Seq(Msgs)
        BY <1>2, HeadTailProperties DEF SourceTypeOK
    <2>2. fetched' \in Seq(Msgs)
        BY <1>2, <2>1 DEF DropUndecodable, DropUnacked, Send
    <2>4. channel' \in Seq(Msgs \ Undecodable)
        <3>1. CASE Send
            BY <3>1, <2>1 DEF SourceTypeOK, Send
        <3>2. CASE DropUndecodable \/ DropUnacked
            BY <3>2 DEF SourceTypeOK, DropUndecodable, DropUnacked
        <3>. QED
            BY <1>2, <3>1, <3>2
    <2>3. delivery' \in [Msgs -> {"available", "pending", "acked"}]
        BY <1>2, <2>1 DEF SourceTypeOK, DropUndecodable, DropUnacked, Send, ServerAck
    <2>. QED
        BY <2>2, <2>3, <2>4 DEF SourceTypeOK
<1>3. CASE FetchError
    BY <1>3 DEF SourceTypeOK, FetchError
<1>4. ASSUME NEW m \in Msgs, AckWait(m) PROVE SourceTypeOK'
    BY <1>4 DEF SourceTypeOK, AckWait
<1>. QED
    BY <1>1, <1>2, <1>3, <1>4 DEF PullStep, DropUndecodable, DropUnacked, Send

-----------------------------------------------------------------------------
LEMMA TypeInit == Init => TypeOK
<1> SUFFICES ASSUME Init PROVE TypeOK
    OBVIOUS
<1>1. AccTypeOK
    BY DEF Init, AccInit, AccTypeOK
<1>2. SourceTypeOK
    BY EmptySeq DEF Init, SourceInit, SourceTypeOK
<1>3. SinkTypeOK
    <2>1. incoming \in Seq(Msgs \ Undecodable) /\ fresh \subseteq Msgs \ Undecodable
        BY EmptySeq DEF Init, SinkInit
    <2>2. stored \in [Msgs -> Nat] /\ attempt \in Nat /\ phase \in Phases
        BY DEF Init, SinkInit, Phases
    <2>3. referenced \in BOOLEAN
        BY DEF Init, SinkInit
    <2>4. registered \in BOOLEAN
        BY DEF Init, SinkInit
    <2>. QED
        BY <2>1, <2>2, <2>3, <2>4 DEF SinkTypeOK
<1>4. ControlTypeOK
    BY DEF Init, ControlTypeOK
<1>. QED
    BY <1>1, <1>2, <1>3, <1>4 DEF TypeOK, ControlTypeOK

(* Every step keeps the accumulator well-typed: only RecvRow, the flush, the *)
(* clock and the end of the process touch it.                                *)
LEMMA AccTypeStep == TypeOK /\ [Next]_vars => AccTypeOK'
<1> SUFFICES ASSUME TypeOK, [Next]_vars PROVE AccTypeOK'
    OBVIOUS
<1> USE DEF TypeOK
<1>1. CASE RecvRow
    <2>1. Head(channel) \in Msgs \ Undecodable
        BY <1>1, HeadTailProperties DEF RecvRow, SourceTypeOK
    <2>. QED
        BY <1>1, <2>1, PushType DEF RecvRow
<1>2. CASE FlushNothing \/ FlushBatch \/ Exit \/ Crash
    BY <1>2, TakeType DEF FlushNothing, FlushBatch, Exit, Crash, Dies
<1>3. CASE IntervalPasses
    BY <1>3 DEF IntervalPasses, Age, AccTypeOK
<1>4. CASE UNCHANGED accVars
    BY <1>4 DEF accVars, AccTypeOK
<1>. QED
    BY <1>1, <1>2, <1>3, <1>4 DEF Next, RunLoop, Failure, PullRuns, Redeliver, StreamDrained,
       TimerDue, Stop, SinkRuns, SinkFails, PullFails, AckRow, AckLost, FlushDone, FlushFailed, vars

(* Every step keeps the source well-typed. *)
LEMMA SourceTypeStep == TypeOK /\ [Next]_vars => SourceTypeOK'
<1> SUFFICES ASSUME TypeOK, [Next]_vars PROVE SourceTypeOK'
    OBVIOUS
<1> USE DEF TypeOK
<1>1. CASE RecvRow
    <2>1. channel' \in Seq(Msgs \ Undecodable)
        BY <1>1, HeadTailProperties DEF RecvRow, SourceTypeOK
    <2>. QED
        BY <1>1, <2>1 DEF RecvRow, SourceTypeOK
<1>2. CASE PullRuns \/ PullFails \/ \E m \in Msgs : Redeliver(m)
    BY <1>2, SourceType DEF PullRuns, PullFails, Redeliver
<1>3. ASSUME NEW m \in Msgs, AckRow(m) PROVE SourceTypeOK'
    BY <1>3 DEF AckRow, ServerAck, SourceTypeOK
<1>4. CASE Dies
    BY <1>4, EmptySeq DEF Dies, SourceTypeOK
<1>5. CASE UNCHANGED sourceVars
    BY <1>5 DEF sourceVars, SourceTypeOK
<1>. QED
    BY <1>1, <1>2, <1>3, <1>4, <1>5 DEF Next, RunLoop, Failure, TimerDue, Stop, FlushNothing,
       FlushBatch, SinkRuns, SinkFails, AckLost, FlushDone, FlushFailed, Exit, Crash,
       IntervalPasses, StreamDrained, vars

(* Every step keeps the sink well-typed. *)
LEMMA SinkTypeStep == TypeOK /\ [Next]_vars => SinkTypeOK'
<1> SUFFICES ASSUME TypeOK, [Next]_vars PROVE SinkTypeOK'
    OBVIOUS
<1> USE DEF TypeOK
<1>1. CASE FlushBatch
    BY <1>1, WriteBatchType DEF FlushBatch, AccTypeOK
<1>2. CASE SinkRuns \/ SinkFails \/ FlushDone \/ FlushFailed \/ Dies
    BY <1>2, SinkType DEF SinkRuns, SinkFails, FlushDone, FlushFailed, Dies
<1>3. CASE UNCHANGED sinkVars
    BY <1>3 DEF sinkVars, SinkTypeOK
<1>. QED
    BY <1>1, <1>2, <1>3 DEF Next, RunLoop, Failure, RecvRow, TimerDue, Stop, FlushNothing,
       PullRuns, PullFails, AckRow, AckLost, Redeliver, Exit, Crash, IntervalPasses,
       StreamDrained, vars

(* Every step keeps the control state well-typed. *)
LEMMA ControlTypeStep == TypeOK /\ [Next]_vars => ControlTypeOK'
<1> SUFFICES ASSUME TypeOK, [Next]_vars PROVE ControlTypeOK'
    OBVIOUS
<1> USE DEF TypeOK, ControlTypeOK
<1>1. CASE RecvRow \/ TimerDue
    BY <1>1 DEF RecvRow, TimerDue, Reached
<1>2. CASE FlushBatch
    BY <1>2 DEF FlushBatch, AccTypeOK, ToSet
<1>3. CASE FlushNothing \/ FlushDone \/ FlushFailed \/ Exit
    BY <1>3 DEF FlushNothing, FlushDone, FlushFailed, Exit, Dies, AfterFlush
<1>4. CASE Stop \/ SinkFails \/ PullFails \/ Crash
    BY <1>4 DEF Stop, SinkFails, PullFails, Crash, Dies, Fault
<1>5. ASSUME NEW m \in Msgs, AckRow(m) \/ AckLost(m) \/ Redeliver(m) PROVE ControlTypeOK'
    BY <1>5 DEF AckRow, AckLost, Redeliver, Fault
<1>6. CASE SinkRuns \/ PullRuns \/ IntervalPasses \/ UNCHANGED vars
    BY <1>6 DEF SinkRuns, PullRuns, IntervalPasses, vars
<1>. QED
    BY <1>1, <1>2, <1>3, <1>4, <1>5, <1>6 DEF Next, RunLoop, Failure, StreamDrained

LEMMA TypeStep == TypeOK /\ [Next]_vars => TypeOK'
    BY AccTypeStep, SourceTypeStep, SinkTypeStep, ControlTypeStep DEF TypeOK, ControlTypeOK

(* Type correctness: sequence numbers stay messages, batches hold decodable  *)
(* messages only, the sink is in one of its phases, in every behaviour.      *)
THEOREM TypeCorrect == Spec => []TypeOK
<1>1. Init => TypeOK
    BY TypeInit
<1>2. TypeOK /\ [Next]_vars => TypeOK'
    BY TypeStep
<1>. QED
    BY <1>1, <1>2, PTL DEF Spec

-----------------------------------------------------------------------------
(* A row of a batch has at least one copy in it. *)
LEMMA CopiesPositive ==
    ASSUME NEW rs \in Seq(Msgs \ Undecodable), NEW i \in DOMAIN rs
    PROVE  Copies(rs, rs[i]) > 0
<1> DEFINE S == {j \in DOMAIN rs : rs[j] = rs[i]}
<1>1. DOMAIN rs = 1 .. Len(rs) /\ Len(rs) \in Nat
    OBVIOUS
<1>2. IsFiniteSet(S)
    <2>1. IsFiniteSet(DOMAIN rs)
        BY <1>1, FS_Interval
    <2>. QED
        BY <2>1, FS_Subset
<1>3. Cardinality(S) # 0
    BY <1>2, FS_EmptySet
<1>. QED
    BY <1>2, <1>3, FS_CardinalityType DEF Copies

(* No step takes a row out of the table. *)
LEMMA StoredGrows ==
    ASSUME TypeOK, [Next]_vars
    PROVE  \A m \in Msgs : stored'[m] >= stored[m]
<1>1. stored \in [Msgs -> Nat] /\ incoming \in Seq(Msgs \ Undecodable)
    BY DEF TypeOK, SinkTypeOK
<1>2. CASE AppendFiles
    <2> SUFFICES ASSUME NEW m \in Msgs PROVE stored'[m] >= stored[m]
        OBVIOUS
    <2>1. Copies(incoming, m) \in Nat
        BY <1>1, CopiesType
    <2>2. stored[m] \in Nat
        BY <1>1
    <2>3. stored'[m] = stored[m] + IF m \in fresh THEN Copies(incoming, m) ELSE 0
        BY <1>2 DEF AppendFiles
    <2>. QED
        BY <2>1, <2>2, <2>3
<1>3. CASE UNCHANGED stored
    BY <1>1, <1>3
<1>. QED
    BY <1>2, <1>3 DEF Next, RunLoop, Failure, RecvRow, TimerDue, Stop, FlushNothing,
       FlushBatch, WriteBatch, SinkRuns, SinkStep, ProbeDone, FilesWritten, CommitOk,
       CommitRefused, CommitFails, Reload, SinkFails, ProbeFails, WriteFails,
       CommitAnswerLost, ReloadFails, PullRuns, PullFails, AckRow, AckLost, FlushDone,
       FlushFailed, Return, Redeliver, Exit, Crash, Dies, SinkDies, IntervalPasses,
       StreamDrained, vars, sinkVars

(* So a row, once stored, stays stored. *)
LEMMA RowStaysStored ==
    ASSUME TypeOK, [Next]_vars, NEW n \in Msgs, stored[n] > 0
    PROVE  stored'[n] > 0
<1>1. stored[n] \in Nat /\ stored'[n] \in Nat
    BY TypeStep DEF TypeOK, SinkTypeOK
<1>2. stored'[n] >= stored[n]
    BY StoredGrows
<1>. QED
    BY <1>1, <1>2

(* The accumulator keeps each handle covered by a buffered row.              *)
LEMMA CoveredStep ==
    ASSUME TypeOK, HandlesCovered, SeenKeysBuffered, [Next]_vars
    PROVE  HandlesCovered' /\ SeenKeysBuffered'
<1>1. CASE RecvRow
    <2> DEFINE m == Head(channel)
    <2>1. /\ rows \in Seq(Msgs \ Undecodable) /\ acks \in Seq(Msgs \ Undecodable)
          /\ m \in Msgs \ Undecodable
        BY <1>1, HeadTailProperties DEF TypeOK, AccTypeOK, SourceTypeOK, RecvRow
    <2> HIDE DEF m
    <2>2. CASE PushDuplicate(m)
        <3>1. rows' = rows /\ seenKeys' = seenKeys /\ acks' = Append(acks, m)
            BY <2>2 DEF PushDuplicate
        <3>2. \E j \in DOMAIN rows : DedupKey(rows[j]) = DedupKey(m)
            BY <2>2 DEF PushDuplicate, SeenKeysBuffered
        <3>3. ASSUME NEW i \in DOMAIN acks'
              PROVE  \E j \in DOMAIN rows : DedupKey(rows[j]) = DedupKey(acks'[i])
            <4>1. CASE i \in DOMAIN acks
                <5>1. acks'[i] = acks[i]
                    BY <2>1, <3>1, <4>1
                <5>. QED
                    BY <4>1, <5>1 DEF HandlesCovered
            <4>2. CASE i \notin DOMAIN acks
                <5>1. acks'[i] = m
                    BY <2>1, <3>1, <3>3, <4>2
                <5>. QED
                    BY <3>2, <5>1
            <4>. QED
                BY <4>1, <4>2
        <3>. QED
            BY <3>1, <3>3 DEF HandlesCovered, SeenKeysBuffered
    <2>3. CASE PushRow(m)
        <3>1. /\ rows' = Append(rows, m) /\ acks' = Append(acks, m)
              /\ seenKeys' \subseteq seenKeys \union {DedupKey(m)}
            BY <2>3 DEF PushRow
        <3>2. /\ \A j \in DOMAIN rows : j \in DOMAIN rows' /\ rows'[j] = rows[j]
              /\ Len(rows) + 1 \in DOMAIN rows' /\ rows'[Len(rows) + 1] = m
            BY <2>1, <3>1
        <3>3. ASSUME NEW i \in DOMAIN acks'
              PROVE  \E j \in DOMAIN rows' : DedupKey(rows'[j]) = DedupKey(acks'[i])
            <4>1. CASE i \in DOMAIN acks
                <5>1. acks'[i] = acks[i]
                    BY <2>1, <3>1, <4>1
                <5>. QED
                    BY <3>2, <4>1, <5>1 DEF HandlesCovered
            <4>2. CASE i \notin DOMAIN acks
                <5>1. acks'[i] = m
                    BY <2>1, <3>1, <3>3, <4>2
                <5>. QED
                    BY <3>2, <5>1
            <4>. QED
                BY <4>1, <4>2
        <3>4. ASSUME NEW k \in seenKeys'
              PROVE  \E j \in DOMAIN rows' : DedupKey(rows'[j]) = k
            BY <3>1, <3>2 DEF SeenKeysBuffered
        <3>. QED
            BY <3>3, <3>4 DEF HandlesCovered, SeenKeysBuffered
    <2>. QED
        BY <1>1, <2>2, <2>3 DEF RecvRow, Push, m
<1>2. CASE Take
    BY <1>2 DEF Take, HandlesCovered, SeenKeysBuffered
<1>3. CASE UNCHANGED <<rows, acks, seenKeys>>
    BY <1>3 DEF HandlesCovered, SeenKeysBuffered
<1>. QED
    BY <1>1, <1>2, <1>3 DEF Next, RunLoop, Failure, TimerDue, Stop, FlushNothing,
       FlushBatch, SinkRuns, SinkFails, PullRuns, PullFails, AckRow, AckLost, FlushDone,
       FlushFailed, Redeliver, Exit, Crash, Dies, IntervalPasses, Age, StreamDrained,
       vars, accVars

(* What a step can do to the sink and to the handles of its batch. *)
SinkOwnStep ==
    \/ SinkStep \/ ProbeFails \/ WriteFails
    \/ CommitAnswerLost \/ CommitFails \/ ReloadFails

LEMMA SinkCases ==
    ASSUME [Next]_vars
    PROVE  \/ WriteBatch(rows) /\ handles' = ToSet(acks)
           \/ SinkOwnStep /\ UNCHANGED handles
           \/ (Return \/ SinkDies) /\ handles' = {}
           \/ UNCHANGED sinkVars /\ handles' \subseteq handles
<1>1. CASE FlushBatch
    BY <1>1 DEF FlushBatch
<1>2. CASE SinkRuns \/ SinkFails
    BY <1>2 DEF SinkRuns, SinkFails, SinkOwnStep
<1>3. CASE FlushDone \/ FlushFailed \/ Exit \/ Crash
    BY <1>3 DEF FlushDone, FlushFailed, Exit, Crash, Dies
<1>4. CASE UNCHANGED sinkVars /\ handles' \subseteq handles
    BY <1>4
<1>. QED
    BY <1>1, <1>2, <1>3, <1>4 DEF Next, RunLoop, Failure, RecvRow, TimerDue, Stop,
       FlushNothing, PullRuns, PullFails, AckRow, AckLost, Redeliver, IntervalPasses,
       StreamDrained, vars

(* The rows of the batch being written are those its handles were taken with. *)
LEMMA HandlesInBatchStep ==
    ASSUME TypeOK, HandlesCovered, HandlesInBatch, [Next]_vars
    PROVE  HandlesInBatch'
<1>1. CASE WriteBatch(rows) /\ handles' = ToSet(acks)
    <2>1. phase' # "idle" /\ incoming' = rows
        BY <1>1 DEF WriteBatch
    <2>2. ASSUME NEW m \in handles'
          PROVE  \E i \in DOMAIN rows : DedupKey(rows[i]) = DedupKey(m)
        <3>1. PICK i \in DOMAIN acks : m = acks[i]
            BY <1>1, <2>2 DEF ToSet
        <3>. QED
            BY <3>1 DEF HandlesCovered
    <2>. QED
        BY <2>1, <2>2 DEF HandlesInBatch
<1>2. CASE SinkOwnStep /\ UNCHANGED handles
    <2>1. phase' # "idle" /\ incoming' = incoming
        BY <1>2 DEF SinkOwnStep, SinkStep, ProbeDone, ProbeFails, FilesWritten, WriteFails,
           CommitOk, CommitAnswerLost, CommitRefused, CommitFails, AfterFailure, Reload,
           ReloadFails
    <2>. QED
        BY <1>2, <2>1 DEF HandlesInBatch
<1>3. CASE handles' = {}
    BY <1>3 DEF HandlesInBatch
<1>4. CASE UNCHANGED sinkVars /\ handles' \subseteq handles
    BY <1>4 DEF HandlesInBatch, sinkVars
<1>. QED
    BY <1>1, <1>2, <1>3, <1>4, SinkCases

(* After the probe each row is to be written or has its key in the table. *)
LEMMA WrittenOrFoundStep ==
    ASSUME TypeOK, WrittenOrFound, [Next]_vars
    PROVE  WrittenOrFound'
<1>1. CASE ProbeDone
    <2>1. UNCHANGED <<incoming, stored>> /\ fresh' = Survivors(ToSet(incoming), InTable)
        BY <1>1 DEF ProbeDone
    <2>2. ASSUME NEW i \in DOMAIN incoming,
                 incoming[i] \notin Survivors(ToSet(incoming), InTable)
          PROVE  \E n \in Msgs : stored[n] > 0 /\ DedupKey(n) = DedupKey(incoming[i])
        <3>1. incoming[i] \in ToSet(incoming)
            BY DEF ToSet
        <3>2. PICK c \in InTable : DedupKey(c) = DedupKey(incoming[i])
            BY <2>2, <3>1 DEF Survivors, Probe
        <3>. QED
            BY <3>2 DEF InTable
    <2>. QED
        BY <2>1, <2>2 DEF WrittenOrFound, KeyStored
<1>2. CASE Decided /\ UNCHANGED <<incoming, fresh>>
    <2>1. ASSUME NEW i \in DOMAIN incoming
          PROVE  \/ incoming[i] \in fresh
                 \/ \E n \in Msgs : stored'[n] > 0 /\ DedupKey(n) = DedupKey(incoming[i])
        BY <1>2, RowStaysStored DEF WrittenOrFound, KeyStored
    <2>. QED
        BY <1>2, <2>1 DEF WrittenOrFound, KeyStored
<1>3. CASE ~Decided'
    BY <1>3 DEF WrittenOrFound
<1>4. CASE SinkOwnStep
    BY <1>1, <1>2, <1>3, <1>4 DEF SinkOwnStep, SinkStep, ProbeFails, FilesWritten, WriteFails,
       CommitOk, CommitAnswerLost, CommitRefused, CommitFails, Reload, ReloadFails, Decided
<1>5. CASE WriteBatch(rows) \/ Return \/ SinkDies
    BY <1>3, <1>5 DEF WriteBatch, Return, SinkDies, Decided
<1>6. CASE UNCHANGED sinkVars
    BY <1>2, <1>3, <1>6 DEF sinkVars, Decided
<1>. QED
    BY <1>4, <1>5, <1>6, SinkCases

(* Once the table references the files of the batch, their rows are stored. *)
LEMMA ReferencedIsStoredStep ==
    ASSUME TypeOK, ReferencedIsStored, [Next]_vars
    PROVE  ReferencedIsStored'
<1>1. ASSUME UNCHANGED <<incoming, fresh, referenced>>,
             phase' \in {"idle", "probe", "write"} => phase \in {"idle", "probe", "write"},
             phase' = "ok" => phase = "ok" \/ fresh = {}
      PROVE  ReferencedIsStored'
    <2>1. ASSUME referenced', NEW i \in DOMAIN incoming', incoming'[i] \in fresh'
          PROVE  stored'[incoming'[i]] > 0
        <3>1. incoming[i] \in Msgs
            BY <1>1, <2>1 DEF TypeOK, SinkTypeOK
        <3>2. stored[incoming[i]] > 0
            BY <1>1, <2>1 DEF ReferencedIsStored
        <3>3. stored[incoming[i]] \in Nat /\ stored'[incoming[i]] \in Nat
            BY <3>1, TypeStep DEF TypeOK, SinkTypeOK
        <3>. QED
            BY <1>1, <3>1, <3>2, <3>3, StoredGrows
    <2>. QED
        BY <1>1, <2>1 DEF ReferencedIsStored
<1>2. CASE CommitOk \/ CommitAnswerLost
    <2>1. /\ AppendFiles /\ UNCHANGED <<incoming, fresh>>
          /\ phase' \in {"ok", "err", "backoff"}
        BY <1>2 DEF CommitOk, CommitAnswerLost, AfterFailure
    <2>2. ASSUME NEW i \in DOMAIN incoming, incoming[i] \in fresh
          PROVE  stored'[incoming[i]] > 0
        <3>1. incoming \in Seq(Msgs \ Undecodable) /\ incoming[i] \in Msgs
            BY DEF TypeOK, SinkTypeOK
        <3>2. stored'[incoming[i]] = stored[incoming[i]] + Copies(incoming, incoming[i])
            BY <2>1, <2>2, <3>1 DEF AppendFiles
        <3>3. stored[incoming[i]] \in Nat /\ Copies(incoming, incoming[i]) \in Nat
            BY <3>1, CopiesType DEF TypeOK, SinkTypeOK
        <3>4. Copies(incoming, incoming[i]) > 0
            BY <3>1, CopiesPositive
        <3>. QED
            BY <3>2, <3>3, <3>4
    <2>3. referenced'
        BY <2>1 DEF AppendFiles
    <2>. QED
        BY <2>1, <2>2, <2>3 DEF ReferencedIsStored
<1>3. CASE SinkOwnStep
    BY <1>1, <1>2, <1>3 DEF SinkOwnStep, SinkStep, ProbeDone, ProbeFails, FilesWritten,
       WriteFails, CommitRefused, CommitFails, AfterFailure, Reload, ReloadFails,
       ReferencedIsStored
<1>4. CASE WriteBatch(rows)
    BY <1>4 DEF WriteBatch, ReferencedIsStored
<1>5. CASE Return \/ SinkDies
    BY <1>5 DEF Return, SinkDies, ReferencedIsStored
<1>6. CASE UNCHANGED sinkVars
    BY <1>1, <1>6 DEF sinkVars
<1>. QED
    BY <1>3, <1>4, <1>5, <1>6, SinkCases

(* Once write_batch has succeeded, every row of the batch has its key stored. *)
LEMMA OkIsStored ==
    ASSUME TypeOK, WrittenOrFound, ReferencedIsStored, phase = "ok"
    PROVE  \A i \in DOMAIN incoming : KeyStored(incoming[i])
<1> SUFFICES ASSUME NEW i \in DOMAIN incoming PROVE KeyStored(incoming[i])
    OBVIOUS
<1>1. incoming[i] \in fresh \/ KeyStored(incoming[i])
    BY DEF WrittenOrFound, Decided
<1>2. CASE incoming[i] \in fresh
    <2>1. stored[incoming[i]] > 0
        BY <1>2 DEF ReferencedIsStored
    <2>. QED
        BY <2>1 DEF KeyStored, TypeOK, SinkTypeOK
<1>. QED
    BY <1>1, <1>2

(* What an ack settles has its key in the table. *)
LEMMA AckedIsStoredStep ==
    ASSUME TypeOK, HandlesInBatch, WrittenOrFound, ReferencedIsStored, AckedIsStored,
           [Next]_vars
    PROVE  AckedIsStored'
<1> SUFFICES ASSUME NEW m \in Msgs, m \notin Undecodable, delivery'[m] = "acked"
             PROVE  \E n \in Msgs : stored'[n] > 0 /\ DedupKey(n) = DedupKey(m)
    BY DEF AckedIsStored, Acked, KeyStored
<1>1. CASE delivery[m] = "acked"
    BY <1>1, RowStaysStored DEF AckedIsStored, Acked, KeyStored
<1>2. CASE AckRow(m)
    <2>1. phase = "ok" /\ m \in handles
        BY <1>2 DEF AckRow
    <2>2. PICK i \in DOMAIN incoming : DedupKey(incoming[i]) = DedupKey(m)
        BY <2>1 DEF HandlesInBatch
    <2>3. KeyStored(incoming[i])
        BY <2>1, OkIsStored
    <2>. QED
        BY <2>2, <2>3, RowStaysStored DEF KeyStored
<1>3. delivery \in [Msgs -> {"available", "pending", "acked"}]
    BY DEF TypeOK, SourceTypeOK
<1>4. ASSUME NEW n \in Msgs, n # m, AckRow(n) PROVE delivery'[m] = delivery[m]
    BY <1>3, <1>4 DEF AckRow, ServerAck
<1>5. CASE PullRuns \/ PullFails \/ \E n \in Msgs : Redeliver(n)
    <2>1. ASSUME NEW n \in Msgs, Deliver(n) \/ AckWait(n) PROVE delivery[m] = "acked"
        BY <1>3, <2>1 DEF Deliver, AckWait
    <2>2. ASSUME DropUndecodable PROVE delivery[m] = "acked"
        BY <1>3, <2>2 DEF DropUndecodable, ServerAck
    <2>3. ASSUME Send \/ DropUnacked \/ FetchError PROVE delivery[m] = "acked"
        BY <2>3 DEF Send, DropUnacked, FetchError
    <2>. QED
        BY <1>1, <1>5, <2>1, <2>2, <2>3 DEF PullRuns, PullStep, PullFails, Redeliver
<1>6. CASE UNCHANGED delivery
    BY <1>1, <1>6
<1>. QED
    BY <1>1, <1>2, <1>4, <1>5, <1>6 DEF Next, RunLoop, Failure, RecvRow, TimerDue, Stop,
       FlushNothing, FlushBatch, SinkRuns, SinkFails, AckLost, FlushDone, FlushFailed, Exit,
       Crash, Dies, IntervalPasses, StreamDrained, vars, sourceVars

LEMMA NoLossInit == Init => NoLossInv
    BY DEF Init, AccInit, SourceInit, SinkInit, NoLossInv, HandlesCovered, SeenKeysBuffered,
       HandlesInBatch, WrittenOrFound, Decided, ReferencedIsStored, AckedIsStored, Acked

LEMMA NoLossStep == TypeOK /\ NoLossInv /\ [Next]_vars => NoLossInv'
    BY CoveredStep, HandlesInBatchStep, WrittenOrFoundStep, ReferencedIsStoredStep,
       AckedIsStoredStep DEF NoLossInv

(* From the stream to the table: a handle stands for a row that is buffered, *)
(* then for a row of the batch, which is to be written or found in the table *)
(* (push, take, deduped_batch and commit together keep this).                *)
THEOREM NoLossInductive == Spec => [](TypeOK /\ NoLossInv)
<1>1. Init => TypeOK /\ NoLossInv
    BY TypeInit, NoLossInit
<1>2. TypeOK /\ NoLossInv /\ [Next]_vars => TypeOK' /\ NoLossInv'
    BY TypeStep, NoLossStep
<1>. QED
    BY <1>1, <1>2, PTL DEF Spec

(* No trade is lost: a decodable message that will not be delivered again    *)
(* has a row with its key in the table, for every stream, policy and         *)
(* sequence of failures, crashes between the commit and the acks included.   *)
THEOREM NoTradeLost == Spec => []AckedIsStored
<1>1. NoLossInv => AckedIsStored
    BY DEF NoLossInv
<1>. QED
    BY <1>1, NoLossInductive, PTL

(* The acks of a batch are covered by its rows, and sent only when each of   *)
(* these is in the table (flush, between take and the acks).                 *)
THEOREM AcksAreCovered == Spec => []FlushCoversHandles
<1>1. TypeOK /\ NoLossInv => FlushCoversHandles
    BY OkIsStored DEF NoLossInv, HandlesInBatch, FlushCoversHandles
<1>. QED
    BY <1>1, NoLossInductive, PTL

-----------------------------------------------------------------------------
(* A row of a batch whose keys are distinct has exactly one copy in it. *)
LEMMA CopiesUnique ==
    ASSUME NEW rs \in Seq(Msgs \ Undecodable), DistinctKeys(rs), NEW i \in DOMAIN rs
    PROVE  Copies(rs, rs[i]) = 1
<1>1. {j \in DOMAIN rs : rs[j] = rs[i]} = {i}
    BY DEF DistinctKeys
<1>. QED
    BY <1>1, FS_Singleton DEF Copies

(* The anti-join drops a row whose trade is in the table: the range of its   *)
(* own group covers it.                                                      *)
LEMMA SurvivorIsNew ==
    ASSUME NEW batch \in SUBSET Msgs, NEW table \in SUBSET Msgs,
           NEW m \in Survivors(batch, table), NEW n \in table
    PROVE  Event[n] # Event[m]
<1> SUFFICES ASSUME Event[n] = Event[m] PROVE FALSE
    OBVIOUS
<1>1. m \in batch /\ \A c \in Probe(batch, table) : DedupKey(c) # DedupKey(m)
    BY DEF Survivors
<1>2. Event[m].ts \in Int
    BY <1>1, EventAssumption
<1>3. InRange(n, batch)
    <2>1. SameGroup(m, m) /\ Event[m].exchange = Event[n].exchange
        BY DEF SameGroup
    <2>2. Event[m].ts <= Event[n].ts /\ Event[n].ts <= Event[m].ts
        BY <1>2
    <2>. QED
        BY <1>1, <2>1, <2>2 DEF InRange
<1>4. DedupKey(n) = DedupKey(m)
    BY DEF DedupKey
<1>. QED
    BY <1>1, <1>3, <1>4 DEF Probe

(* With dedup on, a batch holds a key once, buffered or being written.       *)
LEMMA DistinctStep ==
    ASSUME Dedup, TypeOK, DistinctKeys(rows), RowKeysSeen, DistinctKeys(incoming), [Next]_vars
    PROVE  DistinctKeys(rows)' /\ RowKeysSeen' /\ DistinctKeys(incoming)'
<1>1. DistinctKeys(incoming)'
    <2>1. CASE WriteBatch(rows)
        BY <2>1 DEF WriteBatch, DistinctKeys
    <2>2. CASE UNCHANGED incoming
        BY <2>2 DEF DistinctKeys
    <2>3. CASE Return \/ SinkDies
        BY <2>3 DEF Return, SinkDies, DistinctKeys
    <2>. QED
        BY <2>1, <2>2, <2>3, SinkCases DEF SinkOwnStep, SinkStep, ProbeDone, ProbeFails,
           FilesWritten, WriteFails, CommitOk, CommitAnswerLost, CommitRefused, CommitFails,
           Reload, ReloadFails, sinkVars
<1>2. CASE RecvRow
    <2> DEFINE m == Head(channel)
    <2>1. CASE PushDuplicate(m)
        BY <1>1, <2>1 DEF PushDuplicate, DistinctKeys, RowKeysSeen
    <2>2. CASE PushRow(m)
        <3>1. /\ rows' = Append(rows, m) /\ seenKeys' = seenKeys \union {DedupKey(m)}
              /\ DedupKey(m) \notin seenKeys
            BY <2>2 DEF PushRow
        <3>2. rows \in Seq(Msgs \ Undecodable) /\ m \in Msgs \ Undecodable
            BY <1>2, HeadTailProperties DEF TypeOK, AccTypeOK, SourceTypeOK, RecvRow
        <3> HIDE DEF m
        <3>3. \A i \in DOMAIN rows' :
                 \/ i \in DOMAIN rows /\ rows'[i] = rows[i]
                 \/ i = Len(rows) + 1 /\ rows'[i] = m
            BY <3>1, <3>2
        <3>4. \A i \in DOMAIN rows : DedupKey(rows[i]) # DedupKey(m)
            BY <3>1 DEF RowKeysSeen
        <3>5. ASSUME NEW i \in DOMAIN rows', NEW j \in DOMAIN rows',
                     DedupKey(rows'[i]) = DedupKey(rows'[j])
              PROVE  i = j
            BY <3>3, <3>4, <3>5 DEF DistinctKeys
        <3>6. ASSUME NEW i \in DOMAIN rows' PROVE DedupKey(rows'[i]) \in seenKeys'
            BY <3>1, <3>3 DEF RowKeysSeen
        <3>. QED
            BY <1>1, <3>5, <3>6 DEF DistinctKeys, RowKeysSeen
    <2>. QED
        BY <1>1, <1>2, <2>1, <2>2 DEF RecvRow, Push
<1>3. CASE Take
    BY <1>1, <1>3 DEF Take, DistinctKeys, RowKeysSeen
<1>4. CASE UNCHANGED <<rows, seenKeys>>
    BY <1>1, <1>4 DEF DistinctKeys, RowKeysSeen
<1>. QED
    BY <1>2, <1>3, <1>4 DEF Next, RunLoop, Failure, TimerDue, Stop, FlushNothing,
       FlushBatch, SinkRuns, SinkFails, PullRuns, PullFails, AckRow, AckLost, FlushDone,
       FlushFailed, Redeliver, Exit, Crash, Dies, IntervalPasses, Age, StreamDrained,
       vars, accVars

(* From the probe to the commit, no row to be written is in the table.       *)
LEMMA FreshIsNewStep ==
    ASSUME TypeOK, FreshIsNew, [Next]_vars
    PROVE  FreshIsNew'
<1>1. CASE ProbeDone
    <2>1. /\ UNCHANGED <<incoming, stored>>
          /\ fresh' = Survivors(ToSet(incoming), InTable)
          /\ phase' = "write"
        BY <1>1 DEF ProbeDone
    <2>2. ToSet(incoming) \in SUBSET Msgs /\ InTable \in SUBSET Msgs
        BY DEF TypeOK, SinkTypeOK, ToSet, InTable
    <2>3. fresh' \subseteq ToSet(incoming)
        BY <2>1 DEF Survivors
    <2>4. \A m \in fresh' : \A n \in InTable : Event[n] # Event[m]
        BY <2>1, <2>2, SurvivorIsNew
    <2>. QED
        BY <2>1, <2>3, <2>4 DEF FreshIsNew, InTable, ToSet
<1>2. CASE CommitOk \/ CommitAnswerLost
    BY <1>2 DEF CommitOk, CommitAnswerLost, AppendFiles, AfterFailure, FreshIsNew, Decided, ToSet
<1>3. ASSUME UNCHANGED <<stored, incoming, fresh, referenced>>,
             Decided' => Decided,
             phase' \in {"commit", "backoff"} => phase \in {"commit", "backoff"} \/ fresh # {},
             phase' \in {"write", "commit", "backoff"} => phase \in {"write", "commit", "backoff"}
      PROVE  FreshIsNew'
    BY <1>3 DEF FreshIsNew, InTable, ToSet
<1>4. CASE FilesWritten \/ Reload \/ ProbeFails \/ WriteFails \/ ReloadFails
    BY <1>3, <1>4 DEF FilesWritten, Reload, ProbeFails, WriteFails, ReloadFails, Decided
<1>5. CASE CommitFails
    BY <1>3, <1>5 DEF CommitFails, AfterFailure, Decided
<1>6. CASE WriteBatch(rows) \/ Return \/ SinkDies
    BY <1>6 DEF WriteBatch, Return, SinkDies, FreshIsNew, Decided
<1>7. CASE UNCHANGED sinkVars
    BY <1>3, <1>7 DEF sinkVars, Decided
<1>. QED
    BY <1>1, <1>2, <1>4, <1>5, <1>6, <1>7, SinkCases DEF SinkOwnStep, SinkStep, CommitRefused

(* The effect of a commit, in the terms of the ledger: the rows of the batch *)
(* that survived the probe are recorded, new and once each.                  *)
LEMMA AppendRecords ==
    ASSUME Dedup, TypeOK, OnceInv, phase = "commit", AppendFiles, UNCHANGED delivery
    PROVE  Ledger!Record(fresh)
<1>1. /\ incoming \in Seq(Msgs \ Undecodable) /\ fresh \subseteq ToSet(incoming)
      /\ stored \in [Msgs -> Nat] /\ fresh # {} /\ fresh \subseteq Msgs
    BY DEF TypeOK, SinkTypeOK, OnceInv, FreshIsNew, Decided
<1>2. \A m \in fresh : \A n \in InTable : Event[n] # Event[m]
    BY DEF OnceInv, FreshIsNew, AppendFiles
<1>3. \A m \in fresh : stored[m] = 0
    BY <1>1, <1>2 DEF InTable
<1>4. ASSUME NEW m \in fresh PROVE Copies(incoming, m) = 1
    <2>1. PICK i \in DOMAIN incoming : incoming[i] = m
        BY <1>1 DEF ToSet
    <2>. QED
        BY <1>1, <2>1, CopiesUnique DEF OnceInv
<1>5. stored' = [m \in Msgs |-> IF m \in fresh THEN 1 ELSE stored[m]]
    <2>1. ASSUME NEW m \in Msgs
          PROVE  stored[m] + (IF m \in fresh THEN Copies(incoming, m) ELSE 0)
                    = IF m \in fresh THEN 1 ELSE stored[m]
        BY <1>1, <1>3, <1>4
    <2>. QED
        BY <2>1 DEF AppendFiles
<1>6. ASSUME NEW m \in fresh, NEW n \in fresh, Event[n] = Event[m] PROVE n = m
    <2>1. PICK i \in DOMAIN incoming, j \in DOMAIN incoming : incoming[i] = m /\ incoming[j] = n
        BY <1>1 DEF ToSet
    <2>2. DedupKey(m) = DedupKey(n)
        BY <1>6 DEF DedupKey
    <2>. QED
        BY <2>1, <2>2 DEF OnceInv, DistinctKeys
<1>7. \A m \in fresh : \A n \in Msgs :
         n # m /\ (Ledger!Recorded(n) \/ n \in fresh) => Event[n] # Event[m]
    BY <1>2, <1>6 DEF Ledger!Recorded, InTable
<1>. QED
    BY <1>1, <1>3, <1>5, <1>7 DEF Ledger!Record, Ledger!Recorded, Acked

(* The only step that changes the table is a commit that has its effect. *)
LEMMA TableCases ==
    ASSUME [Next]_vars
    PROVE  \/ phase = "commit" /\ AppendFiles /\ UNCHANGED delivery
           \/ UNCHANGED stored
<1>1. CASE SinkRuns \/ SinkFails
    BY <1>1 DEF SinkRuns, SinkFails, SinkStep, ProbeDone, FilesWritten, CommitOk,
       CommitRefused, CommitFails, Reload, ProbeFails, WriteFails, CommitAnswerLost,
       ReloadFails, sourceVars
<1>2. CASE UNCHANGED stored
    BY <1>2
<1>. QED
    BY <1>1, <1>2 DEF Next, RunLoop, Failure, RecvRow, TimerDue, Stop, FlushNothing,
       FlushBatch, WriteBatch, PullRuns, PullFails, AckRow, AckLost, FlushDone, FlushFailed,
       Return, Redeliver, Exit, Crash, Dies, SinkDies, IntervalPasses, StreamDrained, vars,
       sinkVars

(* With dedup on, no step stores a trade again. *)
LEMMA StoredOnceStep ==
    ASSUME Dedup, TypeOK, OnceInv, [Next]_vars
    PROVE  StoredOnce'
<1>1. CASE phase = "commit" /\ AppendFiles /\ UNCHANGED delivery
    <2>1. Ledger!Record(fresh)
        BY <1>1, AppendRecords
    <2>2. /\ stored' = [m \in Msgs |-> IF m \in fresh THEN 1 ELSE stored[m]]
          /\ \A m \in fresh : \A n \in Msgs :
                n # m /\ (stored[n] > 0 \/ n \in fresh) => Event[n] # Event[m]
        BY <2>1 DEF Ledger!Record, Ledger!Recorded
    <2>3. \A m \in Msgs : stored'[m] <= 1
        BY <2>2 DEF OnceInv, StoredOnce
    <2>4. ASSUME NEW m \in Msgs, NEW n \in Msgs, stored'[m] > 0, stored'[n] > 0,
                 Event[m] = Event[n]
          PROVE  m = n
        <3>1. (m \in fresh \/ stored[m] > 0) /\ (n \in fresh \/ stored[n] > 0)
            BY <2>2, <2>4
        <3>2. CASE m \in fresh \/ n \in fresh
            BY <2>2, <2>4, <3>1, <3>2
        <3>3. CASE stored[m] > 0 /\ stored[n] > 0
            BY <2>4, <3>3 DEF OnceInv, StoredOnce, InTable
        <3>. QED
            BY <3>1, <3>2, <3>3
    <2>. QED
        BY <2>3, <2>4 DEF StoredOnce, InTable
<1>2. CASE UNCHANGED stored
    BY <1>2 DEF OnceInv, StoredOnce, InTable
<1>. QED
    BY <1>1, <1>2, TableCases

LEMMA OnceInit == Init => OnceInv
    BY DEF Init, AccInit, SinkInit, OnceInv, DistinctKeys, RowKeysSeen, FreshIsNew, Decided,
       StoredOnce, InTable

LEMMA OnceStep == Dedup /\ TypeOK /\ OnceInv /\ [Next]_vars => OnceInv'
<1> SUFFICES ASSUME Dedup, TypeOK, OnceInv, [Next]_vars PROVE OnceInv'
    OBVIOUS
<1>1. DistinctKeys(rows)' /\ RowKeysSeen' /\ DistinctKeys(incoming)'
    BY DistinctStep DEF OnceInv
<1>2. FreshIsNew'
    BY FreshIsNewStep DEF OnceInv
<1>3. StoredOnce'
    BY StoredOnceStep
<1>. QED
    BY <1>1, <1>2, <1>3 DEF OnceInv

(* What is still to be written is new to the table, and no two rows of a     *)
(* batch share a key, from the probe to the commit (deduped_batch, commit).  *)
THEOREM OnceInductive ==
    ASSUME Dedup
    PROVE  Spec => [](TypeOK /\ OnceInv)
<1>1. Init => TypeOK /\ OnceInv
    BY TypeInit, OnceInit
<1>2. TypeOK /\ OnceInv /\ [Next]_vars => TypeOK' /\ OnceInv'
    BY TypeStep, OnceStep
<1>. QED
    BY <1>1, <1>2, PTL DEF Spec

(* No trade is stored twice: with dedup on, a trade has one row at most,     *)
(* whatever is redelivered, and even when a commit that was reported as      *)
(* failed had gone through.                                                  *)
THEOREM NoTradeTwice ==
    ASSUME Dedup
    PROVE  Spec => []StoredOnce
<1>1. OnceInv => StoredOnce
    BY DEF OnceInv
<1>. QED
    BY <1>1, OnceInductive, PTL

-----------------------------------------------------------------------------
(* A message becomes settled by an ack of the run loop after the commit of   *)
(* its batch, or by the ack of a payload that does not decode.               *)
LEMMA SettleCases ==
    ASSUME TypeOK, NoLossInv, [Next]_vars, ~UNCHANGED Acked
    PROVE  UNCHANGED stored /\ \E m \in Msgs : Ledger!Settle(m)
<1>1. delivery \in [Msgs -> {"available", "pending", "acked"}]
    BY DEF TypeOK, SourceTypeOK
<1>2. ASSUME NEW m \in Msgs, ServerAck(m) PROVE Acked' = Acked \union {m}
    BY <1>1, <1>2 DEF ServerAck, Acked
<1>3. ASSUME NEW m \in Msgs, Deliver(m) \/ AckWait(m) PROVE FALSE
    BY <1>1, <1>3 DEF Deliver, AckWait, Acked
<1>4. ASSUME UNCHANGED delivery PROVE FALSE
    BY <1>4 DEF Acked
<1>5. ASSUME NEW m \in Msgs, AckRow(m) PROVE UNCHANGED stored /\ Ledger!Settle(m)
    <2>1. PICK i \in DOMAIN incoming : DedupKey(incoming[i]) = DedupKey(m)
        BY <1>5 DEF AckRow, NoLossInv, HandlesInBatch
    <2>2. KeyStored(incoming[i])
        BY <1>5, OkIsStored DEF AckRow, NoLossInv
    <2>3. \E n \in Msgs : stored[n] > 0 /\ DedupKey(n) = DedupKey(m)
        BY <2>1, <2>2 DEF KeyStored
    <2>. QED
        BY <1>2, <1>5, <2>3 DEF AckRow, sinkVars, DedupKey, Ledger!DedupKey,
           Ledger!Settle, Ledger!Recorded
<1>6. ASSUME DropUndecodable PROVE Head(fetched) \in Msgs /\ Acked' = Acked \union {Head(fetched)}
    BY <1>2, <1>6, EventAssumption DEF DropUndecodable
<1>7. CASE PullRuns
    <2>1. CASE DropUndecodable
        BY <1>6, <1>7, <2>1 DEF PullRuns, DropUndecodable, sinkVars, Ledger!Settle
    <2>. QED
        BY <1>3, <1>4, <1>7, <2>1 DEF PullRuns, PullStep, Send
<1>. QED
    BY <1>3, <1>4, <1>5, <1>7 DEF Next, RunLoop, Failure, RecvRow, TimerDue, Stop,
       FlushNothing, FlushBatch, SinkRuns, SinkFails, AckLost, FlushDone, FlushFailed, Exit,
       Crash, Dies, IntervalPasses, StreamDrained, PullFails, DropUnacked, FetchError,
       Redeliver, vars, sourceVars

(* The batcher implements the ledger: with dedup on, every step of it is a   *)
(* step of TradeLedger, or invisible there.                                  *)
THEOREM BatcherImplementsLedger ==
    ASSUME Dedup
    PROVE  Spec => ImplementsLedger
<1> DEFINE IInv == TypeOK /\ NoLossInv /\ OnceInv
<1>1. Init => IInv
    BY TypeInit, NoLossInit, OnceInit
<1>2. IInv /\ [Next]_vars => IInv'
    BY TypeStep, NoLossStep, OnceStep
<1>3. Init => Ledger!LedgerInit
    BY DEF Init, SourceInit, SinkInit, Ledger!LedgerInit, Acked
<1>4. IInv /\ [Next]_vars => [Ledger!LedgerNext]_(Ledger!ledgerVars)
    <2> SUFFICES ASSUME TypeOK, NoLossInv, OnceInv, [Next]_vars
                 PROVE  [Ledger!LedgerNext]_(Ledger!ledgerVars)
        OBVIOUS
    <2>1. CASE UNCHANGED <<stored, Acked>>
        BY <2>1 DEF Ledger!ledgerVars
    <2>2. CASE ~UNCHANGED Acked
        BY <2>2, SettleCases DEF Ledger!LedgerNext
    <2>3. CASE phase = "commit" /\ AppendFiles /\ UNCHANGED delivery
        <3>1. Ledger!Record(fresh)
            BY <2>3, AppendRecords
        <3>2. fresh \in SUBSET (Msgs \ Undecodable)
            BY DEF TypeOK, SinkTypeOK
        <3>. QED
            BY <3>1, <3>2 DEF Ledger!LedgerNext
    <2>. QED
        BY <2>1, <2>2, <2>3, TableCases
<1>. QED
    BY <1>1, <1>2, <1>3, <1>4, PTL DEF Spec, ImplementsLedger, Ledger!LedgerSpec

=============================================================================
