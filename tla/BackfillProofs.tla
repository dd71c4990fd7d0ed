--------------------------- MODULE BackfillProofs ---------------------------
(***************************************************************************)
(* Theorems about Backfill: what makes it safe to run more than once, for  *)
(* any tables, windows, chunk size and number of failures.                 *)
(***************************************************************************)
EXTENDS Backfill, ChunkedAppendProofs

-----------------------------------------------------------------------------
(* Keys and the query *)

(* Sets without a common key, each with one row of each key, are together    *)
(* such a set.                                                               *)
LEMMA OnePerKeyUnion ==
    ASSUME NEW S, NEW T, OnePerKey(S), OnePerKey(T), Keys(S) \intersect Keys(T) = {}
    PROVE  OnePerKey(S \union T)
    BY DEF OnePerKey, Keys

LEMMA OnePerKeySubset ==
    ASSUME NEW S, NEW T \in SUBSET S, OnePerKey(S)
    PROVE  OnePerKey(T)
    BY DEF OnePerKey

(* The margin does its work: no row on the append list has a key that some   *)
(* row of the destination has, wherever that row is filed.                   *)
LEMMA MissingIsNew ==
    ASSUME KeysAreLocal, NEW w \in Windows, NEW first \in Firsts(SourceRows(w))
    PROVE  /\ Missing(first, w) \subseteq Source
           /\ OnePerKey(Missing(first, w))
           /\ Keys(Missing(first, w)) \intersect Keys(Stored) = {}
<1>1. first \subseteq SourceRows(w) /\ OnePerKey(first)
    BY DEF Firsts, Ranked
<1>2. Missing(first, w) \subseteq first
    BY DEF Missing
<1>3. ASSUME NEW r \in Missing(first, w), NEW n \in Stored, Key(r) = Key(n)
      PROVE  FALSE
    <2>1. r \in Rows /\ n \in Rows /\ w[1] <= Row[r].ts /\ Row[r].ts < w[2]
        BY <1>1, <1>2 DEF SourceRows, InWindow, Stored
    <2>2. Row[r].ts - Row[n].ts <= Margin /\ Row[n].ts - Row[r].ts <= Margin
        BY <1>3, <2>1 DEF KeysAreLocal
    <2>3. /\ Row[r].ts \in Int /\ Row[n].ts \in Int /\ Margin \in Nat
          /\ w[1] \in Int /\ w[2] \in Int
        BY <2>1, RowAssumption, BackfillAssumption
    <2>4. w[1] - Margin <= Row[n].ts /\ Row[n].ts < w[2] + Margin
        BY <2>1, <2>2, <2>3
    <2>5. Key(n) \in TargetKeys(w)
        BY <2>4 DEF TargetKeys
    <2>. QED
        BY <1>3, <2>5 DEF Missing
<1>. QED
    BY <1>1, <1>2, <1>3, OnePerKeySubset DEF SourceRows, Keys

(* The probe of the batcher does its work: a row that survives is new to     *)
(* whatever the destination got from the batcher or had before.              *)
LEMMA SurvivorsAreNew ==
    ASSUME LiveIsNew, StoredIsKnown, NEW S \in SUBSET Live
    PROVE  Keys(Batch!Survivors(S, Stored)) \intersect Keys(Stored) = {}
<1> SUFFICES ASSUME NEW r \in Batch!Survivors(S, Stored), NEW n \in Stored, Key(r) = Key(n)
             PROVE  FALSE
    BY DEF Keys
<1>1. r \in S
    BY DEF Batch!Survivors
<1>2. n \in Live \union Existing
    BY <1>1 DEF StoredIsKnown, LiveIsNew, Keys
<1>3. Row[r].ts = Row[n].ts /\ Row[r].ts \in Int
    BY <1>1, <1>2, BackfillAssumption, RowAssumption DEF LiveIsNew
<1>4. Row[r].exchange = Row[n].exchange
    BY DEF Key
<1>5. n \in Batch!Probe(S, Stored)
    BY <1>1, <1>3, <1>4 DEF Batch!Probe, Batch!InRange, Batch!SameGroup
<1>. QED
    BY <1>5 DEF Batch!Survivors, Batch!DedupKey, Key

-----------------------------------------------------------------------------
(* The inductive invariant *)

LEMMA InvInit ==
    ASSUME OnePerKey(Existing), Init
    PROVE  BackfillInv
<1>1. Stored = Existing
    BY BackfillAssumption DEF Init, AppendInit, Stored
<1>2. TypeOK
    BY DEF Init, AppendInit, TypeOK, AppendTypeOK, Stages
<1>. QED
    BY <1>1, <1>2 DEF Init, AppendInit, BackfillInv, NoDuplicates, StoredIsKnown,
       ToCommit, ToCommitIsNew, LiveIsPending, OnePerKey, Keys

(* A commit of rows that are new to the destination adds each of them once.  *)
LEMMA CommitOfNew ==
    ASSUME TypeOK, NoDuplicates, StoredIsKnown,
           NEW S \in SUBSET Rows, S \subseteq Source \union Live,
           OnePerKey(S), Keys(S) \intersect Keys(Stored) = {},
           target' = [r \in Rows |-> target[r] + IF r \in S THEN 1 ELSE 0]
    PROVE  /\ target' \in [Rows -> Nat]
           /\ Stored' = Stored \union S
           /\ NoDuplicates' /\ StoredIsKnown'
<1>1. target \in [Rows -> Nat]
    BY DEF TypeOK, AppendTypeOK
<1>2. target' \in [Rows -> Nat]
    BY <1>1
<1>3. Stored' = Stored \union S
    BY <1>1 DEF Stored
<1>4. S \intersect Stored = {}
    BY DEF Keys
<1>5. \A r \in Rows : target'[r] <= 1
    BY <1>1, <1>4 DEF NoDuplicates, Stored
<1>6. OnePerKey(Stored \union S)
    BY OnePerKeyUnion DEF NoDuplicates
<1>7. OnePerKey(Stored')
    BY <1>3, <1>6
<1>. QED
    BY <1>2, <1>3, <1>5, <1>7 DEF NoDuplicates, StoredIsKnown

(* A run that begins is given an append list.                                *)
LEMMA RunStep ==
    ASSUME BackfillInv, KeysAreLocal, NEW w \in Windows, Run(w)
    PROVE  BackfillInv'
<1>1. PICK first \in Firsts(SourceRows(w)) : Begin(Missing(first, w))
    BY DEF Run
<1>2. /\ Missing(first, w) \subseteq Source
      /\ OnePerKey(Missing(first, w))
      /\ Keys(Missing(first, w)) \intersect Keys(Stored) = {}
    BY MissingIsNew
<1>3. /\ remaining' = Missing(first, w) /\ buffer' = {} /\ stage' = "stream"
      /\ written' = 0 /\ outcome' = "none" /\ target' = target
      /\ window' = w /\ pending' = pending /\ failures' = failures
    BY <1>1 DEF Run, Begin
<1>4. Stored' = Stored /\ ToCommit' = Missing(first, w)
    BY <1>3 DEF Stored, ToCommit
<1>5. TypeOK'
    BY <1>2, <1>3, BackfillAssumption DEF BackfillInv, TypeOK, AppendTypeOK, Stages
<1>6. NoDuplicates' /\ StoredIsKnown'
    BY <1>3, <1>4 DEF BackfillInv, NoDuplicates, StoredIsKnown
<1>7. ToCommitIsNew'
    BY <1>2, <1>3, <1>4 DEF ToCommitIsNew
<1>8. LiveIsPending'
    BY <1>3, <1>4 DEF BackfillInv, LiveIsPending
<1>. QED
    BY <1>5, <1>6, <1>7, <1>8 DEF BackfillInv

(* A tool that ends without a commit forgets what it holds.                  *)
LEMMA EndStep ==
    ASSUME BackfillInv, NEW how \in {"ok", "err"}, Ends(how),
           UNCHANGED <<target, window, pending>>, failures' \in Nat
    PROVE  BackfillInv'
<1>1. Stored' = Stored /\ ToCommit' = {}
    BY DEF Ends, Stored, ToCommit
<1>2. TypeOK'
    BY DEF Ends, BackfillInv, TypeOK, AppendTypeOK, Stages
<1>3. NoDuplicates' /\ StoredIsKnown' /\ LiveIsPending'
    BY <1>1 DEF BackfillInv, NoDuplicates, StoredIsKnown, LiveIsPending
<1>4. ToCommitIsNew'
    BY <1>1 DEF Ends, ToCommitIsNew, OnePerKey, Keys
<1>. QED
    BY <1>2, <1>3, <1>4 DEF BackfillInv

(* Rows move from the stream to the buffer. *)
LEMMA StreamStep ==
    ASSUME BackfillInv, UNCHANGED <<window, pending, failures>>,
           StreamEnds \/ \E S \in SUBSET remaining : NextBatch(S)
    PROVE  BackfillInv'
<1>1. /\ target' = target /\ written' = written /\ outcome' = outcome
      /\ stage' \in Stages
      /\ ToCommit' = ToCommit
      /\ remaining' \intersect buffer' = {}
      /\ remaining' \subseteq Rows /\ buffer' \subseteq Rows
    <2>1. CASE StreamEnds
        BY <2>1 DEF StreamEnds, ToCommit, BackfillInv, ToCommitIsNew, TypeOK, AppendTypeOK, Stages
    <2>2. ASSUME NEW S \in SUBSET remaining, NextBatch(S)
          PROVE  <1>1!:
        <3>1. remaining' = remaining \ S /\ buffer' = buffer \union S
            BY <2>2 DEF NextBatch
        <3>2. target' = target /\ written' = written /\ outcome' = outcome /\ stage' \in Stages
            BY <2>2 DEF NextBatch, Stages
        <3>. QED
            BY <3>1, <3>2 DEF ToCommit, BackfillInv, ToCommitIsNew, TypeOK, AppendTypeOK
    <2>. QED
        BY <2>1, <2>2
<1>2. Stored' = Stored
    BY <1>1 DEF Stored
<1>3. TypeOK'
    BY <1>1 DEF BackfillInv, TypeOK, AppendTypeOK
<1>4. NoDuplicates' /\ StoredIsKnown' /\ LiveIsPending'
    BY <1>1, <1>2 DEF BackfillInv, NoDuplicates, StoredIsKnown, LiveIsPending
<1>5. ToCommitIsNew'
    BY <1>1, <1>2 DEF BackfillInv, ToCommitIsNew
<1>. QED
    BY <1>3, <1>4, <1>5 DEF BackfillInv

(* A chunk is committed, be it that the tool goes on or that it fails.       *)
LEMMA ChunkStep ==
    ASSUME BackfillInv, LiveIsNew, AppendChunk,
           UNCHANGED <<window, pending>>, failures' \in Nat,
           remaining' \subseteq remaining, buffer' = {},
           stage' \in Stages, written' \in Nat, outcome' \in {"none", "ok", "err"}
    PROVE  BackfillInv'
<1>1. /\ buffer \subseteq Rows /\ buffer \subseteq Source
      /\ OnePerKey(buffer) /\ Keys(buffer) \intersect Keys(Stored) = {}
    <2>1. buffer \subseteq ToCommit
        BY DEF ToCommit
    <2>2. OnePerKey(buffer)
        BY <2>1, OnePerKeySubset DEF BackfillInv, ToCommitIsNew
    <2>. QED
        BY <2>1, <2>2 DEF BackfillInv, TypeOK, AppendTypeOK, ToCommitIsNew, Keys
<1>2. /\ target' \in [Rows -> Nat]
      /\ Stored' = Stored \union buffer
      /\ NoDuplicates' /\ StoredIsKnown'
    BY <1>1, CommitOfNew DEF BackfillInv, AppendChunk
<1>3. TypeOK'
    BY <1>2 DEF BackfillInv, TypeOK, AppendTypeOK
<1>4. ToCommitIsNew'
    <2>1. ToCommit' = remaining' /\ remaining' \subseteq ToCommit
        BY DEF ToCommit
    <2>2. OnePerKey(remaining')
        BY <2>1, OnePerKeySubset DEF BackfillInv, ToCommitIsNew
    <2>3. \A r \in remaining', n \in buffer : Key(r) # Key(n)
        BY DEF BackfillInv, ToCommitIsNew, ToCommit, OnePerKey
    <2>4. Keys(remaining') \intersect Keys(Stored \union buffer) = {}
        BY <2>1, <2>3 DEF BackfillInv, ToCommitIsNew, Keys
    <2>. QED
        BY <1>2, <2>1, <2>2, <2>4 DEF BackfillInv, ToCommitIsNew
<1>5. LiveIsPending'
    <2>1. Keys(pending) \intersect Keys(Stored \union buffer) = {}
        BY <1>1 DEF BackfillInv, LiveIsPending, LiveIsNew, Keys
    <2>. QED
        BY <1>2, <2>1 DEF BackfillInv, LiveIsPending
<1>. QED
    BY <1>2, <1>3, <1>4, <1>5 DEF BackfillInv

(* The batcher probes, or commits what survived. *)
LEMMA LiveStep ==
    ASSUME BackfillInv, LiveIsNew, LiveCommit \/ \E S \in SUBSET Live : LiveProbe(S)
    PROVE  BackfillInv'
<1>1. ASSUME NEW S \in SUBSET Live, LiveProbe(S) PROVE BackfillInv'
    <2>1. Keys(Batch!Survivors(S, Stored)) \intersect Keys(Stored) = {}
        BY SurvivorsAreNew DEF BackfillInv
    <2>2. Batch!Survivors(S, Stored) \subseteq S
        BY DEF Batch!Survivors
    <2>3. /\ pending' = Batch!Survivors(S, Stored)
          /\ OnePerKey(S)
          /\ UNCHANGED <<target, stage, remaining, buffer, written, outcome, window, failures>>
        BY <1>1 DEF LiveProbe, appendVars
    <2>4. Stored' = Stored /\ ToCommit' = ToCommit
        BY <2>3 DEF Stored, ToCommit
    <2>5. TypeOK'
        BY <2>2, <2>3, BackfillAssumption DEF BackfillInv, TypeOK, AppendTypeOK
    <2>6. NoDuplicates' /\ StoredIsKnown' /\ ToCommitIsNew'
        BY <2>3, <2>4 DEF BackfillInv, NoDuplicates, StoredIsKnown, ToCommitIsNew
    <2>7. OnePerKey(Batch!Survivors(S, Stored))
        BY <2>2, <2>3, OnePerKeySubset
    <2>8. LiveIsPending'
        BY <2>1, <2>2, <2>3, <2>4, <2>7 DEF LiveIsPending
    <2>. QED
        BY <2>5, <2>6, <2>8 DEF BackfillInv
<1>2. CASE LiveCommit
    <2>1. /\ target' = [r \in Rows |-> target[r] + IF r \in pending THEN 1 ELSE 0]
          /\ pending' = {}
          /\ UNCHANGED <<stage, remaining, buffer, written, outcome, window, failures>>
        BY <1>2 DEF LiveCommit
    <2>2. /\ target' \in [Rows -> Nat]
          /\ Stored' = Stored \union pending
          /\ NoDuplicates' /\ StoredIsKnown'
        BY <2>1, CommitOfNew DEF BackfillInv, TypeOK, LiveIsPending
    <2>3. TypeOK'
        BY <2>1, <2>2 DEF BackfillInv, TypeOK, AppendTypeOK
    <2>4. ToCommitIsNew'
        <3>1. Keys(ToCommit) \intersect Keys(Stored \union pending) = {}
            BY DEF BackfillInv, ToCommitIsNew, LiveIsPending, LiveIsNew, Keys
        <3>2. ToCommit' = ToCommit
            BY <2>1 DEF ToCommit
        <3>. QED
            BY <2>1, <2>2, <3>1, <3>2 DEF BackfillInv, ToCommitIsNew
    <2>5. LiveIsPending'
        BY <2>1 DEF LiveIsPending, OnePerKey, Keys
    <2>. QED
        BY <2>2, <2>3, <2>4, <2>5 DEF BackfillInv
<1>. QED
    BY <1>1, <1>2

LEMMA InvStep ==
    ASSUME BackfillInv, KeysAreLocal, LiveIsNew, [Next]_vars
    PROVE  BackfillInv'
<1> USE DEF Failure
<1>0. failures \in Nat
    BY DEF BackfillInv, TypeOK
<1>1. ASSUME NEW w \in Windows, Run(w) PROVE BackfillInv'
    BY <1>1, RunStep
<1>2. CASE ToolRuns
    <2>1. CASE StreamEnds \/ \E S \in SUBSET remaining : NextBatch(S)
        BY <1>2, <2>1, StreamStep DEF ToolRuns
    <2>2. CASE ChunkCommitted
        <3>1. written' \in Nat
            <4>1. Cardinality(buffer) \in Nat /\ written \in Nat
                BY SizeOfRows DEF BackfillInv, TypeOK, AppendTypeOK
            <4>. QED
                BY <2>2, <4>1 DEF ChunkCommitted
        <3>. QED
            BY <1>0, <1>2, <2>2, <3>1, ChunkStep
               DEF ToolRuns, ChunkCommitted, Stages, BackfillInv, TypeOK, AppendTypeOK
    <2>3. CASE EnsureVisible(InWindow(window))
        BY <1>0, <1>2, <2>3, EndStep DEF ToolRuns, EnsureVisible
    <2>. QED
        BY <1>2, <2>1, <2>2, <2>3 DEF ToolRuns
<1>3. CASE ToolFails
    <2>1. CASE ChunkAnswerLost
        BY <1>0, <1>3, <2>1, ChunkStep DEF ToolFails, ChunkAnswerLost, Ends, Stages
    <2>2. CASE ChunkFails \/ ReadFails \/ Killed
        BY <1>0, <1>3, <2>2, EndStep DEF ToolFails, ChunkFails, ReadFails, Killed
    <2>. QED
        BY <1>3, <2>1, <2>2 DEF ToolFails
<1>4. CASE LiveCommit \/ \E S \in SUBSET Live : LiveProbe(S)
    BY <1>4, LiveStep
<1>5. CASE UNCHANGED vars
    BY <1>5 DEF vars, appendVars, BackfillInv, TypeOK, AppendTypeOK, NoDuplicates, Stored,
       StoredIsKnown, ToCommit, ToCommitIsNew, LiveIsPending
<1>. QED
    BY <1>1, <1>2, <1>3, <1>4, <1>5 DEF Next

-----------------------------------------------------------------------------
(* The invariant behind the next theorem, which the runs check, too: what is *)
(* still to be committed by either writer stays new.                         *)
THEOREM BackfillStaysNew ==
    ASSUME KeysAreLocal, LiveIsNew, OnePerKey(Existing)
    PROVE  Spec => []BackfillInv
<1>1. Init => BackfillInv
    BY InvInit
<1>2. BackfillInv /\ [Next]_vars => BackfillInv'
    BY InvStep
<1>. QED
    BY <1>1, <1>2, PTL DEF Spec

(* "A retried or overlapping run cannot create duplicates": it holds next to *)
(* a batcher that commits other trades, with a margin that is wide enough,   *)
(* for a destination that had no duplicates to begin with.                   *)
THEOREM RerunsAreSafe ==
    ASSUME KeysAreLocal, LiveIsNew, OnePerKey(Existing)
    PROVE  Spec => []NoDuplicates
<1>1. BackfillInv => NoDuplicates
    BY DEF BackfillInv
<1>. QED
    BY <1>1, BackfillStaysNew, PTL

-----------------------------------------------------------------------------
(* What the runs bring in *)

(* The destination only grows, by what the two writers hold.                 *)
LEMMA StoredGrows ==
    ASSUME TypeOK, [Next]_vars
    PROVE  Stored \subseteq Stored' /\ Stored' \subseteq Stored \union buffer \union pending
<1>1. target \in [Rows -> Nat]
    BY DEF TypeOK, AppendTypeOK
<1>2. ASSUME NEW S \in SUBSET Rows, target' = [r \in Rows |-> target[r] + IF r \in S THEN 1 ELSE 0]
      PROVE  Stored \subseteq Stored' /\ Stored' = Stored \union S
    BY <1>1, <1>2 DEF Stored
<1>3. buffer \subseteq Rows /\ pending \subseteq Rows
    BY DEF TypeOK, AppendTypeOK
<1>4. CASE AppendChunk
    BY <1>2, <1>3, <1>4 DEF AppendChunk
<1>5. CASE LiveCommit
    BY <1>2, <1>3, <1>5 DEF LiveCommit
<1>6. CASE target' = target
    BY <1>6 DEF Stored
<1>7. AppendChunk \/ LiveCommit \/ target' = target
    BY DEF Next, Run, Begin, ToolRuns, NextBatch, StreamEnds, ChunkCommitted, EnsureVisible,
           ToolFails, ChunkFails, ChunkAnswerLost, ReadFails, Killed, LiveProbe, vars, appendVars
<1>. QED
    BY <1>4, <1>5, <1>6, <1>7

(* What the tool and the batcher hold, step by step.                         *)
LEMMA HeldRows ==
    ASSUME [Next]_vars
    PROVE  /\ \/ ToCommit' \subseteq ToCommit
              \/ \E w \in Windows : \E first \in Firsts(SourceRows(w)) : ToCommit' = Missing(first, w)
           /\ pending' \subseteq pending \/ pending' \subseteq Live
<1>1. \/ ToCommit' \subseteq ToCommit
      \/ \E w \in Windows : \E first \in Firsts(SourceRows(w)) : ToCommit' = Missing(first, w)
    <2>1. CASE \E w \in Windows : Run(w)
        BY <2>1 DEF Run, Begin, ToCommit
    <2>2. CASE UNCHANGED <<remaining, buffer>>
        BY <2>2 DEF ToCommit
    <2>3. CASE \E S \in SUBSET remaining : NextBatch(S)
        BY <2>3 DEF NextBatch, ToCommit
    <2>4. CASE remaining' \subseteq remaining /\ buffer' = {}
        BY <2>4 DEF ToCommit
    <2>. QED
        BY <2>1, <2>2, <2>3, <2>4 DEF Next, ToolRuns, StreamEnds, ChunkCommitted, EnsureVisible, Ends,
           ToolFails, ChunkFails, ChunkAnswerLost, ReadFails, Killed, LiveProbe, LiveCommit, vars, appendVars
<1>2. pending' \subseteq pending \/ pending' \subseteq Live
    BY DEF Next, Run, ToolRuns, ToolFails, LiveProbe, LiveCommit, vars, Batch!Survivors
<1>. QED
    BY <1>1, <1>2

LEMMA TypeStep ==
    ASSUME TypeOK, [Next]_vars
    PROVE  TypeOK'
<1>1. /\ target \in [Rows -> Nat] /\ stage \in Stages /\ remaining \subseteq Rows
      /\ buffer \subseteq Rows /\ pending \subseteq Rows /\ written \in Nat /\ failures \in Nat
      /\ outcome \in {"none", "ok", "err"} /\ window \in Windows
    BY DEF TypeOK, AppendTypeOK
<1>2. ASSUME NEW S, target' = [r \in Rows |-> target[r] + IF r \in S THEN 1 ELSE 0]
      PROVE  target' \in [Rows -> Nat]
    BY <1>1, <1>2
<1>3. target' \in [Rows -> Nat]
    <2>1. CASE AppendChunk
        BY <1>2, <2>1 DEF AppendChunk
    <2>2. CASE LiveCommit
        BY <1>2, <2>2 DEF LiveCommit
    <2>3. CASE target' = target
        BY <1>1, <2>3
    <2>. QED
        BY <2>1, <2>2, <2>3 DEF Next, Run, Begin, ToolRuns, NextBatch, StreamEnds, ChunkCommitted,
           EnsureVisible, ToolFails, ChunkFails, ChunkAnswerLost, ReadFails, Killed, LiveProbe, vars, appendVars
<1>4. remaining' \subseteq Rows /\ buffer' \subseteq Rows /\ pending' \subseteq Rows
    <2>1. ASSUME NEW w \in Windows, NEW first \in Firsts(SourceRows(w)) PROVE Missing(first, w) \subseteq Rows
        BY BackfillAssumption DEF Missing, Firsts, Ranked, SourceRows
    <2>2. ToCommit \subseteq Rows
        BY <1>1 DEF ToCommit
    <2>3. ToCommit' \subseteq Rows /\ pending' \subseteq Rows
        BY <1>1, <2>1, <2>2, HeldRows, BackfillAssumption
    <2>. QED
        BY <2>3 DEF ToCommit
<1>5. stage' \in Stages /\ outcome' \in {"none", "ok", "err"} /\ window' \in Windows
    BY <1>1 DEF Stages, Next, Run, Begin, ToolRuns, NextBatch, StreamEnds, ChunkCommitted, EnsureVisible,
       Ends, ToolFails, ChunkFails, ChunkAnswerLost, ReadFails, Killed, LiveProbe, LiveCommit, vars, appendVars
<1>6. written' \in Nat /\ failures' \in Nat
    <2>1. Cardinality(buffer) \in Nat
        BY <1>1, SizeOfRows
    <2>. QED
        BY <1>1, <2>1 DEF Next, Run, Begin, ToolRuns, NextBatch, StreamEnds, ChunkCommitted, EnsureVisible, Ends,
           ToolFails, Failure, ChunkFails, ChunkAnswerLost, ReadFails, Killed, LiveProbe, LiveCommit, vars, appendVars
<1>. QED
    BY <1>3, <1>4, <1>5, <1>6 DEF TypeOK, AppendTypeOK

LEMMA TypeInit == Init => TypeOK
    BY DEF Init, AppendInit, TypeOK, AppendTypeOK, Stages

Complete(S) == \A r \in S : Row[r].complete

CompleteInv == Complete(Stored \ Existing) /\ Complete(ToCommit) /\ Complete(pending)

(* No run, good, failed or killed, puts a row in the destination that lacks  *)
(* a required column, if the batcher does not.                               *)
THEOREM OnlyCompleteRowsArrive ==
    ASSUME Complete(Live)
    PROVE  Spec => []OnlyComplete
<1>1. Init => CompleteInv
    BY BackfillAssumption DEF Init, AppendInit, CompleteInv, Complete, Stored, ToCommit
<1>2. TypeOK /\ CompleteInv /\ [Next]_vars => CompleteInv'
    <2> SUFFICES ASSUME TypeOK, CompleteInv, [Next]_vars PROVE CompleteInv'
        OBVIOUS
    <2>1. Complete(Stored' \ Existing)
        BY StoredGrows DEF CompleteInv, Complete, ToCommit
    <2>2. Complete(ToCommit')
        BY HeldRows DEF CompleteInv, Complete, Missing
    <2>3. Complete(pending')
        BY HeldRows DEF CompleteInv, Complete
    <2>. QED
        BY <2>1, <2>2, <2>3 DEF CompleteInv, Complete
<1>3. CompleteInv => OnlyComplete
    BY DEF CompleteInv, Complete, OnlyComplete
<1>. QED
    BY <1>1, <1>2, <1>3, TypeInit, TypeStep, PTL DEF Spec

(* Rows that tie for the first place of their key are copies of one another, *)
(* at least in having all columns.                                           *)
TiesAgree ==
    \A r, n \in Source :
        Key(r) = Key(n) /\ Row[r].at = Row[n].at => Row[r].complete = Row[n].complete

(* The rows that ranked first in the current, or last, run are in the        *)
(* destination or still to be committed.                                     *)
Accounted(first) ==
    \A r \in first : Row[r].complete => Key(r) \in TargetKeys(window) \union Keys(ToCommit)

RunInv ==
    /\ stage # "idle" \/ outcome = "ok" => \E first \in Firsts(SourceRows(window)) : Accounted(first)
    /\ stage \in {"idle", "verify"} => ToCommit = {}
    /\ stage = "last" => remaining = {}
    /\ stage # "idle" => outcome = "none"
    /\ ToCommit \subseteq WantedRows(window)

LEMMA WantedIsInWindow ==
    ASSUME NEW w
    PROVE  WantedRows(w) \subseteq InWindow(w)
    BY DEF WantedRows, Ranked, SourceRows

LEMMA RunInvInit == Init => RunInv
    BY DEF Init, AppendInit, RunInv, ToCommit

(* A step within a run, or beside it, that loses no row.                     *)
LEMMA StaysAccounted ==
    ASSUME TypeOK, [Next]_vars, window' = window, ToCommit \subseteq ToCommit' \union Stored',
           ToCommit \subseteq InWindow(window),
           NEW first, Accounted(first)
    PROVE  Accounted(first)'
<1>1. TargetKeys(window) \subseteq TargetKeys(window)'
    BY StoredGrows DEF TargetKeys
<1>2. ASSUME NEW r \in ToCommit, r \in Stored' PROVE Key(r) \in TargetKeys(window)'
    <2>1. r \in Rows /\ window[1] <= Row[r].ts /\ Row[r].ts < window[2]
        BY DEF InWindow
    <2>2. Row[r].ts \in Int /\ window[1] \in Int /\ window[2] \in Int /\ Margin \in Nat
        BY <2>1, RowAssumption, BackfillAssumption DEF TypeOK
    <2>3. window[1] - Margin <= Row[r].ts /\ Row[r].ts < window[2] + Margin
        BY <2>1, <2>2
    <2>. QED
        BY <1>2, <2>3 DEF TargetKeys
<1>3. Keys(ToCommit) \subseteq Keys(ToCommit') \union TargetKeys(window)'
    BY <1>2 DEF Keys
<1>. QED
    BY <1>1, <1>3 DEF Accounted, Keys

(* A step of a run that stays the same run, beside the batcher.              *)
LEMMA SameRun ==
    ASSUME TypeOK, RunInv, [Next]_vars, window' = window,
           stage # "idle" \/ outcome = "ok",
           ToCommit \subseteq ToCommit' \union Stored'
    PROVE  \E first \in Firsts(SourceRows(window')) : Accounted(first)'
<1>1. PICK first \in Firsts(SourceRows(window)) : Accounted(first)
    BY DEF RunInv
<1>2. Accounted(first)'
    BY <1>1, StaysAccounted, WantedIsInWindow DEF RunInv
<1>3. first \in Firsts(SourceRows(window'))
    BY <1>1
<1>. QED
    BY <1>2, <1>3

LEMMA RunInvStep ==
    ASSUME TypeOK, RunInv, [Next]_vars
    PROVE  RunInv'
<1>1. ASSUME NEW w \in Windows, Run(w) PROVE RunInv'
    <2>1. PICK first \in Firsts(SourceRows(w)) : Begin(Missing(first, w))
        BY <1>1 DEF Run
    <2>2. /\ stage' = "stream" /\ outcome' = "none" /\ window' = w /\ target' = target
          /\ ToCommit' = Missing(first, w)
        BY <1>1, <2>1 DEF Run, Begin, ToCommit
    <2>3. Stored' = Stored
        BY <2>2 DEF Stored
    <2>4. \A r \in first : Row[r].complete => Key(r) \in TargetKeys(w) \union Keys(Missing(first, w))
        BY DEF Missing, Keys
    <2>5. Accounted(first)'
        BY <2>2, <2>3, <2>4 DEF Accounted, TargetKeys
    <2>6. ToCommit' \subseteq WantedRows(window')
        BY <2>2 DEF Missing, Firsts, WantedRows
    <2>. QED
        BY <2>2, <2>5, <2>6 DEF RunInv
<1>2. CASE StreamEnds \/ \E S \in SUBSET remaining : NextBatch(S)
    <2>1. stage = "stream" /\ ToCommit' = ToCommit /\ outcome' = outcome /\ window' = window
        BY <1>2 DEF StreamEnds, NextBatch, ToCommit, Next, Run, Begin, ToolRuns, ChunkCommitted, EnsureVisible,
           ToolFails, ChunkFails, ChunkAnswerLost, ReadFails, Killed, LiveProbe, LiveCommit, Ends, vars, appendVars
    <2>2. \/ stage' \in {"stream", "chunk"}
          \/ stage' = "last" /\ remaining' = {}
          \/ stage' = "verify" /\ ToCommit' = {}
        BY <1>2 DEF StreamEnds, NextBatch, ToCommit
    <2>3. \E first \in Firsts(SourceRows(window')) : Accounted(first)'
        BY <2>1, SameRun
    <2>. QED
        BY <2>1, <2>2, <2>3 DEF RunInv
<1>3. CASE ChunkCommitted /\ UNCHANGED window
    <2>1. /\ stage \in {"chunk", "last"} /\ stage' = IF stage = "last" THEN "verify" ELSE "stream"
          /\ remaining' = remaining /\ buffer' = {} /\ outcome' = outcome /\ AppendChunk
        BY <1>3 DEF ChunkCommitted
    <2>2. buffer \subseteq Stored'
        BY <2>1 DEF AppendChunk, Stored, TypeOK, AppendTypeOK
    <2>3. ToCommit \subseteq ToCommit' \union Stored' /\ ToCommit' = remaining
        BY <2>1, <2>2 DEF ToCommit
    <2>4. \E first \in Firsts(SourceRows(window')) : Accounted(first)'
        BY <1>3, <2>1, <2>3, SameRun
    <2>5. /\ outcome' = "none"
          /\ stage' = "verify" => ToCommit' = {}
          /\ ToCommit' \subseteq WantedRows(window')
        BY <1>3, <2>1, <2>3 DEF RunInv, ToCommit
    <2>. QED
        BY <2>1, <2>4, <2>5 DEF RunInv
<1>4. CASE EnsureVisible(InWindow(window)) /\ UNCHANGED window
    <2>1. stage = "verify" /\ stage' = "idle" /\ ToCommit' = {} /\ outcome' \in {"ok", "err"}
        BY <1>4 DEF EnsureVisible, Ends, ToCommit
    <2>2. \E first \in Firsts(SourceRows(window')) : Accounted(first)'
        BY <1>4, <2>1, SameRun DEF RunInv
    <2>. QED
        BY <2>1, <2>2 DEF RunInv
<1>5. CASE Ends("err")
    BY <1>5 DEF Ends, RunInv, ToCommit
<1>6. CASE UNCHANGED <<stage, remaining, buffer, outcome, window>>
    <2>1. ToCommit' = ToCommit
        BY <1>6 DEF ToCommit
    <2>2. stage # "idle" \/ outcome = "ok" =>
              \E first \in Firsts(SourceRows(window')) : Accounted(first)'
        BY <1>6, <2>1, SameRun
    <2>. QED
        BY <1>6, <2>1, <2>2 DEF RunInv
<1>. QED
    BY <1>1, <1>2, <1>3, <1>4, <1>5, <1>6 DEF Next, ToolRuns, ToolFails, ChunkFails, ChunkAnswerLost,
       ReadFails, Killed, LiveProbe, LiveCommit, vars, appendVars

(* When a run has nothing left to commit, all that it may copy is in the     *)
(* destination, whichever of the rows that tie it had ranked first.          *)
LEMMA WantedHasArrived ==
    ASSUME TiesAgree, ToCommit = {},
           NEW done \in Firsts(SourceRows(window)), Accounted(done),
           NEW r \in WantedRows(window)
    PROVE  Key(r) \in TargetKeys(window)
<1>1. r \in Ranked(SourceRows(window)) /\ Row[r].complete
    BY DEF WantedRows
<1>2. PICK n \in done : Key(n) = Key(r)
    BY <1>1 DEF Firsts, Keys, Ranked
<1>3. n \in Ranked(SourceRows(window))
    BY DEF Firsts
<1>4. n \in Source /\ r \in Source /\ n \in Rows /\ r \in Rows
    BY <1>1, <1>3, BackfillAssumption DEF Ranked, SourceRows
<1>5. Row[n].at = Row[r].at
    BY <1>1, <1>2, <1>3, <1>4, RowAssumption DEF Ranked
<1>6. Row[n].complete
    BY <1>1, <1>2, <1>4, <1>5 DEF TiesAgree
<1>7. Key(n) \in TargetKeys(window)
    BY <1>6 DEF Accounted, Keys
<1>. QED
    BY <1>2, <1>7

(* A run that ends well has left nothing of its window behind, whatever      *)
(* failed before it and whatever the batcher committed meanwhile.            *)
THEOREM GoodRunsAreComplete ==
    ASSUME TiesAgree
    PROVE  Spec => []GoodRunIsComplete
<1>1. ASSUME TypeOK, RunInv PROVE GoodRunIsComplete
    <2> SUFFICES ASSUME outcome = "ok", NEW first \in Firsts(SourceRows(window))
                 PROVE  RowsToAppend(first, window) = 0
        BY DEF GoodRunIsComplete
    <2>1. PICK done \in Firsts(SourceRows(window)) : Accounted(done)
        BY <1>1 DEF RunInv
    <2>2. ToCommit = {}
        BY <1>1 DEF RunInv
    <2>3. ASSUME NEW r \in Missing(first, window) PROVE FALSE
        <3>1. r \in WantedRows(window) /\ Key(r) \notin TargetKeys(window)
            BY DEF Missing, Firsts, WantedRows
        <3>. QED
            BY <2>1, <2>2, <3>1, WantedHasArrived
    <2>4. {j \in first \X Missing(first, window) : Key(j[1]) = Key(j[2])} = {}
        BY <2>3
    <2>. QED
        BY <2>4, FS_EmptySet DEF RowsToAppend
<1>. QED
    BY <1>1, TypeInit, TypeStep, RunInvInit, RunInvStep, PTL DEF Spec

-----------------------------------------------------------------------------
(* The read-back *)

(* What the tool has counted is in the range it will read back.              *)
CountInv == written <= Visible(InWindow(window))

LEMMA CountStep ==
    ASSUME TypeOK, RunInv, CountInv, [Next]_vars
    PROVE  CountInv'
<1> DEFINE W == InWindow(window)
<1>1. /\ target \in [Rows -> Nat] /\ target' \in [Rows -> Nat]
      /\ buffer \in SUBSET Rows /\ pending \in SUBSET Rows /\ written \in Nat
    BY TypeStep DEF TypeOK, AppendTypeOK
<1>2. W \in SUBSET Rows /\ buffer \subseteq W
    BY WantedIsInWindow DEF InWindow, RunInv, ToCommit
<1>3. Visible(W) \in Nat
    BY <1>1, <1>2, CopiesAreFinite DEF Visible
<1>4. CASE written' = 0
    <2>1. InWindow(window') \in SUBSET Rows
        BY DEF InWindow
    <2>2. Cardinality(Copies(target', InWindow(window'))) \in Nat
        BY <1>1, <2>1, CopiesAreFinite
    <2>. QED
        BY <1>4, <2>2 DEF CountInv, Visible
<1>5. ASSUME NEW T \in SUBSET Rows, window' = window,
             target' = [r \in Rows |-> target[r] + IF r \in T THEN 1 ELSE 0]
      PROVE  Visible(InWindow(window))' = Visible(W) + Cardinality(W \intersect T)
    <2>1. Cardinality(Copies(target', W)) = Cardinality(Copies(target, W)) + Cardinality(W \intersect T)
        BY <1>1, <1>2, <1>5, AppendCount
    <2>. QED
        BY <1>5, <2>1 DEF Visible
<1>6. CASE ChunkCommitted /\ window' = window
    <2>1. Visible(InWindow(window))' = Visible(W) + Cardinality(W \intersect buffer)
        BY <1>1, <1>5, <1>6 DEF ChunkCommitted, AppendChunk
    <2>2. Cardinality(buffer) \in Nat /\ Cardinality(W \intersect buffer) = Cardinality(buffer)
        <3>1. W \intersect buffer = buffer
            BY <1>2
        <3> HIDE DEF W
        <3>. QED
            BY <1>1, <3>1, SizeOfRows
    <2>3. written' = written + Cardinality(buffer)
        BY <1>6 DEF ChunkCommitted
    <2>. QED
        BY <1>1, <1>3, <2>1, <2>2, <2>3 DEF CountInv
<1>7. CASE LiveCommit
    <2>1. Visible(InWindow(window))' = Visible(W) + Cardinality(W \intersect pending)
        BY <1>1, <1>5, <1>7 DEF LiveCommit
    <2>2. Cardinality(W \intersect pending) \in Nat
        BY <1>1, SizeOfRows
    <2>3. written' = written
        BY <1>7 DEF LiveCommit
    <2>. QED
        BY <1>1, <1>3, <2>1, <2>2, <2>3 DEF CountInv
<1>8. CASE UNCHANGED <<target, window, written>>
    BY <1>8 DEF CountInv, Visible
<1>. QED
    BY <1>4, <1>6, <1>7, <1>8 DEF Next, Run, Begin, ToolRuns, NextBatch, StreamEnds, EnsureVisible, Ends,
       ToolFails, ChunkFails, ChunkAnswerLost, ReadFails, Killed, LiveProbe, vars, appendVars

(* "only {visible} of {written} written rows are readable" is never said of  *)
(* a write that went well: for any tables, windows, margin and chunks, and   *)
(* whatever the batcher commits into the range meanwhile.                    *)
THEOREM ReadBackAgrees == Spec => []WrittenIsVisible
<1>1. Init => CountInv
    <2> SUFFICES ASSUME Init PROVE CountInv
        OBVIOUS
    <2>1. target \in [Rows -> Nat] /\ written = 0
        BY DEF Init, AppendInit
    <2>2. InWindow(window) \in SUBSET Rows
        BY DEF InWindow
    <2>. QED
        BY <2>1, <2>2, CopiesAreFinite DEF CountInv, Visible
<1>2. TypeOK /\ RunInv /\ CountInv /\ [Next]_vars => CountInv'
    BY CountStep
<1>3. TypeOK /\ CountInv => WrittenIsVisible
    <2> SUFFICES ASSUME TypeOK, CountInv PROVE WrittenIsVisible
        OBVIOUS
    <2>1. InWindow(window) \in SUBSET Rows /\ target \in [Rows -> Nat] /\ written \in Nat
        BY DEF InWindow, TypeOK, AppendTypeOK
    <2>2. Visible(InWindow(window)) \in Nat
        BY <2>1, CopiesAreFinite DEF Visible
    <2>. QED
        BY <2>1, <2>2 DEF CountInv, WrittenIsVisible
<1>. QED
    BY <1>1, <1>2, <1>3, TypeInit, TypeStep, RunInvInit, RunInvStep, PTL DEF Spec

-----------------------------------------------------------------------------
(* The abstract tool *)

LEMMA GapFillInit == Init => Gap!GapInit
    BY DEF Init, AppendInit, Gap!GapInit

(* A commit of rows that are new to the destination is one of GapFill. *)
LEMMA CommitIsAdd ==
    ASSUME TypeOK, NEW S \in SUBSET Rows, OnePerKey(S), Keys(S) \intersect Keys(Stored) = {},
           target' = [r \in Rows |-> target[r] + IF r \in S THEN 1 ELSE 0],
           window' = window
    PROVE  Gap!Add(S)
<1>1. target \in [Rows -> Nat] /\ Stored \subseteq Rows
    BY DEF TypeOK, AppendTypeOK, Stored
<1>2. \A r \in S : target[r] = 0
    BY <1>1 DEF Keys, Stored
<1>3. target' = [r \in Rows |-> IF r \in S THEN 1 ELSE target[r]]
    BY <1>1, <1>2
<1>4. Gap!Present = Stored
    BY DEF Gap!Present, Stored
<1>5. Gap!KeysIn(S) = Keys(S) /\ Gap!KeysIn(Stored) = Keys(Stored)
    BY <1>1 DEF Gap!KeysIn, Keys
<1>6. \A r, n \in S : Key(r) = Key(n) => r = n
    BY DEF OnePerKey
<1>. QED
    BY <1>3, <1>4, <1>5, <1>6 DEF Gap!Add

(* Each step of the tool and the batcher is a step of GapFill, or none.      *)
LEMMA GapFillStep ==
    ASSUME BackfillInv, RunInv, TiesAgree, [Next]_vars
    PROVE  [Gap!GapNext]_Gap!gapVars
<1>1. /\ TypeOK /\ window \in Windows /\ buffer \in SUBSET Rows /\ pending \in SUBSET Rows
      /\ stage # "idle" => outcome = "none"
    BY DEF BackfillInv, TypeOK, AppendTypeOK, RunInv
<1>2. CASE \E w \in Windows : Run(w)
    BY <1>2 DEF Run, Begin, Gap!GapNext, Gap!Ask
<1>3. CASE AppendChunk /\ window' = window /\ stage # "idle" /\ outcome' \in {"none", "err"}
    <2>1. /\ buffer \subseteq ToCommit /\ OnePerKey(buffer)
          /\ Keys(buffer) \intersect Keys(Stored) = {}
        BY OnePerKeySubset DEF ToCommit, BackfillInv, ToCommitIsNew, Keys
    <2>2. Gap!Add(buffer)
        BY <1>1, <1>3, <2>1, CommitIsAdd DEF AppendChunk
    <2>3. buffer \in SUBSET WantedRows(window)
        BY <2>1 DEF RunInv
    <2>4. Gap!Fill(buffer)
        BY <1>1, <1>3, <2>2 DEF Gap!Fill
    <2>. QED
        BY <1>1, <2>3, <2>4 DEF Gap!GapNext
<1>4. CASE EnsureVisible(InWindow(window)) /\ window' = window
    <2>1. PICK done \in Firsts(SourceRows(window)) : Accounted(done)
        BY <1>4 DEF EnsureVisible, RunInv
    <2>2. ToCommit = {}
        BY <1>4 DEF EnsureVisible, RunInv
    <2>3. WantedRows(window) \subseteq Rows /\ Stored \subseteq Rows
        BY DEF WantedRows, Ranked, SourceRows, InWindow, Stored
    <2>4. \A r \in WantedRows(window) : Key(r) \in Keys(Stored)
        BY <2>1, <2>2, WantedHasArrived DEF TargetKeys, Keys
    <2>5. Gap!KeysIn(WantedRows(window)) \subseteq Gap!KeysIn(Gap!Present)
        BY <2>3, <2>4 DEF Gap!KeysIn, Gap!Present, Keys, Stored
    <2>6. Gap!Report
        BY <1>1, <1>4, <2>5 DEF EnsureVisible, Ends, Gap!Report
    <2>. QED
        BY <2>6 DEF Gap!GapNext
<1>5. CASE stage # "idle" /\ Ends("err") /\ UNCHANGED <<target, window>>
    BY <1>1, <1>5 DEF Ends, Gap!Report, Gap!GapNext
<1>6. CASE LiveCommit
    <2>1. pending \in SUBSET Live /\ OnePerKey(pending) /\ Keys(pending) \intersect Keys(Stored) = {}
        BY DEF BackfillInv, LiveIsPending
    <2>2. Gap!Add(pending)
        BY <1>1, <1>6, <2>1, CommitIsAdd DEF LiveCommit
    <2>3. Gap!AddLive(pending)
        BY <1>6, <2>2 DEF LiveCommit, Gap!AddLive
    <2>. QED
        BY <2>1, <2>3 DEF Gap!GapNext
<1>7. CASE UNCHANGED <<target, window, outcome>>
    BY <1>7 DEF Gap!gapVars
<1>8. CASE ToolRuns
    BY <1>1, <1>3, <1>4, <1>7, <1>8
       DEF ToolRuns, NextBatch, StreamEnds, ChunkCommitted
<1>9. CASE ToolFails
    BY <1>3, <1>5, <1>9
       DEF ToolFails, ChunkFails, ChunkAnswerLost, ReadFails, Killed, Ends
<1>. QED
    BY <1>2, <1>6, <1>7, <1>8, <1>9 DEF Next, LiveProbe, vars, appendVars

(* crypto-backfill keeps the promise of GapFill, next to a batcher and       *)
(* through failures: new keys of the window only, whole commits at a time,   *)
(* nothing after the verdict, no good verdict with a wanted trade missing.   *)
THEOREM BackfillImplementsGapFill ==
    ASSUME KeysAreLocal, LiveIsNew, OnePerKey(Existing), TiesAgree
    PROVE  Spec => ImplementsGapFill
<1>1. BackfillInv => TypeOK
    BY DEF BackfillInv
<1>. QED
    BY <1>1, BackfillStaysNew, RunInvInit, RunInvStep, GapFillInit, GapFillStep, PTL
       DEF Spec, ImplementsGapFill, Gap!GapSpec

=============================================================================
