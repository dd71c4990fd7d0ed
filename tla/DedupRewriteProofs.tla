------------------------- MODULE DedupRewriteProofs -------------------------
(***************************************************************************)
(* Theorems about the rewrite of a table: why it converges when the        *)
(* destination is recreated after a run that failed, for any table,        *)
(* windows without a common row, chunk size and number of failures.        *)
(***************************************************************************)
EXTENDS DedupRewrite, ChunkedAppendProofs

-----------------------------------------------------------------------------
(* The results of the query *)

LEMMA ResultIsOfWindow ==
    ASSUME NEW w, NEW first \in Firsts(SourceRows(w))
    PROVE  first \subseteq InWindow(w) /\ first \subseteq SourceRows(w) /\ first \subseteq Rows
    BY DEF Firsts, Ranked, SourceRows, InWindow

(* However the rows that tie are ranked, a result has as many rows as the    *)
(* window has keys.                                                          *)
LEMMA ResultsAreAsLarge ==
    ASSUME NEW w, NEW first \in Firsts(SourceRows(w))
    PROVE  /\ IsFiniteSet(Keys(SourceRows(w)))
           /\ Cardinality(first) = Cardinality(Keys(SourceRows(w)))
<1> DEFINE f == [r \in first |-> Key(r)]
<1>1. Keys(first) = Keys(SourceRows(w)) /\ OnePerKey(first)
    BY DEF Firsts
<1>2. f \in Bijection(first, Keys(first))
    BY <1>1 DEF Bijection, Injection, Surjection, IsInjective, OnePerKey, Keys
<1>3. IsFiniteSet(first)
    BY ResultIsOfWindow, SizeOfRows
<1>4. ExistsBijection(first, Keys(first))
    BY <1>2 DEF ExistsBijection
<1>. QED
    BY <1>1, <1>3, <1>4, FS_Bijection

-----------------------------------------------------------------------------
(* The inductive invariant *)

LEMMA RewriteInit == Init => RewriteInv
<1> SUFFICES ASSUME Init PROVE RewriteInv
    OBVIOUS
<1>1. Stored = {}
    BY DEF Init, AppendInit, Stored
<1>. QED
    BY <1>1 DEF Init, AppendInit, RewriteInv, TypeOK, AppendTypeOK, Stages, RunIsWhole, RestIsEmpty,
       Held, StoredOf

(* A run that begins has the whole of its result to write, and nothing of    *)
(* its window in the destination.                                            *)
LEMMA RunStep ==
    ASSUME RewriteInv, FreshTarget, RunsOnce, NEW w \in Windows, Run(w)
    PROVE  RewriteInv'
<1>1. PICK first \in Firsts(SourceRows(w)) : Begin(first)
    BY DEF Run, RewriteResult
<1>2. /\ w \notin rewritten /\ outcome # "err" /\ stage = "idle"
      /\ stage' = "stream" /\ remaining' = first /\ buffer' = {} /\ written' = 0
      /\ outcome' = "none" /\ window' = w
      /\ UNCHANGED <<target, rewritten, failures>>
    BY <1>1 DEF Run, Begin
<1>3. first \subseteq InWindow(w) /\ first \subseteq Rows
    BY ResultIsOfWindow
<1>4. \A v \in Windows \ rewritten : StoredOf(v) = {}
    BY <1>2 DEF RewriteInv, RestIsEmpty
<1>5. Stored' = Stored /\ Held' = first /\ \A v : StoredOf(v)' = Stored \intersect InWindow(v)
    BY <1>2 DEF Stored, Held, StoredOf
<1>6. TypeOK'
    BY <1>2, <1>3 DEF RewriteInv, TypeOK, AppendTypeOK, Stages
<1>7. written' = Visible(InWindow(window))'
    <2>1. target \in [Rows -> Nat] /\ InWindow(w) \in SUBSET Rows
        BY DEF RewriteInv, TypeOK, AppendTypeOK, InWindow
    <2>2. \A r \in InWindow(w) : target[r] = 0
        BY <1>2, <1>4, <2>1 DEF StoredOf, Stored
    <2>3. Cardinality(Copies(target, InWindow(w))) = 0
        BY <2>1, <2>2, NoCopies
    <2>. QED
        BY <1>2, <2>3 DEF Visible
<1>8. RunIsWhole'
    <2>1. Stored \intersect InWindow(w) = {}
        BY <1>2, <1>4 DEF StoredOf
    <2>2. /\ Held' \intersect StoredOf(window)' = {}
          /\ Held' \union StoredOf(window)' = first
        BY <1>2, <1>5, <2>1 DEF StoredOf
    <2>. QED
        BY <1>2, <1>7, <2>2 DEF RunIsWhole
<1>9. RestIsEmpty'
    BY <1>2, <1>4, <1>5 DEF RestIsEmpty, StoredOf
<1>10. \A v \in rewritten' : StoredOf(v)' \in Firsts(SourceRows(v))
    BY <1>2, <1>5 DEF RewriteInv, StoredOf
<1>. QED
    BY <1>2, <1>6, <1>8, <1>9, <1>10 DEF RewriteInv

LEMMA StreamStep ==
    ASSUME RewriteInv, UNCHANGED <<window, rewritten, failures>>,
           StreamEnds \/ \E S \in SUBSET remaining : NextBatch(S)
    PROVE  RewriteInv'
<1>1. /\ AppendTypeOK' /\ Held' = Held /\ remaining' \intersect buffer' = {}
      /\ stage = "stream"
      /\ \/ stage' \in {"stream", "chunk"}
         \/ stage' = "last" /\ remaining' = {}
         \/ stage' = "verify" /\ Held' = {}
      /\ UNCHANGED <<target, written, outcome>>
    BY StreamKeepsRows DEF RewriteInv, TypeOK, RunIsWhole, Held
<1>2. Stored' = Stored /\ Visible(InWindow(window))' = Visible(InWindow(window))
    BY <1>1 DEF Stored, Visible
<1>3. RunIsWhole'
    BY <1>1, <1>2 DEF RewriteInv, RunIsWhole, StoredOf
<1>4. RestIsEmpty'
    BY <1>1, <1>2 DEF RewriteInv, RestIsEmpty, StoredOf
<1>. QED
    BY <1>1, <1>2, <1>3, <1>4 DEF RewriteInv, TypeOK, StoredOf

(* What a commit of a run's buffer does to the destination.                  *)
LEMMA ChunkEffect ==
    ASSUME RewriteInv, WindowsAreDisjoint, AppendChunk, stage # "idle"
    PROVE  /\ target' \in [Rows -> Nat]
           /\ \A r \in Rows : target'[r] <= 1
           /\ Stored' \intersect InWindow(window) = StoredOf(window) \union buffer
           /\ \A v \in Windows \ {window} : Stored' \intersect InWindow(v) = StoredOf(v)
           /\ Cardinality(Copies(target', InWindow(window))) = written + Cardinality(buffer)
           /\ Cardinality(buffer) \in Nat
<1>1. target \in [Rows -> Nat] /\ buffer \in SUBSET Rows /\ window \in Windows
    BY DEF RewriteInv, TypeOK, AppendTypeOK
<1>2. target' \in [Rows -> Nat] /\ Stored' = Stored \union buffer
    BY <1>1, AppendStores DEF AppendChunk
<1>3. buffer \subseteq InWindow(window) /\ buffer \intersect Stored = {}
    <2>1. Held \union StoredOf(window) \subseteq InWindow(window)
        BY ResultIsOfWindow DEF RewriteInv, RunIsWhole
    <2>. QED
        BY <2>1 DEF RewriteInv, RunIsWhole, Held, StoredOf
<1>4. \A r \in Rows : target'[r] <= 1
    BY <1>1, <1>3 DEF AppendChunk, RewriteInv, Stored
<1>5. \A v \in Windows \ {window} : InWindow(v) \intersect InWindow(window) = {}
    BY <1>1 DEF WindowsAreDisjoint
<1>6. Cardinality(Copies(target', InWindow(window))) = written + Cardinality(buffer)
    <2>1. PICK W \in SUBSET Rows : W = InWindow(window)
        BY DEF InWindow
    <2>2. W \intersect buffer = buffer
        BY <1>3, <2>1
    <2>3. written = Cardinality(Copies(target, W))
        BY <2>1 DEF RewriteInv, RunIsWhole, Visible
    <2>4. Cardinality(Copies(target', W)) = Cardinality(Copies(target, W)) + Cardinality(W \intersect buffer)
        <3>1. \A r \in Rows : target'[r] = target[r] + IF r \in buffer THEN 1 ELSE 0
            BY DEF AppendChunk
        <3>. QED
            BY <1>1, <1>2, <3>1, AppendCount
    <2>. QED
        BY <2>1, <2>2, <2>3, <2>4
<1>. QED
    BY <1>1, <1>2, <1>3, <1>4, <1>5, <1>6, SizeOfRows DEF StoredOf

(* A chunk is committed, and the tool goes on. *)
LEMMA CommitStep ==
    ASSUME RewriteInv, WindowsAreDisjoint, ChunkCommitted, UNCHANGED <<window, rewritten, failures>>
    PROVE  RewriteInv'
<1>1. /\ stage \in {"chunk", "last"} /\ AppendChunk
      /\ written' = written + Cardinality(buffer) /\ buffer' = {}
      /\ stage' = IF stage = "last" THEN "verify" ELSE "stream"
      /\ UNCHANGED <<remaining, outcome>>
    BY DEF ChunkCommitted
<1>2. /\ target' \in [Rows -> Nat]
      /\ \A r \in Rows : target'[r] <= 1
      /\ Stored' \intersect InWindow(window) = StoredOf(window) \union buffer
      /\ \A v \in Windows \ {window} : Stored' \intersect InWindow(v) = StoredOf(v)
      /\ Cardinality(Copies(target', InWindow(window))) = written + Cardinality(buffer)
      /\ Cardinality(buffer) \in Nat
    BY <1>1, ChunkEffect
<1>3. Held' = remaining /\ Held = remaining \union buffer
    BY <1>1 DEF Held
<1>4. TypeOK'
    BY <1>1, <1>2 DEF RewriteInv, TypeOK, AppendTypeOK, Stages
<1>5. written' = Visible(InWindow(window))'
    BY <1>1, <1>2 DEF Visible
<1>6. /\ Held' \intersect StoredOf(window)' = {}
      /\ Held' \union StoredOf(window)' = Held \union StoredOf(window)
    BY <1>1, <1>2, <1>3 DEF RewriteInv, RunIsWhole, StoredOf
<1>7. RunIsWhole'
    BY <1>1, <1>3, <1>5, <1>6 DEF RewriteInv, RunIsWhole
<1>8. RestIsEmpty'
    BY <1>1, <1>2 DEF RewriteInv, RestIsEmpty, StoredOf
<1>9. \A v \in rewritten' : StoredOf(v)' \in Firsts(SourceRows(v))
    BY <1>1, <1>2 DEF RewriteInv, RunIsWhole, TypeOK, StoredOf
<1>. QED
    BY <1>2, <1>4, <1>7, <1>8, <1>9 DEF RewriteInv

(* The tool fails, with or without its last chunk: until the destination is  *)
(* recreated nothing more is claimed of the windows not yet rewritten.       *)
LEMMA FailStep ==
    ASSUME RewriteInv, WindowsAreDisjoint, ToolFails
    PROVE  RewriteInv'
<1>1. /\ Ends("err") /\ stage # "idle"
      /\ AppendChunk \/ target' = target
      /\ UNCHANGED <<window, rewritten>> /\ failures' \in Nat
    BY DEF ToolFails, ChunkFails, ChunkAnswerLost, ReadFails, Killed, Failure, RewriteInv, TypeOK
<1>2. /\ target' \in [Rows -> Nat]
      /\ \A r \in Rows : target'[r] <= 1
      /\ \A v \in Windows \ {window} : Stored' \intersect InWindow(v) = StoredOf(v)
    <2>1. CASE AppendChunk
        BY <1>1, <2>1, ChunkEffect
    <2>2. CASE target' = target
        BY <2>2 DEF RewriteInv, TypeOK, AppendTypeOK, Stored, StoredOf
    <2>. QED
        BY <1>1, <2>1, <2>2
<1>3. stage' = "idle" /\ outcome' = "err" /\ remaining' = {} /\ buffer' = {} /\ written' = 0
    BY <1>1 DEF Ends
<1>4. TypeOK'
    BY <1>1, <1>2, <1>3 DEF RewriteInv, TypeOK, AppendTypeOK, Stages
<1>5. RunIsWhole' /\ RestIsEmpty'
    BY <1>3 DEF RunIsWhole, RestIsEmpty, Held
<1>6. \A v \in rewritten' : StoredOf(v)' \in Firsts(SourceRows(v))
    BY <1>1, <1>2 DEF RewriteInv, RunIsWhole, TypeOK, StoredOf
<1>. QED
    BY <1>2, <1>4, <1>5, <1>6 DEF RewriteInv

(* A run ends: its window is rewritten.                                      *)
LEMMA FinishStep ==
    ASSUME RewriteInv, Finish
    PROVE  RewriteInv'
<1>1. /\ stage = "verify" /\ stage' = "idle" /\ outcome' \in {"ok", "err"}
      /\ remaining' = {} /\ buffer' = {} /\ written' = 0
      /\ rewritten' = IF outcome' = "ok" THEN rewritten \union {window} ELSE rewritten
      /\ UNCHANGED <<target, window, failures>>
    BY DEF Finish, EnsureVisible, Ends
<1>2. Stored' = Stored /\ Held' = {}
    BY <1>1 DEF Stored, Held
<1>3. StoredOf(window) \in Firsts(SourceRows(window))
    BY <1>1 DEF RewriteInv, RunIsWhole
<1>4. TypeOK'
    BY <1>1 DEF RewriteInv, TypeOK, AppendTypeOK, Stages
<1>5. RunIsWhole'
    BY <1>1, <1>2 DEF RunIsWhole
<1>6. RestIsEmpty'
    BY <1>1, <1>2 DEF RewriteInv, RunIsWhole, RestIsEmpty, StoredOf
<1>7. \A v \in rewritten' : StoredOf(v)' \in Firsts(SourceRows(v))
    BY <1>1, <1>2, <1>3 DEF RewriteInv, StoredOf
<1>. QED
    BY <1>1, <1>4, <1>5, <1>6, <1>7 DEF RewriteInv

LEMMA RecreateStep ==
    ASSUME RewriteInv, RecreateTarget
    PROVE  RewriteInv'
<1>1. /\ target' = [r \in Rows |-> 0] /\ outcome' = "none" /\ rewritten' = {} /\ stage = "idle"
      /\ UNCHANGED <<stage, remaining, buffer, written, window, failures>>
    BY DEF RecreateTarget, RewriteInv, RunIsWhole
<1>2. Stored' = {} /\ Held' = Held
    BY <1>1 DEF Stored, Held
<1>3. TypeOK'
    BY <1>1 DEF RewriteInv, TypeOK, AppendTypeOK
<1>4. RunIsWhole' /\ RestIsEmpty'
    BY <1>1, <1>2 DEF RewriteInv, RunIsWhole, RestIsEmpty, StoredOf
<1>. QED
    BY <1>1, <1>3, <1>4 DEF RewriteInv

LEMMA RewriteStep ==
    ASSUME RewriteInv, FreshTarget, RunsOnce, WindowsAreDisjoint, [Next]_vars
    PROVE  RewriteInv'
<1>1. CASE \E w \in Windows : Run(w)
    BY <1>1, RunStep
<1>2. CASE ToolRuns
    BY <1>2, StreamStep, CommitStep DEF ToolRuns
<1>3. CASE Finish
    BY <1>3, FinishStep
<1>4. CASE ToolFails
    BY <1>4, FailStep
<1>5. CASE RecreateTarget
    BY <1>5, RecreateStep
<1>6. CASE UNCHANGED vars
    BY <1>6 DEF vars, appendVars, RewriteInv, TypeOK, AppendTypeOK, RunIsWhole, RestIsEmpty, Held,
       StoredOf, Stored, Visible
<1>. QED
    BY <1>1, <1>2, <1>3, <1>4, <1>5, <1>6 DEF Next, AllRewritten

-----------------------------------------------------------------------------
(* Why the rewrite converges: each window is rewritten, or untouched, or the *)
(* one of the current run, of which nothing is missing or doubled.  It takes *)
(* a careful operator: a destination recreated after a failure, no second    *)
(* run of a window that is rewritten, windows that have no row in common.    *)
THEOREM RunsAreWhole ==
    ASSUME FreshTarget, RunsOnce, WindowsAreDisjoint
    PROVE  Spec => []RewriteInv
<1>1. RewriteInv /\ [Next]_vars => RewriteInv'
    BY RewriteStep
<1>. QED
    BY <1>1, RewriteInit, PTL DEF Spec

(* What the swap of the two tables relies on: with the same operator, a      *)
(* window that is rewritten has one row of each key, one of the earliest.    *)
THEOREM RewriteIsExact ==
    ASSUME FreshTarget, RunsOnce, WindowsAreDisjoint
    PROVE  Spec => []RewriteConverges
<1>1. RewriteInv => RewriteConverges
    BY DEF RewriteInv, RewriteConverges, StoredOf, InWindow
<1>. QED
    BY <1>1, RunsAreWhole, PTL

(* The audit of the source, which does not change, tells what the rewrite    *)
(* will hold.                                                                *)
THEOREM AuditIsRight ==
    ASSUME FreshTarget, RunsOnce, WindowsAreDisjoint
    PROVE  Spec => []AuditPredictsRewrite
<1>1. ASSUME RewriteInv PROVE AuditPredictsRewrite
    <2> SUFFICES ASSUME NEW w \in rewritten, NEW first \in Firsts(SourceRows(w))
                 PROVE  Visible(InWindow(w))
                            = Cardinality(SourceRows(w)) - Cardinality(SourceRows(w) \ first)
        BY DEF AuditPredictsRewrite, DuplicateRows
    <2>1. StoredOf(w) \in Firsts(SourceRows(w))
        BY <1>1 DEF RewriteInv
    <2>2. Cardinality(first) = Cardinality(StoredOf(w))
        BY <2>1, ResultsAreAsLarge
    <2>3. Cardinality(SourceRows(w) \ first) = Cardinality(SourceRows(w)) - Cardinality(first)
        <3>1. SourceRows(w) \in SUBSET Rows /\ SourceRows(w) \intersect first = first
            BY ResultIsOfWindow DEF SourceRows, InWindow
        <3>2. IsFiniteSet(SourceRows(w))
            BY <3>1, SizeOfRows
        <3>. QED
            BY <3>1, <3>2, FS_Difference
    <2>4. Visible(InWindow(w)) = Cardinality(StoredOf(w))
        <3>1. /\ target \in [Rows -> Nat] /\ InWindow(w) \in SUBSET Rows
              /\ \A r \in InWindow(w) : target[r] <= 1
            BY <1>1 DEF RewriteInv, TypeOK, AppendTypeOK, InWindow
        <3>2. Cardinality(Copies(target, InWindow(w))) = Cardinality({r \in InWindow(w) : target[r] > 0})
            BY <3>1, OnceCount
        <3>3. {r \in InWindow(w) : target[r] > 0} = StoredOf(w)
            BY <3>1 DEF StoredOf, Stored
        <3>. QED
            BY <3>2, <3>3 DEF Visible
    <2>5. Cardinality(SourceRows(w)) \in Nat /\ Cardinality(first) \in Nat
        BY ResultIsOfWindow, SizeOfRows DEF SourceRows, InWindow
    <2>. QED
        BY <2>2, <2>3, <2>4, <2>5
<1>. QED
    BY <1>1, RunsAreWhole, PTL

-----------------------------------------------------------------------------
(* What a run counts: this needs no fresh destination, for it speaks of the  *)
(* run and not of what the destination held before.                          *)
SumInv ==
    /\ TypeOK
    /\ remaining \intersect buffer = {}
    /\ stage # "idle" =>
           \E first \in Firsts(SourceRows(window)) :
               written + Cardinality(Held) = Cardinality(first)

LEMMA SumStep ==
    ASSUME SumInv, [Next]_vars
    PROVE  SumInv'
<1>1. ASSUME NEW w \in Windows, Run(w) PROVE SumInv'
    <2>1. PICK first \in Firsts(SourceRows(w)) : Begin(first)
        BY <1>1 DEF Run, RewriteResult
    <2>2. first \subseteq Rows /\ Cardinality(first) \in Nat
        BY ResultIsOfWindow, SizeOfRows
    <2>3. /\ stage' = "stream" /\ remaining' = first /\ buffer' = {} /\ written' = 0
          /\ outcome' = "none" /\ window' = w /\ UNCHANGED <<target, rewritten, failures>>
        BY <1>1, <2>1 DEF Run, Begin
    <2>4. TypeOK' /\ Held' = first
        BY <1>1, <2>2, <2>3 DEF SumInv, TypeOK, AppendTypeOK, Stages, Held
    <2>5. written' + Cardinality(Held') = Cardinality(first)
        BY <2>2, <2>3, <2>4
    <2>. QED
        BY <2>3, <2>4, <2>5 DEF SumInv, SourceRows
<1>2. CASE /\ StreamEnds \/ \E S \in SUBSET remaining : NextBatch(S)
           /\ UNCHANGED <<window, rewritten, failures>>
    <2>1. /\ AppendTypeOK' /\ Held' = Held /\ remaining' \intersect buffer' = {}
          /\ stage = "stream" /\ written' = written
        BY <1>2, StreamKeepsRows DEF SumInv, TypeOK, Held
    <2>. QED
        BY <1>2, <2>1 DEF SumInv, TypeOK, SourceRows
<1>3. CASE ChunkCommitted /\ UNCHANGED <<window, rewritten, failures>>
    <2>1. /\ stage \in {"chunk", "last"} /\ AppendChunk
          /\ written' = written + Cardinality(buffer) /\ buffer' = {}
          /\ stage' = IF stage = "last" THEN "verify" ELSE "stream"
          /\ UNCHANGED <<remaining, outcome>>
        BY <1>3 DEF ChunkCommitted
    <2>2. /\ remaining \in SUBSET Rows /\ buffer \in SUBSET Rows /\ target \in [Rows -> Nat]
          /\ written \in Nat /\ remaining \intersect buffer = {}
        BY DEF SumInv, TypeOK, AppendTypeOK
    <2>3. target' \in [Rows -> Nat]
        BY <2>1, <2>2, AppendStores DEF AppendChunk
    <2>4. /\ Cardinality(Held) = Cardinality(remaining) + Cardinality(buffer)
          /\ Cardinality(remaining) \in Nat /\ Cardinality(buffer) \in Nat
        BY <2>2, SizeOfRows, SizeOfUnion DEF Held
    <2>5. Held' = remaining
        BY <2>1 DEF Held
    <2>6. written' + Cardinality(Held') = written + Cardinality(Held)
        BY <2>1, <2>2, <2>4, <2>5
    <2>7. TypeOK'
        BY <1>3, <2>1, <2>2, <2>3, <2>4 DEF SumInv, TypeOK, AppendTypeOK, Stages
    <2>8. PICK first \in Firsts(SourceRows(window)) :
              written + Cardinality(Held) = Cardinality(first)
        BY <2>1 DEF SumInv
    <2>9. first \in Firsts(SourceRows(window))'
        BY <1>3 DEF SourceRows
    <2>. QED
        BY <2>1, <2>6, <2>7, <2>8, <2>9 DEF SumInv
<1>4. CASE Finish
    BY <1>4 DEF Finish, EnsureVisible, Ends, SumInv, TypeOK, AppendTypeOK, Stages
<1>5. CASE ToolFails
    <2>1. /\ stage' = "idle" /\ remaining' = {} /\ buffer' = {} /\ written' = 0 /\ outcome' = "err"
          /\ AppendChunk \/ target' = target
          /\ failures' \in Nat /\ UNCHANGED <<window, rewritten>>
        BY <1>5 DEF ToolFails, Failure, ChunkFails, ChunkAnswerLost, ReadFails, Killed, Ends, SumInv,
           TypeOK
    <2>2. target \in [Rows -> Nat] /\ buffer \in SUBSET Rows
        BY DEF SumInv, TypeOK, AppendTypeOK
    <2>3. target' \in [Rows -> Nat]
        BY <2>1, <2>2, AppendStores DEF AppendChunk
    <2>. QED
        BY <2>1, <2>3 DEF SumInv, TypeOK, AppendTypeOK, Stages
<1>6. CASE RecreateTarget
    BY <1>6 DEF RecreateTarget, SumInv, TypeOK, AppendTypeOK, Held, SourceRows
<1>7. CASE UNCHANGED vars
    BY <1>7 DEF vars, appendVars, SumInv, TypeOK, AppendTypeOK, Held, SourceRows
<1>. QED
    BY <1>1, <1>2, <1>3, <1>4, <1>5, <1>6, <1>7 DEF Next, ToolRuns, AllRewritten

(* Before its end a run has neither lost nor doubled a row of its result:    *)
(* what it counts as written and what it holds add up to the keys of its     *)
(* window, and in a fresh destination the count is what the window holds.    *)
THEOREM RunsAddUp ==
    ASSUME FreshTarget /\ RunsOnce => WindowsAreDisjoint
    PROVE  Spec => []RunAddsUp
<1>1. Init => SumInv
    BY DEF Init, AppendInit, SumInv, TypeOK, AppendTypeOK, Stages
<1>2. SumInv /\ [Next]_vars => SumInv'
    BY SumStep
<1>3. Spec => []SumInv
    BY <1>1, <1>2, PTL DEF Spec
<1>4. SumInv /\ (FreshTarget /\ RunsOnce => RewriteInv) => RunAddsUp
    <2>1. buffer \union remaining = Held
        BY DEF Held
    <2>. QED
        BY <2>1 DEF SumInv, RewriteInv, RunIsWhole, RunAddsUp
<1>5. CASE FreshTarget /\ RunsOnce
    <2>1. Spec => []RewriteInv
        BY <1>5, RunsAreWhole
    <2>2. RewriteInv => (FreshTarget /\ RunsOnce => RewriteInv)
        OBVIOUS
    <2>. QED
        BY <1>3, <1>4, <2>1, <2>2, PTL
<1>6. CASE ~(FreshTarget /\ RunsOnce)
    <2>1. SumInv => RunAddsUp
        BY <1>4, <1>6
    <2>. QED
        BY <1>3, <2>1, PTL
<1>. QED
    BY <1>5, <1>6

=============================================================================
