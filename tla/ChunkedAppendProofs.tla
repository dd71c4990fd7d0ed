------------------------ MODULE ChunkedAppendProofs ------------------------
(***************************************************************************)
(* What holds of the chunked append whatever query feeds it: how an append *)
(* changes the count of the stored rows of a range, and that a tool always *)
(* has counted what it wrote.  The copies of a table are an argument here, *)
(* so that a lemma speaks of the table before a step and after it.         *)
(***************************************************************************)
EXTENDS ChunkedAppend, FiniteSetTheorems, TLAPS

(* A set of rows has a size. *)
LEMMA SizeOfRows ==
    ASSUME NEW S \in SUBSET Rows
    PROVE  IsFiniteSet(S) /\ Cardinality(S) \in Nat
    BY ChunkAssumption, FS_Subset, FS_CardinalityType

(* Sets of rows without a common row are together as large as the two.       *)
LEMMA SizeOfUnion ==
    ASSUME NEW S \in SUBSET Rows, NEW T \in SUBSET Rows, S \intersect T = {}
    PROVE  Cardinality(S \union T) = Cardinality(S) + Cardinality(T)
<1>1. /\ IsFiniteSet(S) /\ Cardinality(S) \in Nat
      /\ IsFiniteSet(T) /\ Cardinality(T) \in Nat
    BY SizeOfRows
<1>2. Cardinality(S \union T) = Cardinality(S) + Cardinality(T) - Cardinality(S \intersect T)
    BY <1>1, FS_Union
<1>3. Cardinality(S \intersect T) = 0
    BY FS_EmptySet
<1>. QED
    BY <1>1, <1>2, <1>3

-----------------------------------------------------------------------------
(* Counting the rows of a table *)

(* The stored rows of a range are finitely many. *)
LEMMA CopiesAreFinite ==
    ASSUME NEW t \in [Rows -> Nat], NEW S \in SUBSET Rows
    PROVE  IsFiniteSet(Copies(t, S)) /\ Cardinality(Copies(t, S)) \in Nat
<1> DEFINE Of(r) == {r} \X (1 .. t[r])
           All == {Of(r) : r \in S}
           f == [r \in S |-> Of(r)]
<1>1. f \in Surjection(S, All)
    BY DEF Surjection
<1>2. IsFiniteSet(All)
    BY <1>1, SizeOfRows, FS_Surjection
<1>3. ASSUME NEW r \in S PROVE IsFiniteSet(Of(r))
    <2>1. IsFiniteSet({r})
        BY FS_Singleton
    <2>2. t[r] \in Int
        OBVIOUS
    <2>3. IsFiniteSet(1 .. t[r])
        BY <2>2, FS_Interval
    <2>. QED
        BY <2>1, <2>3, FS_Product
<1>4. \A T \in All : IsFiniteSet(T)
    BY <1>3
<1> HIDE DEF All
<1>5. IsFiniteSet(UNION All)
    BY <1>2, <1>4, FS_UNION
<1>. QED
    BY <1>5, FS_CardinalityType DEF Copies, All

(* A range none of whose rows is stored has no copies. *)
LEMMA NoCopies ==
    ASSUME NEW t \in [Rows -> Nat], NEW S \in SUBSET Rows, \A r \in S : t[r] = 0
    PROVE  Cardinality(Copies(t, S)) = 0
<1>1. Copies(t, S) = {}
    BY DEF Copies
<1>. QED
    BY <1>1, FS_EmptySet

(* Of rows stored once at most, there are as many copies as rows.            *)
LEMMA OnceCount ==
    ASSUME NEW t \in [Rows -> Nat], NEW S \in SUBSET Rows, \A r \in S : t[r] <= 1
    PROVE  Cardinality(Copies(t, S)) = Cardinality({r \in S : t[r] > 0})
<1> DEFINE Once == {r \in S : t[r] > 0}
           f == [r \in Once |-> <<r, 1>>]
<1>1. ASSUME NEW c PROVE c \in Copies(t, S) <=> \E r \in Once : c = <<r, 1>>
    <2>1. ASSUME NEW r \in S PROVE 1 .. t[r] = IF t[r] > 0 THEN {1} ELSE {}
        <3>1. t[r] \in Nat /\ t[r] <= 1
            OBVIOUS
        <3>2. CASE t[r] = 0
            BY <3>2
        <3>3. CASE t[r] = 1
            BY <3>3
        <3>. QED
            BY <3>1, <3>2, <3>3
    <2>. QED
        BY <2>1 DEF Copies
<1>2. f \in Bijection(Once, Copies(t, S))
    BY <1>1 DEF Bijection, Injection, Surjection, IsInjective
<1>3. ExistsBijection(Once, Copies(t, S)) /\ IsFiniteSet(Once)
    BY <1>2, SizeOfRows DEF ExistsBijection
<1>. QED
    BY <1>3, FS_Bijection

(* An append of the rows T adds to the count of a range the number of those  *)
(* that are in the range, whatever the range holds already.                  *)
LEMMA AppendCount ==
    ASSUME NEW t \in [Rows -> Nat], NEW S \in SUBSET Rows, NEW T \in SUBSET Rows,
           NEW u \in [Rows -> Nat], \A r \in Rows : u[r] = t[r] + IF r \in T THEN 1 ELSE 0
    PROVE  Cardinality(Copies(u, S)) = Cardinality(Copies(t, S)) + Cardinality(S \intersect T)
<1> DEFINE Both == S \intersect T
           New == {<<r, t[r] + 1>> : r \in Both}
           f == [r \in Both |-> <<r, t[r] + 1>>]
<1>1. ASSUME NEW c PROVE c \in Copies(u, S) <=> c \in Copies(t, S) \union New
    <2>1. c \in Copies(u, S) <=> \E r \in S : \E n \in 1 .. u[r] : c = <<r, n>>
        BY DEF Copies
    <2>2. c \in Copies(t, S) <=> \E r \in S : \E n \in 1 .. t[r] : c = <<r, n>>
        BY DEF Copies
    <2>3. \A r \in S : 1 .. u[r] = (1 .. t[r]) \union (IF r \in T THEN {t[r] + 1} ELSE {})
        OBVIOUS
    <2>. QED
        BY <2>1, <2>2, <2>3
<1>2. Copies(t, S) \intersect New = {}
    <2> SUFFICES ASSUME NEW c \in Copies(t, S), c \in New PROVE FALSE
        OBVIOUS
    <2>1. PICK r \in S : \E n \in 1 .. t[r] : c = <<r, n>>
        BY DEF Copies
    <2>2. PICK q \in Both : c = <<q, t[q] + 1>>
        OBVIOUS
    <2>. QED
        BY <2>1, <2>2
<1>3. f \in Bijection(Both, New)
    BY DEF Bijection, Injection, Surjection, IsInjective
<1>4. IsFiniteSet(New) /\ Cardinality(New) = Cardinality(Both)
    <2>1. ExistsBijection(Both, New)
        BY <1>3 DEF ExistsBijection
    <2>2. IsFiniteSet(Both)
        BY SizeOfRows
    <2>. QED
        BY <2>1, <2>2, FS_Bijection
<1> HIDE DEF New
<1>5. Copies(u, S) = Copies(t, S) \union New
    BY <1>1
<1>6. /\ IsFiniteSet(Copies(t, S)) /\ Cardinality(Copies(t, S)) \in Nat
      /\ Cardinality(Both) \in Nat
    BY CopiesAreFinite, SizeOfRows
<1>7. Cardinality(Copies(t, S) \union New)
          = Cardinality(Copies(t, S)) + Cardinality(New) - Cardinality(Copies(t, S) \intersect New)
    BY <1>4, <1>6, FS_Union
<1>8. Cardinality(Copies(t, S) \intersect New) = 0
    BY <1>2, FS_EmptySet
<1>9. Cardinality(Copies(t, S) \union New) = Cardinality(Copies(t, S)) + Cardinality(Both)
    <2> HIDE DEF Both
    <2>. QED
        BY <1>4, <1>6, <1>7, <1>8
<1>. QED
    BY <1>5, <1>9

-----------------------------------------------------------------------------
(* Steps of the tool *)

(* What an append stores. *)
LEMMA AppendStores ==
    ASSUME target \in [Rows -> Nat], NEW T \in SUBSET Rows,
           target' = [r \in Rows |-> target[r] + IF r \in T THEN 1 ELSE 0]
    PROVE  target' \in [Rows -> Nat] /\ Stored' = Stored \union T
<1>1. target' \in [Rows -> Nat]
    OBVIOUS
<1>. QED
    BY <1>1 DEF Stored

(* Rows move from the stream to the buffer, and none gets lost.              *)
LEMMA StreamKeepsRows ==
    ASSUME AppendTypeOK, StreamEnds \/ \E S \in SUBSET remaining : NextBatch(S),
           remaining \intersect buffer = {}
    PROVE  /\ AppendTypeOK'
           /\ remaining' \union buffer' = remaining \union buffer
           /\ remaining' \intersect buffer' = {}
           /\ stage = "stream"
           /\ \/ stage' \in {"stream", "chunk"}
              \/ stage' = "last" /\ remaining' = {}
              \/ stage' = "verify" /\ remaining' \union buffer' = {}
           /\ UNCHANGED <<target, written, outcome>>
<1>1. CASE StreamEnds
    BY <1>1 DEF StreamEnds, AppendTypeOK, Stages
<1>2. ASSUME NEW S \in SUBSET remaining, NextBatch(S)
      PROVE  /\ AppendTypeOK'
             /\ remaining' \union buffer' = remaining \union buffer
             /\ remaining' \intersect buffer' = {}
             /\ stage = "stream" /\ stage' \in {"stream", "chunk"}
             /\ UNCHANGED <<target, written, outcome>>
    <2>1. /\ remaining' = remaining \ S /\ buffer' = buffer \union S
          /\ stage = "stream" /\ stage' \in {"stream", "chunk"}
          /\ UNCHANGED <<target, written, outcome>>
        BY <1>2 DEF NextBatch
    <2>. QED
        BY <2>1 DEF AppendTypeOK, Stages
<1>. QED
    BY <1>1, <1>2

=============================================================================
