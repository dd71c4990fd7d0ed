------------------------------ MODULE Backfill ------------------------------
(***************************************************************************)
(* crypto-backfill (bin/backfill.rs): the rows of a window that a table    *)
(* lacks are copied into it from a sibling table, run after run, while the *)
(* batcher commits into the same table.                                    *)
(*                                                                         *)
(* The batcher, modelled in full in Batcher, is here what another writer   *)
(* sees of it: it probes the table for a batch, and commits what survives  *)
(* some time later.                                                        *)
(***************************************************************************)
EXTENDS RankedRows

CONSTANTS
    Source,      \* rows of the table copied from
    Existing,    \* rows of the destination before the first run
    Live,        \* rows the batcher will commit
    Windows,     \* the ranges <<start, end>> the tool is run for
    Margin,      \* --target-margin-days
    MaxFailures  \* bound: failures in a behaviour

ASSUME BackfillAssumption ==
    /\ Source \subseteq Rows /\ Existing \subseteq Rows /\ Live \subseteq Rows
    /\ \A r \in Rows : Row[r].complete \in BOOLEAN
    /\ Windows \subseteq Int \X Int
    /\ Margin \in Nat
    /\ MaxFailures \in Nat

VARIABLES
    window,    \* the window of the current, or else the last, run
    pending,   \* rows of the batcher's batch that survived its probe, not yet committed
    failures   \* failures so far

vars == <<appendVars, window, pending, failures>>

(* The dedup probe of the batcher. *)
Batch == INSTANCE DedupProbe
    WITH Msgs <- Rows, Undecodable <- {}, Event <- Row, MicrosPerDay <- 1

-----------------------------------------------------------------------------
(* The query *)

\* Mutant of TargetKeys: the destination is read for the window only.
TargetKeysInWindow(w) == {Key(r) : r \in Stored \intersect InWindow(w)}

(* target_keys: the destination is read beyond the window by the margin. *)
TargetKeys(w) ==
    {Key(r) : r \in {n \in Stored : w[1] - Margin <= Row[n].ts /\ Row[n].ts < w[2] + Margin}}

\* Mutant of Missing: a row with a NULL counts as a candidate.
MissingIncomplete(first, w) == {r \in first : Key(r) \notin TargetKeys(w)}

(* missing: the append list, given the rows that ranked first. *)
Missing(first, w) == {r \in first : Row[r].complete /\ Key(r) \notin TargetKeys(w)}

(* rows_to_append of the audit: the rows of src_ranked are joined back to    *)
(* missing on the key, and the pairs with rn = 1 are counted.                *)
RowsToAppend(first, w) ==
    Cardinality({j \in first \X Missing(first, w) : Key(j[1]) = Key(j[2])})

\* Mutant of SourceRows: the margin widens the source, too.
SourceRowsWithMargin(w) == Source \intersect InWindow(<<w[1] - Margin, w[2] + Margin>>)

SourceRows(w) == Source \intersect InWindow(w)

-----------------------------------------------------------------------------
Init ==
    /\ AppendInit(Existing)
    /\ window \in Windows
    /\ pending = {}
    /\ failures = 0

Failure ==
    /\ failures < MaxFailures
    /\ failures' = failures + 1

(* main with --execute, for the window w. *)
Run(w) ==
    /\ \E first \in Firsts(SourceRows(w)) : Begin(Missing(first, w))
    /\ window' = w
    /\ UNCHANGED <<pending, failures>>

ToolRuns ==
    /\ \/ \E S \in SUBSET remaining : NextBatch(S)
       \/ StreamEnds
       \/ ChunkCommitted
       \/ EnsureVisible(InWindow(window))
    /\ UNCHANGED <<window, pending, failures>>

ToolFails ==
    /\ ChunkFails \/ ChunkAnswerLost \/ ReadFails \/ Killed
    /\ Failure
    /\ UNCHANGED <<window, pending>>

(* write_batch of the batcher, for the rows S of one batch: the probe. *)
LiveProbe(S) ==
    /\ pending = {}
    /\ S # {} /\ OnePerKey(S)
    /\ pending' = Batch!Survivors(S, Stored)
    /\ UNCHANGED <<appendVars, window, failures>>

(* ... and its commit. *)
LiveCommit ==
    /\ pending # {}
    /\ target' = [r \in Rows |-> target[r] + IF r \in pending THEN 1 ELSE 0]
    /\ pending' = {}
    /\ UNCHANGED <<stage, remaining, buffer, written, outcome, window, failures>>

Next ==
    \/ \E w \in Windows : Run(w)
    \/ ToolRuns \/ ToolFails
    \/ \E S \in SUBSET Live : LiveProbe(S)
    \/ LiveCommit

Spec == Init /\ [][Next]_vars

(* A started tool goes on, and each window is run again and again, as the    *)
(* operator does until the audit of the window reports nothing to append.    *)
Fairness == WF_vars(ToolRuns) /\ \A w \in Windows : SF_vars(Run(w))

FairSpec == Spec /\ Fairness

-----------------------------------------------------------------------------
TypeOK ==
    /\ AppendTypeOK
    /\ window \in Windows
    /\ pending \subseteq Rows
    /\ failures \in Nat

(* What the operator has to see to.  The margin is wide enough: the rows of  *)
(* a trade are within it of one another.                                     *)
KeysAreLocal ==
    \A r, n \in Rows : Key(r) = Key(n) => Row[r].ts - Row[n].ts <= Margin

(* The batcher receives no trade the source table has, as when the window is *)
(* a gap of its stream; and the messages and rows of a trade agree on its    *)
(* time.                                                                     *)
LiveIsNew ==
    /\ Keys(Live) \intersect Keys(Source) = {}
    /\ \A r \in Live, n \in Live \union Existing : Key(r) = Key(n) => Row[r].ts = Row[n].ts

(* "A re-run or an overlapping window cannot duplicate rows": after runs     *)
(* that ended well, failed between two chunks, were killed, or committed a   *)
(* chunk without learning of it, the destination has each key at most once.  *)
NoDuplicates ==
    /\ \A r \in Rows : target[r] <= 1
    /\ OnePerKey(Stored)

StoredIsKnown == Stored \subseteq Existing \union Source \union Live

(* What a run still has to commit is new, and no two rows of it share a key. *)
ToCommit == remaining \union buffer

ToCommitIsNew ==
    /\ remaining \intersect buffer = {}
    /\ ToCommit \subseteq Source
    /\ OnePerKey(ToCommit)
    /\ Keys(ToCommit) \intersect Keys(Stored) = {}

LiveIsPending ==
    /\ pending \subseteq Live
    /\ OnePerKey(pending)
    /\ Keys(pending) \intersect Keys(Stored) = {}

(* Why there are no duplicates: between the read of the destination and each *)
(* commit, what is to be committed, by the tool and by the batcher, stays    *)
(* new to the destination and to each other.                                 *)
BackfillInv == TypeOK /\ NoDuplicates /\ StoredIsKnown /\ ToCommitIsNew /\ LiveIsPending

(* The read-back never refuses a good write: all rows a run counts as        *)
(* written are within its window.                                            *)
WrittenIsVisible == stage = "verify" => Visible(InWindow(window)) >= written

(* A run that calls itself good has left nothing behind: an audit of its     *)
(* window afterwards reports rows_to_append: 0, whichever copy ranks first.  *)
GoodRunIsComplete ==
    outcome = "ok" =>
        \A first \in Firsts(SourceRows(window)) : RowsToAppend(first, window) = 0

(* What the tool may copy of a window: the complete rows that rank first.    *)
WantedRows(w) == {r \in Ranked(SourceRows(w)) : Row[r].complete}

Gap == INSTANCE GapFill
    WITH copies <- target, verdict <- outcome,
         KeyOf <- [r \in Rows |-> Key(r)], Wanted <- [w \in Windows |-> WantedRows(w)]

(* Queries, chunks, failures, kills and the batcher notwithstanding, the tool*)
(* keeps the promise of GapFill: it adds new keys of its window, whole       *)
(* commits at a time, nothing after its verdict, and its verdict is good     *)
(* only with nothing wanted left out.                                        *)
ImplementsGapFill == Gap!GapSpec

(* No row that lacks a required column reaches the destination, which would  *)
(* show it as a trade with price 0.                                          *)
OnlyComplete == \A r \in Stored \ Existing : Row[r].complete

(* The rows of a window that any run over it may copy. *)
Copyable(w) ==
    {r \in Ranked(SourceRows(w)) :
        \A n \in Ranked(SourceRows(w)) : Key(n) = Key(r) => Row[n].complete}

(* Re-running converges: each trade of a window that can be copied arrives,  *)
(* though runs fail and chunks are lost.                                     *)
Converges == <>(\A w \in Windows : Keys(Copyable(w)) \subseteq Keys(Stored))

=============================================================================
