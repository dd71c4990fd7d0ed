---------------------------- MODULE DedupRewrite ----------------------------
(***************************************************************************)
(* crypto-dedup --insert-into (bin/dedup.rs): a table is copied window by  *)
(* window into a second one, one row of each key.  There is no anti-join   *)
(* with the destination: what a run has appended, another appends again.   *)
(*                                                                         *)
(* So the result rests on the operator, who may be careful in three ways:  *)
(* FreshTarget, to start over with a new destination after a run that      *)
(* failed; RunsOnce, to run no window again whose run ended well; and      *)
(* WindowsAreDisjoint.  The tool asks for none of them.  The source is     *)
(* taken not to change: windows are days that the writer has left behind.  *)
(***************************************************************************)
EXTENDS RankedRows

CONSTANTS
    Source,       \* rows of the table that is rewritten
    Windows,      \* the ranges <<start, end>> the tool is run for
    FreshTarget,  \* the operator recreates the destination after a run that failed
    RunsOnce,     \* the operator does not repeat a run that ended well
    MaxFailures   \* bound: failures in a behaviour

ASSUME RewriteAssumption ==
    /\ Source \subseteq Rows
    /\ Windows \subseteq Int \X Int
    /\ {FreshTarget, RunsOnce} \subseteq BOOLEAN
    /\ MaxFailures \in Nat

VARIABLES
    window,     \* the window of the current, or else the last, run
    rewritten,  \* windows whose run ended well
    failures    \* failures so far

vars == <<appendVars, window, rewritten, failures>>

SourceRows(w) == Source \intersect InWindow(w)

Init ==
    /\ AppendInit({})
    /\ window \in Windows
    /\ rewritten = {}
    /\ failures = 0

Failure ==
    /\ failures < MaxFailures
    /\ failures' = failures + 1

-----------------------------------------------------------------------------
\* Mutant of RewriteResult: the rows of rank one and two of a key.
RewriteResultOfRanked(w) == {SourceRows(w)}

(* ranked_cte and rewrite_sql: the possible results of the query. *)
RewriteResult(w) == Firsts(SourceRows(w))

(* main without --insert-into: the possible results of audit_sql for the     *)
(* rows of the source that rank second or later (duplicate_rows).            *)
DuplicateRows(w) == {Cardinality(SourceRows(w) \ first) : first \in Firsts(SourceRows(w))}

(* main with --insert-into, for any window, were it not for the operator. *)
Run(w) ==
    /\ RunsOnce => w \notin rewritten
    /\ FreshTarget => outcome # "err"
    /\ \E first \in RewriteResult(w) : Begin(first)
    /\ window' = w
    /\ UNCHANGED <<rewritten, failures>>

ToolRuns ==
    /\ \/ \E S \in SUBSET remaining : NextBatch(S)
       \/ StreamEnds
       \/ ChunkCommitted
    /\ UNCHANGED <<window, rewritten, failures>>

Finish ==
    /\ EnsureVisible(InWindow(window))
    /\ rewritten' = IF outcome' = "ok" THEN rewritten \union {window} ELSE rewritten
    /\ UNCHANGED <<window, failures>>

ToolFails ==
    /\ ChunkFails \/ ChunkAnswerLost \/ ReadFails \/ Killed
    /\ Failure
    /\ UNCHANGED <<window, rewritten>>

(* The operator starts over, with crypto-batcher --ensure-only. *)
RecreateTarget ==
    /\ FreshTarget
    /\ outcome = "err"
    /\ target' = [r \in Rows |-> 0]
    /\ outcome' = "none"
    /\ rewritten' = {}
    /\ UNCHANGED <<stage, remaining, buffer, written, window, failures>>

(* The whole table is rewritten.                                             *)
AllRewritten ==
    /\ rewritten = Windows
    /\ UNCHANGED vars

Next ==
    \/ \E w \in Windows : Run(w)
    \/ ToolRuns \/ Finish \/ ToolFails
    \/ RecreateTarget
    \/ AllRewritten

Spec == Init /\ [][Next]_vars

-----------------------------------------------------------------------------
TypeOK ==
    /\ AppendTypeOK
    /\ window \in Windows
    /\ rewritten \subseteq Windows
    /\ failures \in Nat

(* The operator's third care: no row is of two windows.                      *)
WindowsAreDisjoint ==
    \A v, w \in Windows : v # w => InWindow(v) \intersect InWindow(w) = {}

(* A window that is rewritten has one row of each of its keys, once, and it  *)
(* is one of the earliest of the key: what the swap of the two tables then   *)
(* relies on, which no later step checks.                                    *)
RewriteConverges ==
    \A w \in rewritten :
        /\ Stored \intersect InWindow(w) \in Firsts(SourceRows(w))
        /\ \A r \in InWindow(w) : target[r] <= 1

(* A run in progress has committed, of its window, what it counts as         *)
(* written, and holds the rest: nothing of the result is missing or doubled  *)
(* before its end.                                                           *)
RunAddsUp ==
    stage # "idle" =>
        /\ FreshTarget /\ RunsOnce => Visible(InWindow(window)) = written
        /\ \E first \in Firsts(SourceRows(window)) :
               written + Cardinality(buffer \union remaining) = Cardinality(first)

(* The audit of a window of the source tells beforehand what its rewrite     *)
(* will hold: rows_in_range less duplicate_rows, however either query ranked *)
(* the rows that tie.  The source does not change between the two.           *)
AuditPredictsRewrite ==
    \A w \in rewritten : \A duplicates \in DuplicateRows(w) :
        Visible(InWindow(w)) = Cardinality(SourceRows(w)) - duplicates

Held == remaining \union buffer
StoredOf(w) == Stored \intersect InWindow(w)

(* What a run has stored of its window and what it holds are together one    *)
(* result of its query, no row twice.                                        *)
RunIsWhole ==
    /\ remaining \intersect buffer = {}
    /\ stage # "idle" =>
        /\ Held \intersect StoredOf(window) = {}
        /\ Held \union StoredOf(window) \in Firsts(SourceRows(window))
        /\ written = Visible(InWindow(window))
    /\ stage \in {"idle", "verify"} => Held = {}
    /\ stage = "last" => remaining = {}
    /\ stage # "idle" => outcome = "none" /\ window \notin rewritten

(* Unless the last run failed, what is neither rewritten nor being rewritten *)
(* has nothing in the destination.                                           *)
RestIsEmpty ==
    outcome # "err" =>
        \A w \in Windows \ rewritten : (stage # "idle" /\ w = window) \/ StoredOf(w) = {}

(* Why the rewrite converges: between any two steps, each window is          *)
(* rewritten, or untouched, or the one of the current run, which is whole.   *)
RewriteInv ==
    /\ TypeOK
    /\ \A r \in Rows : target[r] <= 1
    /\ RunIsWhole
    /\ RestIsEmpty
    /\ \A w \in rewritten : StoredOf(w) \in Firsts(SourceRows(w))

=============================================================================
