--------------------------- MODULE ChunkedAppend ---------------------------
(***************************************************************************)
(* How the tools append the rows of a query to a table (append.rs and      *)
(* IcebergSink::append_records): the result is streamed, buffered, and     *)
(* committed chunk by chunk, then the range is read back.                  *)
(*                                                                         *)
(* The query is the business of the modules that extend this one.  It is   *)
(* planned once, against the snapshots its tables have then; what is       *)
(* committed later, by this process or another, does not change its        *)
(* result.  The retries of a commit are those of IcebergSink, of which     *)
(* only the three possible outcomes are left here.                         *)
(***************************************************************************)
EXTENDS Integers, FiniteSets

CONSTANTS
    Rows,      \* rows that may be in some table
    ChunkRows  \* --chunk-rows

ASSUME ChunkAssumption == ChunkRows \in Nat /\ IsFiniteSet(Rows)

VARIABLES
    target,     \* copies of each row in the destination table
    stage,      \* where the tool is; "idle": no tool is running
    remaining,  \* rows of the result not yet streamed
    buffer,     \* rows streamed and not yet committed
    written,    \* rows committed by this run of the tool, as it counts them
    outcome     \* how the last run ended: "none", "ok", "err"

appendVars == <<target, stage, remaining, buffer, written, outcome>>

Stages == {"idle", "stream", "chunk", "last", "verify"}

AppendInit(existing) ==
    /\ target = [r \in Rows |-> IF r \in existing THEN 1 ELSE 0]
    /\ stage = "idle"
    /\ remaining = {}
    /\ buffer = {}
    /\ written = 0
    /\ outcome = "none"

Stored == {r \in Rows : target[r] > 0}

-----------------------------------------------------------------------------
(* stream_into: plan and start the query whose result is given. *)
Begin(result) ==
    /\ stage = "idle"
    /\ stage' = "stream"
    /\ remaining' = result
    /\ buffer' = {}
    /\ written' = 0
    /\ outcome' = "none"
    /\ UNCHANGED target

(* A record batch arrives: the rows S, in whatever order the plan yields.    *)
NextBatch(S) ==
    /\ stage = "stream"
    /\ S # {}
    /\ S \subseteq remaining
    /\ remaining' = remaining \ S
    /\ buffer' = buffer \union S
    /\ stage' = IF Cardinality(buffer') >= ChunkRows THEN "chunk" ELSE "stream"
    /\ UNCHANGED <<target, written, outcome>>

\* Mutant of StreamEnds: what is short of a chunk is not committed.
StreamEndsShort ==
    /\ stage = "stream"
    /\ remaining = {}
    /\ stage' = "verify"
    /\ UNCHANGED <<target, remaining, buffer, written, outcome>>

(* The stream is exhausted: a rest short of a chunk is committed as the last.*)
StreamEnds ==
    /\ stage = "stream"
    /\ remaining = {}
    /\ stage' = IF buffer = {} THEN "verify" ELSE "last"
    /\ UNCHANGED <<target, remaining, buffer, written, outcome>>

-----------------------------------------------------------------------------
(* flush, append_records and commit: one fast_append of the chunk. *)
AppendChunk == target' = [r \in Rows |-> target[r] + IF r \in buffer THEN 1 ELSE 0]

\* Mutant of ChunkCommitted: the buffer is not cleared.
ChunkKept ==
    /\ stage \in {"chunk", "last"}
    /\ AppendChunk
    /\ written' = written + Cardinality(buffer)
    /\ stage' = IF stage = "last" THEN "verify" ELSE "stream"
    /\ UNCHANGED <<remaining, buffer, outcome>>

ChunkCommitted ==
    /\ stage \in {"chunk", "last"}
    /\ AppendChunk
    /\ written' = written + Cardinality(buffer)
    /\ buffer' = {}
    /\ stage' = IF stage = "last" THEN "verify" ELSE "stream"
    /\ UNCHANGED <<remaining, outcome>>

(* The process ends, with its buffer and the rest of its result. *)
Ends(how) ==
    /\ stage' = "idle"
    /\ remaining' = {}
    /\ buffer' = {}
    /\ written' = 0
    /\ outcome' = how

\* Mutant of ChunkFails: the error is not passed on, the tool goes on.
ChunkFailsUnnoticed ==
    /\ stage \in {"chunk", "last"}
    /\ buffer' = {}
    /\ stage' = IF stage = "last" THEN "verify" ELSE "stream"
    /\ UNCHANGED <<target, remaining, written, outcome>>

(* Every attempt failed and none had an effect.                              *)
ChunkFails == stage \in {"chunk", "last"} /\ Ends("err") /\ UNCHANGED target

(* One attempt was committed, and to the tool all of them failed.            *)
ChunkAnswerLost == stage \in {"chunk", "last"} /\ AppendChunk /\ Ends("err")

(* A read fails, under the query or under the verification.                  *)
ReadFails == stage \in {"stream", "verify"} /\ Ends("err") /\ UNCHANGED target

Killed == stage # "idle" /\ Ends("err") /\ UNCHANGED target

(* The rows of a table, one by one, when copies[r] of them are of the row r. *)
Copies(copies, range) == UNION {{r} \X (1 .. copies[r]) : r \in range}

(* ensure_visible: the range, given by its rows, is read back and counted.   *)
Visible(range) == Cardinality(Copies(target, range))

EnsureVisible(range) ==
    /\ stage = "verify"
    /\ Ends(IF Visible(range) >= written THEN "ok" ELSE "err")
    /\ UNCHANGED target

-----------------------------------------------------------------------------
AppendTypeOK ==
    /\ target \in [Rows -> Nat]
    /\ stage \in Stages
    /\ remaining \subseteq Rows
    /\ buffer \subseteq Rows
    /\ written \in Nat
    /\ outcome \in {"none", "ok", "err"}

=============================================================================
