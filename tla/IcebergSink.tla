---------------------------- MODULE IcebergSink ----------------------------
(***************************************************************************)
(* The Iceberg sink (sink.rs, IcebergSink::write_batch): register the      *)
(* batch, probe the table for rows it already holds, write the survivors   *)
(* to new data files, and commit these files in one snapshot, with retries.*)
(*                                                                         *)
(* The table is the number of copies of each message's row that the        *)
(* current snapshot reads.  The data files of a batch are referenced all   *)
(* together or not at all (one fast_append), so one bit tells whether the  *)
(* table has them.  The cached Table of the sink is not modelled: a        *)
(* commit starts from what the catalog holds, and a conflict with another  *)
(* committer is one of the ways an attempt fails without effect.           *)
(***************************************************************************)
EXTENDS Accumulator

CONSTANTS CommitRetries  \* COMMIT_RETRIES

ASSUME RetryAssumption == CommitRetries \in Nat

VARIABLES
    stored,      \* copies of each message's row in the table
    phase,       \* where write_batch is
    incoming,    \* its argument, the rows of the batch
    fresh,       \* rows the anti-join kept
    referenced,  \* the table references the data files of this batch
    attempt,     \* commit attempts made
    registered   \* the session context holds a table named "incoming"

sinkVars == <<stored, phase, incoming, fresh, referenced, attempt, registered>>

Phases == {"idle", "probe", "write", "commit", "backoff", "ok", "err"}

SinkInit ==
    /\ stored = [m \in Msgs |-> 0]
    /\ phase = "idle"
    /\ incoming = <<>>
    /\ fresh = {}
    /\ referenced = FALSE
    /\ attempt = 0
    /\ registered = FALSE

InTable == {m \in Msgs : stored[m] > 0}

Copies(rs, m) == Cardinality({i \in DOMAIN rs : rs[i] = m})

-----------------------------------------------------------------------------
(* write_batch up to its first await: the batch is registered under the name *)
(* "incoming", which fails if that name is taken.                            *)
WriteBatch(rs) ==
    /\ phase = "idle"
    /\ rs # <<>>
    /\ phase' = IF registered THEN "err" ELSE "probe"
    /\ registered' = TRUE
    /\ incoming' = rs
    /\ UNCHANGED <<stored, fresh, referenced, attempt>>

\* Mutant of ProbeDone: no anti-join, every row of the batch is written.
ProbeKeepsAll ==
    /\ phase = "probe"
    /\ phase' = "write"
    /\ fresh' = ToSet(incoming)
    /\ registered' = FALSE
    /\ UNCHANGED <<stored, incoming, referenced, attempt>>

\* Mutant of ProbeDone: the registration is left behind on success too.
ProbeLeavesRegistered ==
    /\ phase = "probe"
    /\ phase' = "write"
    /\ fresh' = Survivors(ToSet(incoming), InTable)
    /\ UNCHANGED <<stored, incoming, referenced, attempt, registered>>

(* The join is collected against the table as it is now, and the batch is    *)
(* deregistered.                                                             *)
ProbeDone ==
    /\ phase = "probe"
    /\ phase' = "write"
    /\ fresh' = Survivors(ToSet(incoming), InTable)
    /\ registered' = FALSE
    /\ UNCHANGED <<stored, incoming, referenced, attempt>>

(* The catalog or the object store fails under the probe: the error returns  *)
(* through `?`, past deregister_table.                                       *)
ProbeFails ==
    /\ phase = "probe"
    /\ phase' = "err"
    /\ UNCHANGED <<stored, incoming, fresh, referenced, attempt, registered>>

(* write_records has closed its writer; commit of no file returns at once.   *)
FilesWritten ==
    /\ phase = "write"
    /\ phase' = IF fresh = {} THEN "ok" ELSE "commit"
    /\ UNCHANGED <<stored, incoming, fresh, referenced, attempt, registered>>

(* A parquet write fails: objects are orphaned, nothing is committed.        *)
WriteFails ==
    /\ phase = "write"
    /\ phase' = "err"
    /\ UNCHANGED <<stored, incoming, fresh, referenced, attempt, registered>>

-----------------------------------------------------------------------------
\* Mutant of AppendFiles: the library does not look for files it has already.
AppendFilesAgain ==
    /\ referenced' = TRUE
    /\ stored' = [m \in Msgs |->
                    stored[m] + IF m \in fresh THEN Copies(incoming, m) ELSE 0]

(* The effect of a fast_append: the files, and with them their rows, join    *)
(* the current snapshot.  An append of files the table references already is *)
(* refused by the library.                                                   *)
AppendFiles ==
    /\ ~referenced
    /\ referenced' = TRUE
    /\ stored' = [m \in Msgs |->
                    stored[m] + IF m \in fresh THEN Copies(incoming, m) ELSE 0]

(* Where commit goes after a failed attempt, the n-th. *)
AfterFailure(n) == IF n >= AtLeastOne(CommitRetries) THEN "err" ELSE "backoff"

\* Mutant of CommitOk: success is assumed before the catalog answers.
CommitAssumed ==
    /\ phase = "commit"
    /\ attempt' = attempt + 1
    /\ phase' = "ok"
    /\ UNCHANGED <<stored, incoming, fresh, referenced, registered>>

CommitOk ==
    /\ phase = "commit"
    /\ AppendFiles
    /\ attempt' = attempt + 1
    /\ phase' = "ok"
    /\ UNCHANGED <<incoming, fresh, registered>>

(* The catalog commits, but its answer is lost: to the sink, a failure.      *)
CommitAnswerLost ==
    /\ phase = "commit"
    /\ AppendFiles
    /\ attempt' = attempt + 1
    /\ phase' = AfterFailure(attempt + 1)
    /\ UNCHANGED <<incoming, fresh, registered>>

(* The attempt fails without effect: a conflict, an outage.                  *)
CommitFails ==
    /\ phase = "commit"
    /\ attempt' = attempt + 1
    /\ phase' = AfterFailure(attempt + 1)
    /\ UNCHANGED <<stored, incoming, fresh, referenced, registered>>

(* A retry of a commit that had gone through is refused.                     *)
CommitRefused == referenced /\ CommitFails

(* The backoff has passed and the table is reloaded.                         *)
Reload ==
    /\ phase = "backoff"
    /\ phase' = "commit"
    /\ UNCHANGED <<stored, incoming, fresh, referenced, attempt, registered>>

(* The reload fails: `?` ends the commit, whatever attempts are left.        *)
ReloadFails ==
    /\ phase = "backoff"
    /\ phase' = "err"
    /\ UNCHANGED <<stored, incoming, fresh, referenced, attempt, registered>>

(* write_batch returns to its caller. *)
Return ==
    /\ phase \in {"ok", "err"}
    /\ phase' = "idle"
    /\ incoming' = <<>>
    /\ fresh' = {}
    /\ referenced' = FALSE
    /\ attempt' = 0
    /\ UNCHANGED <<stored, registered>>

(* The process dies under the sink: all but the table is gone.               *)
SinkDies ==
    /\ phase' = "idle"
    /\ incoming' = <<>>
    /\ fresh' = {}
    /\ referenced' = FALSE
    /\ attempt' = 0
    /\ registered' = FALSE
    /\ UNCHANGED stored

(* The steps of the sink when nothing goes wrong around it. *)
SinkStep == ProbeDone \/ FilesWritten \/ CommitOk \/ CommitRefused \/ Reload

-----------------------------------------------------------------------------
SinkTypeOK ==
    /\ stored \in [Msgs -> Nat]
    /\ phase \in Phases
    /\ incoming \in Seq(Msgs \ Undecodable)
    /\ fresh \subseteq Msgs \ Undecodable
    /\ referenced \in BOOLEAN
    /\ attempt \in Nat
    /\ registered \in BOOLEAN

=============================================================================
