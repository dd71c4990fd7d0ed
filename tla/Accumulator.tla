---------------------------- MODULE Accumulator ----------------------------
(***************************************************************************)
(* The micro-batch accumulator (batcher.rs, struct Accumulator): buffers   *)
(* rows and their ack handles, drops repeats of a dedup key inside the     *)
(* batch, and says when the batch is complete.                             *)
(*                                                                         *)
(* The age of the oldest row is "young" until flush_interval has passed    *)
(* and "old" from then on; the passing of that time is the action Age.     *)
(***************************************************************************)
EXTENDS DedupProbe

CONSTANTS
    MaxRecords,    \* BATCH_MAX_RECORDS
    MaxBytes,      \* BATCH_MAX_BYTES
    Dedup,         \* BATCH_DEDUP
    PayloadBytes   \* encoded size of each message

ASSUME PolicyAssumption ==
    /\ MaxRecords \in Nat
    /\ MaxBytes \in Nat
    /\ Dedup \in BOOLEAN
    /\ PayloadBytes \in [Msgs -> Nat]

VARIABLES
    rows,        \* buffered rows
    acks,        \* ack handles of every message pushed since the last take
    seenKeys,    \* dedup keys of this batch
    bytes,       \* buffered payload bytes
    duplicates,  \* rows dropped from this batch as duplicates
    firstSeen    \* age of the oldest row: "none", "young" or "old"

accVars == <<rows, acks, seenKeys, bytes, duplicates, firstSeen>>

AtLeastOne(n) == IF n > 1 THEN n ELSE 1

AccInit ==
    /\ rows = <<>>
    /\ acks = <<>>
    /\ seenKeys = {}
    /\ bytes = 0
    /\ duplicates = 0
    /\ firstSeen = "none"

-----------------------------------------------------------------------------
\* Mutant of Reached: the record threshold is off by one.
ReachedLate(rs, bs, age) ==
    IF rs = <<>> THEN "none"
    ELSE IF Len(rs) > MaxRecords THEN "Count"
    ELSE IF bs >= MaxBytes THEN "Bytes"
    ELSE IF age = "old" THEN "Interval"
    ELSE "none"

(* trigger_now: the flush trigger a buffer has reached, if any. *)
Reached(rs, bs, age) ==
    IF rs = <<>> THEN "none"
    ELSE IF Len(rs) >= MaxRecords THEN "Count"
    ELSE IF bs >= MaxBytes THEN "Bytes"
    ELSE IF age = "old" THEN "Interval"
    ELSE "none"

\* Mutant of PushDuplicate: the handle goes the way of the row.
PushDuplicateUnacked(m) ==
    /\ Dedup /\ DedupKey(m) \in seenKeys
    /\ duplicates' = duplicates + 1
    /\ UNCHANGED <<rows, acks, seenKeys, bytes, firstSeen>>

(* A row whose key this batch has already: its handle is kept, or the source *)
(* would redeliver for ever a row that is dropped on purpose.                *)
PushDuplicate(m) ==
    /\ Dedup /\ DedupKey(m) \in seenKeys
    /\ duplicates' = duplicates + 1
    /\ acks' = Append(acks, m)
    /\ UNCHANGED <<rows, seenKeys, bytes, firstSeen>>

\* Mutant of PushRow: every row restarts the age of the batch.
PushRowRestartsAge(m) ==
    /\ ~(Dedup /\ DedupKey(m) \in seenKeys)
    /\ seenKeys' = IF Dedup THEN seenKeys \union {DedupKey(m)} ELSE seenKeys
    /\ firstSeen' = "young"
    /\ bytes' = bytes + AtLeastOne(PayloadBytes[m])
    /\ rows' = Append(rows, m)
    /\ acks' = Append(acks, m)
    /\ UNCHANGED duplicates

\* Mutant of PushRow: the key of a new row is not remembered.
PushRowForgetsKey(m) ==
    /\ ~(Dedup /\ DedupKey(m) \in seenKeys)
    /\ firstSeen' = IF rows = <<>> THEN "young" ELSE firstSeen
    /\ bytes' = bytes + AtLeastOne(PayloadBytes[m])
    /\ rows' = Append(rows, m)
    /\ acks' = Append(acks, m)
    /\ UNCHANGED <<seenKeys, duplicates>>

PushRow(m) ==
    /\ ~(Dedup /\ DedupKey(m) \in seenKeys)
    /\ seenKeys' = IF Dedup THEN seenKeys \union {DedupKey(m)} ELSE seenKeys
    /\ firstSeen' = IF rows = <<>> THEN "young" ELSE firstSeen
    /\ bytes' = bytes + AtLeastOne(PayloadBytes[m])
    /\ rows' = Append(rows, m)
    /\ acks' = Append(acks, m)
    /\ UNCHANGED duplicates

Push(m) == PushDuplicate(m) \/ PushRow(m)

(* flush_interval has elapsed since the first row of the batch. *)
Age ==
    /\ firstSeen = "young"
    /\ firstSeen' = "old"
    /\ UNCHANGED <<rows, acks, seenKeys, bytes, duplicates>>

\* Mutant of Take: the dedup keys outlive the batch they describe.
TakeKeepsKeys ==
    /\ rows' = <<>>
    /\ acks' = <<>>
    /\ bytes' = 0
    /\ duplicates' = 0
    /\ firstSeen' = "none"
    /\ UNCHANGED seenKeys

\* Mutant of Take: the age outlives the batch.
TakeKeepsAge ==
    /\ rows' = <<>>
    /\ acks' = <<>>
    /\ seenKeys' = {}
    /\ bytes' = 0
    /\ duplicates' = 0
    /\ UNCHANGED firstSeen

Take ==
    /\ rows' = <<>>
    /\ acks' = <<>>
    /\ seenKeys' = {}
    /\ bytes' = 0
    /\ duplicates' = 0
    /\ firstSeen' = "none"

-----------------------------------------------------------------------------
AccTypeOK ==
    /\ rows \in Seq(Msgs \ Undecodable)
    /\ acks \in Seq(Msgs \ Undecodable)
    /\ seenKeys \subseteq {DedupKey(m) : m \in Msgs}
    /\ bytes \in Nat
    /\ duplicates \in Nat
    /\ firstSeen \in {"none", "young", "old"}

(* Every handle stands for a row that is buffered: its own, or the row it    *)
(* repeats.  A batch without rows therefore has no handles, which is what    *)
(* lets flush drop an empty batch without acking anything; and a handle that *)
(* is acked after the commit of the batch was covered by that commit.        *)
HandlesCovered ==
    \A i \in DOMAIN acks : \E j \in DOMAIN rows : DedupKey(rows[j]) = DedupKey(acks[i])

DistinctKeys(rs) == \A i, j \in DOMAIN rs : DedupKey(rs[i]) = DedupKey(rs[j]) => i = j

(* No row is counted twice or lost between the rows and the duplicates, and  *)
(* with dedup on no two rows of a batch share a key.                         *)
NoHandleLost ==
    /\ Len(acks) = Len(rows) + duplicates
    /\ Dedup => DistinctKeys(rows)

(* The batch is bounded by the policy: max_records is never passed, and      *)
(* max_bytes is passed by the last row of a batch at most (zero-length       *)
(* payloads count as one byte, so they cannot fill a batch unnoticed).       *)
WithinPolicy ==
    /\ Len(rows) <= AtLeastOne(MaxRecords)
    /\ \/ Len(rows) <= 1
       \/ bytes - AtLeastOne(PayloadBytes[rows[Len(rows)]]) < MaxBytes

(* The age timer of run is armed exactly while rows are buffered: an armed   *)
(* timer over an empty batch would flush nothing for ever, rows without a    *)
(* timer would wait for traffic that may never come.                         *)
TimerFollowsRows == (firstSeen = "none") <=> (rows = <<>>)

(* The age of a batch is that of its first row: later rows, duplicates       *)
(* included, never make an old batch young again, so a steady trickle cannot *)
(* hold a row back beyond the flush interval.                                *)
AgeOnlyGrows ==
    [][firstSeen = "old" /\ rows' # <<>> => firstSeen' = "old"]_accVars

=============================================================================
