---------------------------- MODULE ProbeHistory ----------------------------
(***************************************************************************)
(* What the sink makes of a history of micro-batches, down to the data     *)
(* files: each batch is joined with the rows of the files its probe opens, *)
(* and what survives is written to one file per (exchange, day) partition  *)
(* and committed.  A message may be delivered again after its row was      *)
(* committed; a flush may fail with some of its files written; the process *)
(* may restart.  Steps within a flush and acks are the subject of Batcher; *)
(* here the data varies: days, exchanges, out-of-order timestamps, ids     *)
(* that come back, integers beyond the width of a column.                  *)
(***************************************************************************)
EXTENDS DedupProbe, TradeRow, FiniteSets

CONSTANTS
    Trade,        \* the trade decoded from each message
    MaxFailures   \* bound: failed flushes and restarts

ASSUME HistoryAssumption ==
    /\ \A m \in Msgs \ Undecodable :
        /\ {Trade[m].trade_id, Trade[m].trade_time} \subseteq U64
        /\ Event[m] = ToRow(Trade[m])
    /\ MicrosPerDay = MillisPerDay * MicrosPerMilli
    /\ MaxFailures \in Nat

VARIABLES
    data,       \* data files the current snapshot references: [name, rows]
    incoming,   \* rows of the micro-batch being collected
    process,    \* file_name_gen: the uuid of the process ...
    flushes,    \* ... and its counter
    failures

vars == <<data, incoming, process, flushes, failures>>

Init ==
    /\ data = {}
    /\ incoming = {}
    /\ process = 0
    /\ flushes = 0
    /\ failures = 0

Table == UNION {f.rows : f \in data}

(* push: a repeat of a key of this batch is dropped; the key has the id as   *)
(* the table has it, after the cast.                                         *)
Collect(m) ==
    /\ \A n \in incoming : DedupKey(n) # DedupKey(m)
    /\ incoming' = incoming \union {m}
    /\ UNCHANGED <<data, process, flushes, failures>>

-----------------------------------------------------------------------------
\* Mutant of Planned: the exchange is not part of the predicate.
PlannedByTimeOnly(f, batch) ==
    \E lo, hi \in batch :
        /\ SameGroup(lo, hi)
        /\ \E a \in f.rows : Event[lo].ts <= Event[a].ts
        /\ \E b \in f.rows : Event[b].ts <= Event[hi].ts

(* The probe: the scan opens a data file if the file's exchange is the one   *)
(* of a group of the batch and its ts bounds overlap those of the group.     *)
Planned(f, batch) ==
    \E lo \in batch :
        /\ \E a \in f.rows : Event[a].exchange = Event[lo].exchange /\ Event[lo].ts <= Event[a].ts
        /\ \E hi \in batch, b \in f.rows : SameGroup(lo, hi) /\ Event[b].ts <= Event[hi].ts

Opened == {f \in data : Planned(f, incoming)}

(* What write_files is left with: the anti-join sees what was opened. *)
Remaining == Survivors(incoming, UNION {f.rows : f \in Opened})

-----------------------------------------------------------------------------
Partition(m) == <<Event[m].exchange, Day(m)>>

\* Mutant of FileName: a restarted process has the names of the one before.
FileNameWithoutUuid(partition) == [partition |-> partition, process |-> 0, number |-> flushes]

(* The generator's counter goes on over the flushes of a process, its uuid   *)
(* tells processes apart.                                                    *)
FileName(partition) == [partition |-> partition, process |-> process, number |-> flushes]

(* write_records: one file per partition (more, if it grows too large).      *)
NewFiles(rows) ==
    {[name |-> FileName(p), rows |-> {m \in rows : Partition(m) = p}]
        : p \in {Partition(m) : m \in rows}}

Names(files) == {f.name : f \in files}

(* An object that is written replaces the one of that name.  One that no     *)
(* snapshot references is never read, and not kept here.                     *)
Overwritten(files) ==
    {f \in data : f.name \notin Names(files)} \union {f \in files : f.name \in Names(data)}

Failure ==
    /\ failures < MaxFailures
    /\ failures' = failures + 1

(* write_batch: what survives the probe is appended in one commit, which     *)
(* refuses files the table has already.                                      *)
Write ==
    /\ incoming # {}
    /\ LET files == NewFiles(Remaining) IN
        /\ data' = IF Names(files) \intersect Names(data) = {}
                    THEN data \union files
                    ELSE Overwritten(files)
        /\ flushes' = IF files = {} THEN flushes ELSE flushes + 1
    /\ incoming' = {}
    /\ UNCHANGED <<process, failures>>

(* The flush fails, at a file or at the commit: what it has written is       *)
(* orphaned, the batch is dropped.                                           *)
WriteFails ==
    /\ incoming # {}
    /\ Failure
    /\ \E files \in SUBSET NewFiles(Remaining) : data' = Overwritten(files)
    /\ flushes' = flushes + 1
    /\ incoming' = {}
    /\ UNCHANGED process

Restart ==
    /\ Failure
    /\ process' = process + 1
    /\ flushes' = 0
    /\ incoming' = {}
    /\ UNCHANGED data

Next ==
    \/ \E m \in Msgs \ Undecodable : Collect(m)
    \/ Write \/ WriteFails \/ Restart

Spec == Init /\ [][Next]_vars

-----------------------------------------------------------------------------
(* A trade (same key, same ts) is never in the table twice, in one data file *)
(* or in two, however often and in whatever company its message is           *)
(* delivered: the files a batch opens always cover the batch's own rows.     *)
EachTradeOnce ==
    \A f, g \in data : \A m \in f.rows, n \in g.rows :
        DedupKey(m) = DedupKey(n) /\ Event[m].ts = Event[n].ts => f = g /\ m = n

(* No other trade has the id of m. *)
UniqueId(m) ==
    \A n \in Msgs \ Undecodable : DedupKey(n) = DedupKey(m) => Event[n].ts = Event[m].ts

(* Pruning is lossless where ids are unique: for them, the anti-join with    *)
(* the opened files keeps exactly the rows an anti-join with the whole table *)
(* keeps, so reading a few files instead of all costs no duplicate.          *)
PruningLossless ==
    LET kept == Remaining IN
    \A m \in incoming :
        UniqueId(m) => (m \in kept <=> \A c \in Table : DedupKey(c) # DedupKey(m))

(* A trade as the exchange names it, before any cast. *)
TradeIdentity(m) == <<Trade[m].exchange, Trade[m].symbol, Trade[m].trade_id>>

(* A flush that ends well is followed by an ack of all of its messages: for  *)
(* each, the table then has a row of that exchange, symbol and id, whether   *)
(* of this message or an earlier one.  The anti-join, which compares ids     *)
(* after the cast, the partitions and the names of the files share in that.  *)
FlushedIsStored ==
    [][Write => \A m \in incoming : \E c \in Table' : TradeIdentity(c) = TradeIdentity(m)]_vars

(* The probe stays cheap as the table grows: the files it opens are of the   *)
(* (exchange, day) partitions of the batch itself, whatever else there is    *)
(* (ProbeStats: files_opened tracks the spread of the micro-batch).          *)
OpensOwnPartitions ==
    \A f \in Opened : \E m \in incoming : f.name.partition = Partition(m)

(* A trade is filed under the exchange and the UTC day it was made, whatever *)
(* unit and width its time has on the way (no row in the 1970 partition).    *)
FiledUnderItsDay ==
    \A f \in data : \A m \in f.rows :
        InRangeOfTs(Trade[m]) =>
            f.name.partition = <<Trade[m].exchange, Trade[m].trade_time \div MillisPerDay>>

(* What is committed stays: no later flush, failed or not, and no later      *)
(* process writes over a file the table references.                          *)
CommittedStays == [][data \subseteq data']_vars

(* The data files are a ledger of trades: a flush records trades that are    *)
(* new, each in one file, or nothing; no failure and no restart records or   *)
(* forgets any.  (Of acks this module says nothing; Batcher does.)           *)
FilesWith(m) == {f \in data : m \in f.rows}

Ledger == INSTANCE TradeLedger
    WITH copies  <- [m \in Msgs |-> Cardinality(FilesWith(m))],
         settled <- {}

FilesAreALedger == Ledger!LedgerSpec

(* The claim of the test same_trade_id_on_another_day_is_not_a_duplicate: a  *)
(* new trade that reuses an id stored on another day is written.  It holds   *)
(* for the batch of that test, which has no row of the other day.            *)
ReusedIdIsWritten ==
    \A m \in incoming :
        (\A c \in Table : DedupKey(c) = DedupKey(m) => Day(c) # Day(m))
            => m \in Remaining

=============================================================================
