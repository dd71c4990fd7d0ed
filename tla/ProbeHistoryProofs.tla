------------------------- MODULE ProbeHistoryProofs -------------------------
(***************************************************************************)
(* Theorems about the table a history of micro-batches leaves behind, for  *)
(* any trades, any order of deliveries, any width of the integers.         *)
(***************************************************************************)
EXTENDS ProbeHistory, FiniteSetTheorems, TLAPS

LEMMA DivMonotonic ==
    ASSUME NEW a \in Int, NEW b \in Int, NEW d \in Nat \ {0}, a <= b
    PROVE  a \div d <= b \div d
<1> DEFINE p == a \div d  q == b \div d
<1>1. p \in Int /\ q \in Int /\ d * p <= a /\ b < d * q + d
    OBVIOUS
<1> HIDE DEF p, q
<1>2. ASSUME q < p PROVE FALSE
    <2>1. \A x \in Int, y \in Int : x <= y => d * x <= d * y
        OBVIOUS
    <2>2. d * (q + 1) <= d * p
        BY <1>1, <1>2, <2>1
    <2>3. d * (q + 1) = d * q + d
        BY <1>1
    <2>. QED
        BY <1>1, <2>2, <2>3
<1>. QED
    BY <1>1, <1>2 DEF p, q

(* A quotient is the same in a unit u times smaller. *)
LEMMA DivInUnits ==
    ASSUME NEW a \in Nat, NEW d \in Nat \ {0}, NEW u \in Nat \ {0}
    PROVE  (a * u) \div (d * u) = a \div d
<1> DEFINE q == a \div d
<1>1. q \in Int /\ d * q <= a /\ a + 1 <= d * q + d
    OBVIOUS
<1> HIDE DEF q
<1>2. \A x \in Int, y \in Int : x <= y => x * u <= y * u
    OBVIOUS
<1>3. (d * q) * u <= a * u /\ (a + 1) * u <= (d * q + d) * u
    BY <1>1, <1>2
<1>4. /\ (d * q) * u = (d * u) * q /\ (d * q + d) * u = (d * u) * q + d * u
      /\ (a + 1) * u = a * u + u
    BY <1>1
<1> DEFINE au == a * u  du == d * u
<1>5. au \in Int /\ du \in Nat \ {0} /\ du * q <= au /\ au < du * q + du
    BY <1>1, <1>3, <1>4
<1> HIDE DEF au, du
<1>6. au \div du = q
    BY <1>1, <1>5
<1>. QED
    BY <1>6 DEF q, au, du

-----------------------------------------------------------------------------
Decodable == Msgs \ Undecodable

(* A data file has rows of one partition, which its name tells.              *)
FileOk(f) ==
    /\ f.rows \subseteq Decodable
    /\ \A m \in f.rows : f.name.partition = Partition(m)

(* The name generator has not come to names it has not given.                *)
NameGiven(f) ==
    /\ f.name.process \in Nat /\ f.name.number \in Nat
    /\ f.name.process <= process
    /\ f.name.process = process => f.name.number < flushes

HistoryInv ==
    /\ process \in Nat /\ flushes \in Nat
    /\ incoming \subseteq Decodable
    /\ \A m, n \in incoming : DedupKey(m) = DedupKey(n) => m = n
    /\ \A f \in data : FileOk(f) /\ NameGiven(f)
    /\ EachTradeOnce

(* The files a batch opens cover the batch: a committed row with the key and *)
(* the timestamp of a row of the batch keeps that row out.                   *)
LEMMA OpenedCoverBatch ==
    ASSUME HistoryInv, NEW m \in Remaining, NEW f \in data, NEW c \in f.rows,
           DedupKey(c) = DedupKey(m), Event[c].ts = Event[m].ts
    PROVE  FALSE
<1>1. m \in incoming /\ m \in Decodable /\ c \in Decodable /\ Event[m].ts \in Int
    BY EventAssumption DEF HistoryInv, FileOk, Decodable, Remaining, Survivors
<1>2. Event[c].exchange = Event[m].exchange
    BY DEF DedupKey
<1>3. SameGroup(m, m) /\ Event[m].ts <= Event[c].ts /\ Event[c].ts <= Event[m].ts
    BY <1>1 DEF SameGroup
<1>4. f \in Opened
    BY <1>1, <1>2, <1>3 DEF Opened, Planned
<1>5. InRange(c, incoming)
    BY <1>1, <1>2, <1>3 DEF InRange
<1>6. c \in Probe(incoming, UNION {g.rows : g \in Opened})
    BY <1>4, <1>5 DEF Probe
<1>. QED
    BY <1>6 DEF Remaining, Survivors

(* What a flush writes is new, in its names and in its rows.                 *)
LEMMA NewFilesOk ==
    ASSUME HistoryInv, NEW f \in NewFiles(Remaining)
    PROVE  /\ f.rows \subseteq Remaining /\ Remaining \subseteq incoming
           /\ \A m \in f.rows : f.name.partition = Partition(m)
           /\ f.name.process = process /\ f.name.number = flushes
           /\ f.rows = {m \in Remaining : Partition(m) = f.name.partition}
<1>1. PICK p \in {Partition(m) : m \in Remaining} :
          f = [name |-> FileName(p), rows |-> {m \in Remaining : Partition(m) = p}]
    BY DEF NewFiles
<1>2. f.name.partition = p /\ f.name.process = process /\ f.name.number = flushes
    BY <1>1 DEF FileName
<1>3. f.rows = {m \in Remaining : Partition(m) = p}
    BY <1>1
<1>4. Remaining \subseteq incoming
    BY DEF Remaining, Survivors
<1>. QED
    BY <1>2, <1>3, <1>4

(* Every survivor is in a file of the flush. *)
LEMMA SurvivorIsWritten ==
    ASSUME NEW m \in Remaining
    PROVE  \E f \in NewFiles(Remaining) : m \in f.rows
<1> DEFINE f == [name |-> FileName(Partition(m)),
                 rows |-> {n \in Remaining : Partition(n) = Partition(m)}]
<1>1. f \in NewFiles(Remaining)
    BY DEF NewFiles
<1>2. m \in f.rows
    OBVIOUS
<1>. QED
    BY <1>1, <1>2

(* Its names are new too: no object the table references is replaced.        *)
LEMMA NewNames ==
    ASSUME HistoryInv, NEW files \in SUBSET NewFiles(Remaining)
    PROVE  Names(files) \intersect Names(data) = {} /\ Overwritten(files) = data
<1>1. ASSUME NEW f \in files, NEW g \in data PROVE f.name # g.name
    <2>1. f.name.process = process /\ f.name.number = flushes
        BY NewFilesOk
    <2>2. NameGiven(g) /\ flushes \in Nat
        BY DEF HistoryInv
    <2>. QED
        BY <2>1, <2>2 DEF NameGiven
<1>. QED
    BY <1>1 DEF Names, Overwritten

-----------------------------------------------------------------------------
LEMMA HistoryInit == Init => HistoryInv
    BY DEF Init, HistoryInv, EachTradeOnce

LEMMA WriteKeepsHistory ==
    ASSUME HistoryInv, Write
    PROVE  HistoryInv'
<1> DEFINE files == NewFiles(Remaining)
<1>1. data' = data \union files
    BY NewNames DEF Write
<1>2. /\ process' = process /\ incoming' = {}
      /\ flushes' \in Nat /\ flushes' >= flushes /\ (files # {} => flushes' = flushes + 1)
    BY DEF Write, HistoryInv
<1>3. ASSUME NEW f \in data'
      PROVE  /\ f.rows \subseteq Decodable
             /\ \A m \in f.rows : f.name.partition = Partition(m)
             /\ f.name.process \in Nat /\ f.name.number \in Nat
             /\ f.name.process <= process
             /\ f.name.process = process => f.name.number < flushes'
    <2>1. CASE f \in data
        <3>1. FileOk(f) /\ NameGiven(f) /\ flushes \in Nat
            BY <2>1 DEF HistoryInv
        <3>. QED
            BY <1>2, <3>1 DEF FileOk, NameGiven
    <2>2. CASE f \in files
        <3>1. /\ f.rows \subseteq Decodable
              /\ \A m \in f.rows : f.name.partition = Partition(m)
              /\ f.name.process = process /\ f.name.number = flushes
            BY <2>2, NewFilesOk DEF HistoryInv
        <3>2. files # {} /\ process \in Nat /\ flushes \in Nat
            BY <2>2 DEF HistoryInv
        <3>. QED
            BY <1>2, <3>1, <3>2
    <2>. QED
        BY <1>1, <2>1, <2>2
<1>4. ASSUME NEW f \in data', NEW g \in data', NEW m \in f.rows, NEW n \in g.rows,
             DedupKey(m) = DedupKey(n), Event[m].ts = Event[n].ts
      PROVE  f = g /\ m = n
    <2>1. CASE f \in data /\ g \in data
        BY <1>4, <2>1 DEF HistoryInv, EachTradeOnce
    <2>2. CASE f \in files /\ g \in files
        <3>1. m \in incoming /\ n \in incoming
            BY <2>2, NewFilesOk
        <3>2. m = n
            BY <1>4, <3>1 DEF HistoryInv
        <3>3. PICK p, q : /\ f = [name |-> FileName(p), rows |-> {x \in Remaining : Partition(x) = p}]
                          /\ g = [name |-> FileName(q), rows |-> {x \in Remaining : Partition(x) = q}]
            BY <2>2 DEF NewFiles
        <3>4. Partition(m) = p /\ Partition(n) = q
            BY <3>3
        <3>. QED
            BY <3>2, <3>3, <3>4
    <2>3. CASE f \in data /\ g \in files
        <3>1. n \in Remaining
            BY <2>3, NewFilesOk
        <3>. QED
            BY <1>4, <2>3, <3>1, OpenedCoverBatch
    <2>4. CASE f \in files /\ g \in data
        <3>1. m \in Remaining
            BY <2>4, NewFilesOk
        <3>. QED
            BY <1>4, <2>4, <3>1, OpenedCoverBatch
    <2>. QED
        BY <1>1, <2>1, <2>2, <2>3, <2>4
<1>5. EachTradeOnce'
    BY <1>4 DEF EachTradeOnce, DedupKey
<1>. QED
    BY <1>2, <1>3, <1>5 DEF HistoryInv, FileOk, NameGiven, Partition, Day

LEMMA HistoryStep ==
    ASSUME HistoryInv, [Next]_vars
    PROVE  HistoryInv' /\ data \subseteq data'
<1>1. ASSUME NEW m \in Decodable, Collect(m) PROVE HistoryInv' /\ data \subseteq data'
    <2>1. \A n, k \in incoming' : DedupKey(n) = DedupKey(k) => n = k
        BY <1>1 DEF Collect, HistoryInv
    <2>. QED
        BY <1>1, <2>1 DEF Collect, HistoryInv, EachTradeOnce, FileOk, NameGiven, Partition, Day, DedupKey
<1>2. CASE Write
    BY <1>2, WriteKeepsHistory, NewNames DEF Write
<1>3. CASE WriteFails
    <2>1. data' = data /\ incoming' = {} /\ flushes' = flushes + 1 /\ process' = process
        BY <1>3, NewNames DEF WriteFails
    <2>. QED
        BY <2>1 DEF HistoryInv, EachTradeOnce, FileOk, NameGiven, Partition, Day, DedupKey
<1>4. CASE Restart
    BY <1>4 DEF Restart, HistoryInv, EachTradeOnce, FileOk, NameGiven, Partition, Day, DedupKey
<1>5. CASE UNCHANGED vars
    BY <1>5 DEF vars, HistoryInv, EachTradeOnce, FileOk, NameGiven, Partition, Day, DedupKey
<1>. QED
    BY <1>1, <1>2, <1>3, <1>4, <1>5 DEF Next, Decodable

LEMMA HistoryInductive == Spec => []HistoryInv
    BY HistoryInit, HistoryStep, PTL DEF Spec

-----------------------------------------------------------------------------
(* No redelivery, in whatever company, and no failed flush or restart stores *)
(* a trade a second time: batches, files and days are as many as one likes.  *)
THEOREM TradesAreStoredOnce == Spec => []EachTradeOnce
<1>1. HistoryInv => EachTradeOnce
    BY DEF HistoryInv
<1>. QED
    BY <1>1, HistoryInductive, PTL

(* What a snapshot references is never written over, by this process or a    *)
(* later one.                                                                *)
THEOREM CommittedFilesStay == Spec => CommittedStays
<1>1. HistoryInv /\ [Next]_vars => [data \subseteq data']_vars
    BY HistoryStep
<1>. QED
    BY <1>1, HistoryInductive, PTL DEF Spec, CommittedStays

(* The cast is one to one: rows with the same key are of trades that have    *)
(* the same exchange, symbol and id.                                         *)
LEMMA KeyTellsTrade ==
    ASSUME NEW m \in Decodable, NEW n \in Decodable, DedupKey(m) = DedupKey(n)
    PROVE  TradeIdentity(m) = TradeIdentity(n)
<1>1. /\ Trade[m].trade_id \in U64 /\ Trade[n].trade_id \in U64
      /\ Event[m] = ToRow(Trade[m]) /\ Event[n] = ToRow(Trade[n])
    BY HistoryAssumption DEF Decodable
<1>2. \A u, v \in U64 : AsI64(u) = AsI64(v) => u = v
    BY WidthAssumption DEF U64, AsI64
<1>3. /\ Trade[m].exchange = Trade[n].exchange
      /\ Trade[m].symbol = Trade[n].symbol
      /\ AsI64(Trade[m].trade_id) = AsI64(Trade[n].trade_id)
    BY <1>1 DEF DedupKey, ToRow
<1>. QED
    BY <1>1, <1>2, <1>3 DEF TradeIdentity

(* After a flush that ends well, each of its messages, which are acked next, *)
(* has a row of its trade in the table, of any width the ids are cast to.    *)
THEOREM FlushedTradesAreStored == Spec => FlushedIsStored
<1>1. ASSUME HistoryInv, Write, NEW m \in incoming
      PROVE  \E c \in Table' : TradeIdentity(c) = TradeIdentity(m)
    <2>1. data' = data \union NewFiles(Remaining)
        BY <1>1, NewNames DEF Write
    <2>2. CASE m \in Remaining
        <3>1. m \in Table'
            BY <2>1, <2>2, SurvivorIsWritten DEF Table
        <3>. QED
            BY <3>1
    <2>3. CASE m \notin Remaining
        <3>1. PICK f \in data : \E c \in f.rows : DedupKey(c) = DedupKey(m)
            BY <1>1, <2>3 DEF Remaining, Survivors, Probe, Opened
        <3>2. PICK c \in f.rows : DedupKey(c) = DedupKey(m)
            BY <3>1
        <3>3. c \in Table' /\ c \in Decodable /\ m \in Decodable
            BY <1>1, <2>1, <3>1, <3>2 DEF Table, HistoryInv, FileOk
        <3>4. TradeIdentity(c) = TradeIdentity(m)
            BY <3>2, <3>3, KeyTellsTrade
        <3>. QED
            BY <3>3, <3>4
    <2>. QED
        BY <2>2, <2>3
<1>2. HistoryInv => [Write => \A m \in incoming :
                                  \E c \in Table' : TradeIdentity(c) = TradeIdentity(m)]_vars
    BY <1>1
<1>. QED
    BY <1>2, HistoryInductive, PTL DEF FlushedIsStored

(* Where ids are unique, the probe decides as a look at the whole table.     *)
THEOREM ProbeDecidesAsTheTable == Spec => []PruningLossless
<1>1. ASSUME HistoryInv PROVE PruningLossless
    <2> SUFFICES ASSUME NEW m \in incoming, UniqueId(m)
                 PROVE  m \in Remaining <=> \A c \in Table : DedupKey(c) # DedupKey(m)
        BY Zenon DEF PruningLossless
    <2>1. ASSUME m \in Remaining, NEW c \in Table, DedupKey(c) = DedupKey(m) PROVE FALSE
        <3>1. PICK f \in data : c \in f.rows
            BY <2>1 DEF Table
        <3>2. c \in Msgs \ Undecodable
            BY <1>1, <3>1 DEF HistoryInv, FileOk, Decodable
        <3>3. Event[c].ts = Event[m].ts
            BY <2>1, <3>2 DEF UniqueId
        <3>. QED
            BY <1>1, <2>1, <3>1, <3>3, OpenedCoverBatch
    <2>2. ASSUME m \notin Remaining PROVE \E c \in Table : DedupKey(c) = DedupKey(m)
        <3>1. PICK c \in UNION {f.rows : f \in Opened} : DedupKey(c) = DedupKey(m)
            BY <2>2 DEF Remaining, Survivors, Probe
        <3>2. c \in Table
            BY <3>1 DEF Table, Opened
        <3>. QED
            BY <3>1, <3>2
    <2>. QED
        BY <2>1, <2>2
<1>. QED
    BY <1>1, HistoryInductive, PTL

(* The probe opens files of the batch's own partitions only, although its    *)
(* predicate names times and no days.                                        *)
THEOREM ProbeStaysInItsPartitions == Spec => []OpensOwnPartitions
<1>1. ASSUME HistoryInv PROVE OpensOwnPartitions
    <2> SUFFICES ASSUME NEW f \in Opened
                 PROVE  \E m \in incoming : f.name.partition = Partition(m)
        BY DEF OpensOwnPartitions
    <2>1. PICK lo \in incoming :
              /\ \E a \in f.rows : Event[a].exchange = Event[lo].exchange /\ Event[lo].ts <= Event[a].ts
              /\ \E hi \in incoming, b \in f.rows : SameGroup(lo, hi) /\ Event[b].ts <= Event[hi].ts
        BY DEF Opened, Planned
    <2>2. PICK a \in f.rows : Event[a].exchange = Event[lo].exchange /\ Event[lo].ts <= Event[a].ts
        BY <2>1
    <2>3. PICK hi \in incoming, b \in f.rows : SameGroup(lo, hi) /\ Event[b].ts <= Event[hi].ts
        BY <2>1
    <2>4. FileOk(f) /\ incoming \subseteq Decodable
        BY <1>1 DEF HistoryInv, Opened
    <2>5. /\ Event[lo].ts \in Int /\ Event[a].ts \in Int /\ Event[b].ts \in Int /\ Event[hi].ts \in Int
          /\ MicrosPerDay \in Nat \ {0}
        BY <2>4, EventAssumption DEF FileOk, Decodable
    <2>6. f.name.partition = Partition(a) /\ f.name.partition = Partition(b)
        BY <2>4 DEF FileOk
    <2>7. Day(lo) <= Day(a) /\ Day(b) <= Day(hi)
        BY <2>2, <2>3, <2>5, DivMonotonic DEF Day
    <2>8. Day(a) = Day(b) /\ Day(lo) = Day(hi)
        BY <2>3, <2>6 DEF Partition, SameGroup
    <2>9. Day(lo) \in Int /\ Day(a) \in Int
        BY <2>5 DEF Day
    <2>10. Day(lo) = Day(a)
        BY <2>7, <2>8, <2>9
    <2>. QED
        BY <2>2, <2>6, <2>10 DEF Partition
<1>. QED
    BY <1>1, HistoryInductive, PTL

(* The casts and the product lose nothing of a time that fits the column.    *)
LEMMA DayOfRow ==
    ASSUME NEW m \in Decodable, InRangeOfTs(Trade[m])
    PROVE  Partition(m) = <<Trade[m].exchange, Trade[m].trade_time \div MillisPerDay>>
<1> DEFINE t == Trade[m].trade_time  u == MicrosPerMilli  x == t * u
<1>1. /\ t \in Nat /\ t * u < Half /\ Event[m] = ToRow(Trade[m])
      /\ Half \in Nat \ {0} /\ u \in Nat \ {0} /\ MillisPerDay \in Nat \ {0}
      /\ MicrosPerDay = MillisPerDay * u
    BY HistoryAssumption, WidthAssumption DEF Decodable, InRangeOfTs, U64
<1>2. /\ Event[m].exchange = Trade[m].exchange
      /\ Event[m].ts = Wrap(AsI64(t) * u)
    BY <1>1 DEF ToRow
<1> HIDE DEF t, u
<1>3. t <= x /\ x \in Nat /\ x < Half
    <2>1. \A k \in Nat : k <= k * u
        BY <1>1
    <2>. QED
        BY <1>1, <2>1
<1>4. AsI64(t) = t
    BY <1>1, <1>3 DEF AsI64
<1> HIDE DEF x
<1>5. Wrap(x) = x
    BY <1>1, <1>3 DEF Wrap
<1>6. Event[m].ts = t * u
    BY <1>2, <1>4, <1>5 DEF x
<1>7. Day(m) = t \div MillisPerDay
    BY <1>1, <1>6, DivInUnits DEF Day
<1>. QED
    BY <1>2, <1>7 DEF Partition, t

(* A trade is filed under its exchange and the UTC day it was made.          *)
THEOREM TradesAreFiledByDay == Spec => []FiledUnderItsDay
<1>1. ASSUME HistoryInv PROVE FiledUnderItsDay
    BY <1>1, DayOfRow DEF FiledUnderItsDay, HistoryInv, FileOk
<1>. QED
    BY <1>1, HistoryInductive, PTL

-----------------------------------------------------------------------------
(* The files as a ledger *)

(* Of files that have no row in common, one at most has a given row: how     *)
(* often it is stored is whether.                                            *)
LEMMA RowIsInOneFile ==
    ASSUME NEW files, \A f, g \in files : f.rows \intersect g.rows # {} => f = g, NEW m
    PROVE  Cardinality({f \in files : m \in f.rows}) = IF \E f \in files : m \in f.rows THEN 1 ELSE 0
<1>1. CASE \E f \in files : m \in f.rows
    <2>1. PICK f \in files : m \in f.rows
        BY <1>1
    <2>2. {g \in files : m \in g.rows} = {f}
        BY <2>1
    <2>. QED
        BY <1>1, <2>2, FS_Singleton
<1>2. CASE ~ \E f \in files : m \in f.rows
    <2>1. {f \in files : m \in f.rows} = {}
        BY <1>2
    <2>. QED
        BY <1>2, <2>1, FS_EmptySet
<1>. QED
    BY <1>1, <1>2

LEMMA LedgerStart == Init => Ledger!LedgerInit
<1>1. ASSUME Init, NEW m PROVE Cardinality(FilesWith(m)) = 0
    <2>1. FilesWith(m) = {}
        BY <1>1 DEF Init, FilesWith
    <2>. QED
        BY <2>1, FS_EmptySet
<1>. QED
    BY <1>1 DEF Ledger!LedgerInit

(* A flush with something left to write records just that, all of it.        *)
LEMMA WriteIsRecord ==
    ASSUME HistoryInv, Write, Remaining # {}
    PROVE  Ledger!Record(Remaining)
<1>1. data' = data \union NewFiles(Remaining)
    BY NewNames DEF Write
<1>2. /\ \A m : Cardinality(FilesWith(m)) = IF \E f \in data : m \in f.rows THEN 1 ELSE 0
      /\ \A m : Cardinality(FilesWith(m))' = IF \E f \in data' : m \in f.rows THEN 1 ELSE 0
    <2>1. \A f, g \in data : f.rows \intersect g.rows # {} => f = g
        BY DEF HistoryInv, EachTradeOnce
    <2>2. \A f, g \in data' : f.rows \intersect g.rows # {} => f = g
        BY WriteKeepsHistory DEF HistoryInv, EachTradeOnce, DedupKey
    <2>3. \A m : Cardinality({f \in data : m \in f.rows}) = IF \E f \in data : m \in f.rows THEN 1 ELSE 0
        BY <2>1, RowIsInOneFile
    <2>4. \A m : Cardinality({f \in data' : m \in f.rows}) = IF \E f \in data' : m \in f.rows THEN 1 ELSE 0
        BY <2>2, RowIsInOneFile
    <2>. QED
        BY <2>3, <2>4 DEF FilesWith
<1>3. ASSUME NEW m \in Remaining, NEW n, \E f \in data : n \in f.rows PROVE Event[n] # Event[m]
    BY <1>3, OpenedCoverBatch DEF DedupKey
<1>4. ASSUME NEW m \in Remaining, NEW n \in Remaining, Event[n] = Event[m] PROVE n = m
    <2>1. m \in incoming /\ n \in incoming
        BY DEF Remaining, Survivors
    <2>. QED
        BY <1>4, <2>1 DEF HistoryInv, DedupKey
<1>5. ASSUME NEW m PROVE (\E f \in data' : m \in f.rows)
                             <=> m \in Remaining \/ \E f \in data : m \in f.rows
    <2>1. m \in Remaining => \E f \in NewFiles(Remaining) : m \in f.rows
        BY SurvivorIsWritten
    <2>2. \A f \in NewFiles(Remaining) : f.rows \subseteq Remaining
        BY NewFilesOk
    <2>. QED
        BY <1>1, <2>1, <2>2
<1>6. /\ \A m \in Remaining : \A n \in Msgs :
             n # m /\ (Cardinality(FilesWith(n)) > 0 \/ n \in Remaining) => Event[n] # Event[m]
      /\ \A m \in Remaining : ~ Cardinality(FilesWith(m)) > 0
    BY <1>2, <1>3, <1>4
<1>7. \A m \in Msgs : Cardinality(FilesWith(m))'
                          = IF m \in Remaining THEN 1 ELSE Cardinality(FilesWith(m))
    BY <1>2, <1>5
<1>8. Remaining \subseteq Msgs
    BY DEF HistoryInv, Decodable, Remaining, Survivors
<1>. QED
    BY <1>6, <1>7, <1>8 DEF Ledger!Record, Ledger!Recorded

LEMMA LedgerStep ==
    ASSUME HistoryInv, [Next]_vars
    PROVE  [Ledger!LedgerNext]_(Ledger!ledgerVars)
<1>1. CASE Write /\ Remaining # {}
    <2>1. Remaining \in SUBSET (Msgs \ Undecodable)
        BY DEF HistoryInv, Decodable, Remaining, Survivors
    <2>. QED
        BY <1>1, <2>1, WriteIsRecord DEF Ledger!LedgerNext
<1>2. CASE data' = data
    BY <1>2 DEF Ledger!ledgerVars, FilesWith
<1>3. Write /\ Remaining = {} => data' = data
    <2>1. NewFiles({}) = {}
        BY DEF NewFiles
    <2>. QED
        BY <2>1, NewNames DEF Write
<1>4. WriteFails => data' = data
    BY NewNames DEF WriteFails
<1>5. (\E m \in Msgs \ Undecodable : Collect(m)) \/ Restart \/ UNCHANGED vars => data' = data
    BY DEF Collect, Restart, vars
<1>. QED
    BY <1>1, <1>2, <1>3, <1>4, <1>5 DEF Next

(* The files implement the ledger: whatever is redelivered, fails or is      *)
(* restarted, a flush records new trades, each in one file, all or none, and *)
(* nothing recorded is forgotten.                                            *)
THEOREM FilesImplementLedger == Spec => FilesAreALedger
<1>1. HistoryInv /\ [Next]_vars => [Ledger!LedgerNext]_(Ledger!ledgerVars)
    BY LedgerStep
<1>. QED
    BY <1>1, LedgerStart, HistoryInductive, PTL DEF Spec, FilesAreALedger, Ledger!LedgerSpec

=============================================================================
