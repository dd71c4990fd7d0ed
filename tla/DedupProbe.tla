----------------------------- MODULE DedupProbe -----------------------------
(***************************************************************************)
(* The messages of the trades stream, and the dedup anti-join of the       *)
(* Iceberg sink: which rows of a micro-batch are written, given the rows   *)
(* the table already holds.                                                *)
(*                                                                         *)
(* A row is named by the message it was decoded from, so a table or a      *)
(* batch is a set of messages.  The pair (symbol, trade_id) of the code is *)
(* one value, id: the code only ever compares the two together.            *)
(***************************************************************************)
EXTENDS Integers, SequencesExt

CONSTANTS
    Msgs,         \* messages of the stream, one per stream sequence number
    Undecodable,  \* those whose payload is not a TradeEvent
    Event,        \* the trade a message carries: [exchange, id, ts]
    MicrosPerDay  \* length of a partition day, in units of ts

ASSUME EventAssumption ==
    /\ Undecodable \subseteq Msgs
    /\ \A m \in Msgs : Event[m].ts \in Int
    /\ MicrosPerDay \in Nat \ {0}

(* The dedup key, (exchange, symbol, trade_id): trade_ts is not part of it. *)
DedupKey(m) == <<Event[m].exchange, Event[m].id>>

(* The partition a row is filed under, and the group its bounds belong to.  *)
Day(m) == Event[m].ts \div MicrosPerDay
SameGroup(m, n) == Event[m].exchange = Event[n].exchange /\ Day(m) = Day(n)

-----------------------------------------------------------------------------
(***************************************************************************)
(* Is the committed row c inside the range the probe of incoming opens?    *)
(* The code keeps, per (exchange, day) group of incoming, the lowest and   *)
(* the highest ts, and filters the table by the union of these ranges.  A  *)
(* row is between the lowest and the highest iff it is between some two    *)
(* rows of the group.                                                      *)
(***************************************************************************)

\* Mutant of InRange: bounds compared strictly.
InRangeStrict(c, incoming) ==
    \E lo, hi \in incoming :
        /\ SameGroup(lo, hi)
        /\ Event[lo].exchange = Event[c].exchange
        /\ Event[lo].ts < Event[c].ts
        /\ Event[c].ts <= Event[hi].ts

\* Mutant of InRange: one range for the whole batch, whatever the exchange.
InRangeOfFirstGroup(c, incoming) ==
    \E lo, hi \in incoming :
        /\ \A m \in incoming : Event[lo].ts <= Event[m].ts
        /\ SameGroup(lo, hi)
        /\ Event[lo].exchange = Event[c].exchange
        /\ Event[lo].ts <= Event[c].ts
        /\ Event[c].ts <= Event[hi].ts

InRange(c, incoming) ==
    \E lo, hi \in incoming :
        /\ SameGroup(lo, hi)
        /\ Event[lo].exchange = Event[c].exchange
        /\ Event[lo].ts <= Event[c].ts
        /\ Event[c].ts <= Event[hi].ts

(* The probe side of the join: the committed rows the predicate lets through. *)
Probe(incoming, table) == {c \in table : InRange(c, incoming)}

(* LEFT ANTI JOIN of incoming with the probe, on the dedup key. *)
Survivors(incoming, table) ==
    {m \in incoming : \A c \in Probe(incoming, table) : DedupKey(c) # DedupKey(m)}

=============================================================================
