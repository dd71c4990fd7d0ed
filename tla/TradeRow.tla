------------------------------ MODULE TradeRow ------------------------------
(***************************************************************************)
(* From a decoded trade to a row of the table (schema.rs).  The protobuf   *)
(* carries unsigned 64-bit integers, the table has signed ones, and the    *)
(* timestamp column is the trade time in milliseconds times 1000.  Casts   *)
(* and, in a release build, products wrap around.                          *)
(*                                                                         *)
(* The width is a constant, so that TLC can reach it: an unsigned integer  *)
(* is below 2 * Half, a signed one is from -Half to Half - 1.              *)
(***************************************************************************)
EXTENDS Integers

CONSTANTS
    Half,            \* 2^63
    MicrosPerMilli,  \* MICROS_PER_MILLI, 1000
    MillisPerDay     \* 86 400 000

ASSUME WidthAssumption == {Half, MicrosPerMilli, MillisPerDay} \subseteq Nat \ {0}

U64 == 0 .. 2 * Half - 1
I64 == -Half .. Half - 1

\* Mutant of AsI64: what does not fit becomes the greatest integer that does.
AsI64Saturating(u) == IF u < Half THEN u ELSE Half - 1

(* u as i64 *)
AsI64(u) == IF u < Half THEN u ELSE u - 2 * Half

(* What a product of signed integers is, kept to their width. *)
Wrap(i) == ((i + Half) % (2 * Half)) - Half

\* Mutant of ToRow: milliseconds are taken for microseconds.
ToRowInMillis(trade) ==
    [exchange |-> trade.exchange,
     id       |-> <<trade.symbol, AsI64(trade.trade_id)>>,
     ts       |-> AsI64(trade.trade_time)]

(* The columns of to_record_batch that the key and the partition are made of. *)
ToRow(trade) ==
    [exchange |-> trade.exchange,
     id       |-> <<trade.symbol, AsI64(trade.trade_id)>>,
     ts       |-> Wrap(AsI64(trade.trade_time) * MicrosPerMilli)]

-----------------------------------------------------------------------------
(* The trade time fits the column: 292 years on either side of the epoch.    *)
InRangeOfTs(trade) == trade.trade_time * MicrosPerMilli < Half

=============================================================================
