----------------------------- MODULE RankedRows -----------------------------
(***************************************************************************)
(* What the queries of crypto-backfill and crypto-dedup have in common:    *)
(* the rows of a trade_ts window, one of each dedup key, ranked by         *)
(* row_number() OVER (PARTITION BY key ORDER BY event_ts, trade_ts).       *)
(***************************************************************************)
EXTENDS ChunkedAppend

CONSTANTS
    Row  \* each row's [exchange, id, ts, at, complete]: dedup key, trade_ts in days,
         \* rank among the rows of its key, and whether no required column is NULL

ASSUME RowAssumption == \A r \in Rows : Row[r].ts \in Int /\ Row[r].at \in Int

Key(r) == <<Row[r].exchange, Row[r].id>>
Keys(S) == {Key(r) : r \in S}
OnePerKey(S) == \A r, n \in S : Key(r) = Key(n) => r = n

InWindow(w) == {r \in Rows : w[1] <= Row[r].ts /\ Row[r].ts < w[2]}

(* src_ranked, rn = 1: one row of each key, of those that rank first.  Rows  *)
(* that tie (the legacy table holds exact copies) are ranked in any order.   *)
Ranked(S) == {r \in S : \A n \in S : Key(r) = Key(n) => Row[r].at <= Row[n].at}
Firsts(S) == {T \in SUBSET Ranked(S) : Keys(T) = Keys(S) /\ OnePerKey(T)}

=============================================================================
