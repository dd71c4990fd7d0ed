--------------------------- MODULE DedupRewriteMC ---------------------------
(***************************************************************************)
(* Two days of a table with duplicates: ts counts days.                    *)
(***************************************************************************)
EXTENDS DedupRewrite

CONSTANTS d1, d2, d3, d4, d5, d6

R(k, t, a) == [exchange |-> "BINANCE", id |-> k, ts |-> t, at |-> a, complete |-> TRUE]

\* d1 and d2 are exact copies, d3 is an earlier row of d4's trade.
MCRow ==
    [r \in {d1, d2, d3, d4, d5, d6} |->
        CASE r \in {d1, d2} -> R("k1", 1, 10)
          [] r = d3         -> R("k2", 1, 10)
          [] r = d4         -> R("k2", 1, 11)
          [] r = d5         -> R("k3", 1, 12)
          [] r = d6         -> R("k4", 2, 20)]

MCWindows == {<<1, 2>>, <<2, 3>>}

ASSUME MCAssumption == WindowsAreDisjoint

=============================================================================
