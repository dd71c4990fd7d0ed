----------------------------- MODULE BackfillMC -----------------------------
(***************************************************************************)
(* A small gap to fill: ts counts days.                                    *)
(***************************************************************************)
EXTENDS Backfill

CONSTANTS s1, s2, s3, s4, s5, s6, s7, s8, p1, l1, l2, l5

R(k, t, c) == [exchange |-> "BINANCE", id |-> k, ts |-> t, at |-> t, complete |-> c]

\* s1 and s2 are exact copies; s3 landed a day earlier in the destination (p1);
\* s4 misses a column, and ranks
\* before s8, which does not; s6 is just behind the last window.  l1 and l2 are one new
\* trade, published twice; l5 is the trade of s5.
MCRow ==
    [r \in {s1, s2, s3, s4, s5, s6, s7, s8, p1, l1, l2, l5} |->
        CASE r \in {s1, s2} -> R("k1", 1, TRUE)
          [] r = s3         -> R("k2", 2, TRUE)
          [] r = p1         -> R("k2", 1, TRUE)
          [] r = s4         -> R("k3", 3, FALSE)
          [] r \in {s5, l5} -> R("k5", 3, TRUE)
          [] r = s6         -> R("k6", 4, TRUE)
          [] r = s7         -> R("k7", 2, TRUE)
          [] r = s8         -> [R("k3", 3, TRUE) EXCEPT !.at = 4]
          [] r \in {l1, l2} -> R("k9", 3, TRUE)]

\* Two windows that overlap.
MCWindows == {<<1, 4>>, <<2, 4>>}

=============================================================================
