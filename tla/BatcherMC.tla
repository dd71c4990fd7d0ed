----------------------------- MODULE BatcherMC -----------------------------
(***************************************************************************)
(* Small streams for the batcher.  Size thresholds are set by MaxRecords   *)
(* in the configurations; payloads are one byte and MaxBytes is large.     *)
(***************************************************************************)
EXTENDS Batcher

CONSTANTS m1, m2, m3, m4, m5

Trade(id, ts) == [exchange |-> "binance", id |-> id, ts |-> ts]

\* One trade published twice, a second trade, and payloads that do not decode.
Rows ==
    [m \in {m1, m2, m3, m4, m5} |->
        CASE m \in {m1, m2} -> Trade("t1", 3)
          [] m = m3         -> Trade("t2", 5)
          [] m \in {m4, m5} -> Trade("none", 0)]

MCEvent == Rows

MCPayloadBytes == [m \in Msgs |-> 1]

=============================================================================
