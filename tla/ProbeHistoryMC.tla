--------------------------- MODULE ProbeHistoryMC ---------------------------
(***************************************************************************)
(* Integers of seven bits, two units of ts to one of trade_time, days of   *)
(* five and ten.  Timestamps at both ends of a day and between; an id used *)
(* on both exchanges, one reused on another day, one beyond the width of   *)
(* its column, and a time that is.  Messages are delivered any number of   *)
(* times.                                                                  *)
(***************************************************************************)
EXTENDS ProbeHistory

T(exchange, id, time) ==
    [exchange |-> exchange, symbol |-> "BTCUSDT", trade_id |-> id, trade_time |-> time]

Trades ==
    <<T("binance", 1, 5),    \* first instant of day 1
      T("binance", 66, 7),   \* the id becomes -62
      T("binance", 63, 9),   \* the greatest id that stays as it is; last of day 1
      T("binance", 66, 40),  \* an id used before; ts 80 becomes -48, day -5
      T("okx",     1, 5)>>   \* the id, and the time, of a trade of the other exchange

Rows == [m \in DOMAIN Trades |-> ToRow(Trades[m])]

MCTrade == Trades
MCMsgs == DOMAIN Trades
MCEvent == Rows

=============================================================================
