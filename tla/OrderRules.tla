------------------------------ MODULE OrderRules ------------------------------
(***************************************************************************)
(* The number rules an order passes on its way to the trade server         *)
(* (app/money.py, app/pretrade.py and the validators of app/lib.py), as    *)
(* operators.  Volumes and prices are integers in a unit finer than any    *)
(* the broker or a client uses; a symbol is a record of what symbol_info() *)
(* says of it.                                                             *)
(***************************************************************************)
EXTENDS Integers

OrderTypes == {"BUY", "SELL", "BUY_LIMIT", "SELL_LIMIT", "BUY_STOP", "SELL_STOP",
               "BUY_STOP_LIMIT", "SELL_STOP_LIMIT"}

MarketTypes == {"BUY", "SELL"}
StopLimitTypes == {"BUY_STOP_LIMIT", "SELL_STOP_LIMIT"}

\* ORDER_TYPE_TO_STRING names with "BUY" in them.
BuyTypes == {"BUY", "BUY_LIMIT", "BUY_STOP", "BUY_STOP_LIMIT"}

\* A stop loss or take profit that was not given (None).
NoLevel == -1

Distance(a, b) == IF a < b THEN b - a ELSE a - b

-----------------------------------------------------------------------------
(* Rounding.                                                               *)

RoundDown(v, unit) == (v \div unit) * unit

\* ROUND_HALF_UP of a positive number.
HalfUp(x, unit) == ((2 * x + unit) \div (2 * unit)) * unit

-----------------------------------------------------------------------------
(* Volumes.                                                                *)

NormalizedVolumeUp(v, s) == IF s.volume_step <= 0 THEN v ELSE HalfUp(v, s.volume_step)
NormalizedVolume(v, s) == IF s.volume_step <= 0 THEN v ELSE RoundDown(v, s.volume_step)

\* normalize_volume does not raise.
VolumeNormalizes(v, s) ==
    /\ s.volume_min <= v /\ v <= s.volume_max
    /\ s.volume_min <= NormalizedVolume(v, s)

\* validate_volume: within 1% of a step of the grid that starts at the minimum.
VolumeValid(v, s) ==
    /\ s.volume_min <= v /\ v <= s.volume_max
    /\ s.volume_step > 0 =>
         LET above == (v - s.volume_min) % s.volume_step
         IN  100 * above <= s.volume_step \/ 100 * (s.volume_step - above) <= s.volume_step

-----------------------------------------------------------------------------
(* Prices.                                                                 *)

\* normalize_price: to the tick size, then to the displayed digits (a price
\* that is not positive raises; a rounded one may be 0).
NormalizedPrice(p, s) ==
    HalfUp(IF s.trade_tick_size > 0 THEN HalfUp(p, s.trade_tick_size) ELSE p, s.quantum)

\* validate_pending_price against one quote.  Stop-limit orders have only the
\* distance rule.
PendingPriceValid(type, price, bid, ask, s) ==
    /\ Distance(price, IF type \in BuyTypes THEN ask ELSE bid) >= s.freeze
    /\ type = "BUY_LIMIT" => price < ask
    /\ type = "SELL_LIMIT" => price > bid
    /\ type = "BUY_STOP" => price > ask
    /\ type = "SELL_STOP" => price < bid

\* The side of the quote send_market_order_endpoint compares a pending price with.
BandQuote(type, bid, ask) == IF type \in {"BUY_LIMIT", "BUY_STOP"} THEN ask ELSE bid

\* validate_price_band does not raise.
WithinBand(price, market, pct) == market > 0 /\ 100 * Distance(price, market) <= pct * market

-----------------------------------------------------------------------------
(* Protection levels.                                                      *)

\* validate_sl_tp's is_buy: a BUY_STOP_LIMIT is not on its list.
RatedAsBuy == {"BUY", "BUY_LIMIT", "BUY_STOP"}

StopLossValid(type, price, sl) ==
    sl # NoLevel => sl > 0 /\ IF type \in RatedAsBuy THEN sl < price ELSE sl > price

TakeProfitValid(type, price, tp) ==
    tp # NoLevel => tp > 0 /\ IF type \in RatedAsBuy THEN tp > price ELSE tp < price

ProtectionValid(type, price, sl, tp) ==
    StopLossValid(type, price, sl) /\ TakeProfitValid(type, price, tp)

\* The levels limit the loss and take the gain of such an order.
Protects(type, price, sl, tp) ==
    /\ sl > 0 => IF type \in BuyTypes THEN sl < price ELSE sl > price
    /\ tp > 0 => IF type \in BuyTypes THEN tp > price ELSE tp < price

\* A level a modification does not name.
Keep == -2

Resolved(change, current) == IF change = Keep THEN current ELSE change
=============================================================================
