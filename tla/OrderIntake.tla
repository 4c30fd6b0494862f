----------------------------- MODULE OrderIntake -----------------------------
(***************************************************************************)
(* What POST /order and its read-only companions /order_check and          *)
(* /order_calc_* (app/routes/order.py) do between a request's arrival and  *)
(* the trade server, step by step, while the market moves under them and   *)
(* the symbol cache they share with the data routes goes stale.  What      *)
(* becomes of the reply and of repeated requests is OrderSubmission.       *)
(***************************************************************************)
EXTENDS OrderRules, SymbolCache

CONSTANTS
    Posters,        \* bound: the threads that serve order routes
    Traded,         \* the symbol orders are for
    Info,           \* what symbol_info() says of it
    Bodies,         \* bound: what clients ask for
    Bids,           \* bound: the bids the market may show
    Spread,         \* ask - bid
    MaxVolume,      \* MAX_ORDER_VOLUME
    BandPct,        \* MAX_PRICE_DEVIATION_PCT
    MaxPolls,       \* polls of a fill price before its timeout
    Nothing         \* no body

ASSUME OrderIntakeAssumption ==
    /\ Posters \subseteq Threads /\ Traded \in Symbols
    /\ Info \in [volume_min : Nat \ {0}, volume_max : Nat, volume_step : Nat,
                 trade_tick_size : Nat, quantum : Nat \ {0}, freeze : Nat]
    /\ Bodies \subseteq [type : OrderTypes, volume : Int, price : Int,
                         sl : Nat \cup {NoLevel}, tp : Nat \cup {NoLevel}]
    /\ Bids \subseteq Nat \ {0} /\ Spread \in Nat
    /\ MaxVolume \in Nat /\ BandPct \in Nat /\ MaxPolls \in Nat
    /\ Nothing \notin Bodies

VARIABLES
    bid,        \* the market
    route,      \* the route of each thread's request
    body,       \* its JSON body
    price,      \* its normalized price
    polls,      \* polls left for its fill price
    answer,     \* the last answer of each thread
    fill,       \* the fill price in it
    seen,       \* history: the bids shown since the request arrived
    checked     \* history: the body /order_check found valid at this quote

orderVars == <<bid, route, body, price, polls, answer, fill, seen, checked>>
locals == <<route, body, checked>>
outcome == <<polls, answer, fill>>
vars == <<cacheVars, orderVars>>

ask == bid + Spread
MarketPrice(type) == IF type = "BUY" THEN ask ELSE bid
Quoted == Traded \in watched

Prices == {NormalizedPrice(b + d, Info) : b \in Bids, d \in {0, Spread}}
            \cup {NormalizedPrice(b.price, Info) : b \in Bodies}

Answers == {"none", "ok", "ok_unresolved", "read", "valid", "invalid", "unavailable",
            "refused", "unknown"}

OrderTypeOK ==
    /\ pc \in [Threads -> {"idle", "lookup", "select", "insert", "valid", "invalidate",
                           "price", "band", "levels", "check", "send", "fill"}]
    /\ bid \in Bids
    /\ route \in [Threads -> {"symbol", "data", "order", "order_check", "order_calc"}]
    /\ body \in [Posters -> Bodies \cup {Nothing}]
    /\ price \in [Posters -> Prices \cup {0}]
    /\ polls \in [Posters -> 0..MaxPolls]
    /\ answer \in [Posters -> Answers]
    /\ fill \in [Posters -> Prices \cup {0}]
    /\ seen \in [Posters -> SUBSET Bids]
    /\ checked \in [Posters -> Bodies \cup {Nothing}]

TypeOK == CacheTypeOK /\ OrderTypeOK

Init ==
    /\ CacheInit
    /\ bid \in Bids
    /\ route = [t \in Threads |-> "symbol"]
    /\ body = [t \in Posters |-> Nothing]
    /\ price = [t \in Posters |-> 0]
    /\ polls = [t \in Posters |-> 0]
    /\ answer = [t \in Posters |-> "none"]
    /\ fill = [t \in Posters |-> 0]
    /\ seen = [t \in Posters |-> {}]
    /\ checked = [t \in Posters |-> Nothing]

\* The market shows another quote.
MarketMoves ==
    /\ bid' \in Bids \ {bid}
    /\ seen' = [t \in Posters |-> IF body[t] = Nothing THEN {} ELSE seen[t] \cup {bid'}]
    /\ checked' = [t \in Posters |-> Nothing]
    /\ UNCHANGED <<cacheVars, route, body, price, outcome>>

-----------------------------------------------------------------------------
(* The routes that only read.                                              *)

Read(t, r, s) ==
    /\ pc[t] = "idle"
    /\ symbol' = [symbol EXCEPT ![t] = s]
    /\ route' = [route EXCEPT ![t] = r]
    /\ Goto(t, "lookup")
    /\ UNCHANGED <<cached, market_watch, bid, body, price, outcome, seen, checked>>

\* symbol_info_tick and symbol_info: a call that gives nothing, for want of
\* Market Watch or of an answer, drops the symbol from the cache.
ReadSymbol(t) ==
    /\ pc[t] = "valid" /\ route[t] = "symbol"
    /\ \/ Goto(t, "invalidate")
       \/ symbol[t] \in watched /\ Goto(t, "idle")
    /\ UNCHANGED <<cached, market_watch, symbol, orderVars>>

\* fetch_data_*, orders by symbol: the answer is 404 and the cache stays.
ReadData(t) ==
    /\ pc[t] = "valid" /\ route[t] = "data"
    /\ Goto(t, "idle")
    /\ UNCHANGED <<cached, market_watch, symbol, orderVars>>

-----------------------------------------------------------------------------
(* Requests with an order in them.                                         *)

\* The request is answered; its locals end.
End(t, a) ==
    /\ Goto(t, "idle")
    /\ answer' = [answer EXCEPT ![t] = a]
    /\ body' = [body EXCEPT ![t] = Nothing]
    /\ price' = [price EXCEPT ![t] = 0]
    /\ seen' = [seen EXCEPT ![t] = {}]
    /\ polls' = [polls EXCEPT ![t] = 0]

Arrive(t, r, b) ==
    /\ pc[t] = "idle"
    /\ route' = [route EXCEPT ![t] = r]
    /\ symbol' = [symbol EXCEPT ![t] = Traded]
    /\ fill' = [fill EXCEPT ![t] = 0]
    /\ checked' = [checked EXCEPT ![t] = IF @ = b THEN b ELSE Nothing]
    /\ UNCHANGED <<cached, market_watch, bid>>

Accept(t, b) ==
    /\ Goto(t, "lookup")
    /\ body' = [body EXCEPT ![t] = b]
    /\ seen' = [seen EXCEPT ![t] = {bid}]
    /\ answer' = [answer EXCEPT ![t] = "none"]
    /\ UNCHANGED <<price, polls>>

\* POST /order; validate_order_intent's fields, whitelist, deviation and
\* magic are answered like the volume.
PostOrder(t, b) ==
    /\ Arrive(t, "order", b)
    /\ IF b.volume <= MaxVolume THEN Accept(t, b) ELSE End(t, "invalid")

PostOrderCheck(t, b) == Arrive(t, "order_check", b) /\ Accept(t, b)

\* A calculator is asked about a volume and prices, without levels.
PostOrderCalc(t, b) ==
    /\ b.sl = NoLevel /\ b.tp = NoLevel
    /\ Arrive(t, "order_calc", b)
    /\ Accept(t, b)

\* symbol_select() refused an order's symbol, or a read's.
NotSelectable(t) ==
    \/ SelectFails(t) /\ t \notin Posters /\ UNCHANGED orderVars
    \/ /\ SelectFails(t) /\ t \in Posters
       /\ IF body[t] = Nothing THEN UNCHANGED orderVars
          ELSE End(t, "unavailable") /\ UNCHANGED <<bid, route, fill, checked>>

Handles(t, r, label) ==
    /\ pc[t] = label /\ route[t] = r
    /\ UNCHANGED <<cached, market_watch, symbol, bid, route>>

\* order_check_endpoint's own rules, at one quote: neither the operator's
\* limits nor the price band, and nothing is rounded.
CheckAcceptsAnyLevels(b) ==
    /\ b.type \notin StopLimitTypes
    /\ b.volume > 0 /\ VolumeValid(b.volume, Info)
    /\ b.type \notin MarketTypes =>
         b.price > 0 /\ PendingPriceValid(b.type, b.price, bid, ask, Info)
CheckAccepts(b) ==
    LET at == IF b.type \in MarketTypes THEN MarketPrice(b.type) ELSE b.price
    IN  /\ b.type \notin StopLimitTypes
        /\ b.volume > 0 /\ VolumeValid(b.volume, Info)
        /\ b.type \notin MarketTypes =>
             b.price > 0 /\ PendingPriceValid(b.type, b.price, bid, ask, Info)
        /\ ProtectionValid(b.type, at, b.sl, b.tp)

OrderCheck(t) ==
    /\ Handles(t, "order_check", "valid")
    /\ \/ ~Quoted /\ End(t, "unavailable") /\ UNCHANGED checked
       \/ Quoted /\ ~CheckAccepts(body[t]) /\ End(t, "invalid") /\ UNCHANGED checked
       \/ CheckAccepts(body[t]) /\ Quoted /\ End(t, "refused") /\ UNCHANGED checked
       \/ /\ CheckAccepts(body[t]) /\ Quoted /\ End(t, "valid")
          /\ checked' = [checked EXCEPT ![t] = body[t]]
    /\ UNCHANGED fill

\* order_calc_margin and order_calc_profit.
CalcAccepts(b) == b.volume > 0 /\ b.price > 0 /\ VolumeValid(b.volume, Info)

OrderCalc(t) ==
    /\ Handles(t, "order_calc", "valid")
    /\ \/ CalcAccepts(body[t]) /\ End(t, "read")
       \/ End(t, "invalid")
    /\ UNCHANGED <<fill, checked>>

-----------------------------------------------------------------------------
(* send_market_order_endpoint, from the symbol to the trade server.  Each  *)
(* step is one IPC call; the market may move between two of them.          *)

Refuse(t, a) == End(t, a) /\ UNCHANGED <<fill, checked>>
Pass(t, label) == Goto(t, label) /\ UNCHANGED <<body, price, seen, outcome, checked>>

Volume(t) ==
    /\ Handles(t, "order", "valid")
    /\ \/ Refuse(t, "unavailable")
       \/ VolumeNormalizes(body[t].volume, Info) /\ Pass(t, "price")
       \/ ~VolumeNormalizes(body[t].volume, Info) /\ Refuse(t, "invalid")

Priced(t, p, label) ==
    /\ price' = [price EXCEPT ![t] = p]
    /\ Goto(t, label)
    /\ UNCHANGED <<body, seen, outcome, checked>>

\* The price of a market order is the quote, whatever the body says.
Price(t) ==
    /\ Handles(t, "order", "price") /\ body[t].type \in MarketTypes
    /\ IF Quoted
       THEN Priced(t, NormalizedPrice(MarketPrice(body[t].type), Info), "levels")
       ELSE Refuse(t, "unavailable")

PendingPrice(t) ==
    /\ Handles(t, "order", "price") /\ body[t].type \notin MarketTypes
    /\ LET p == NormalizedPrice(body[t].price, Info)
           valid == body[t].price > 0 /\ PendingPriceValid(body[t].type, p, bid, ask, Info)
       IN  \/ ~Quoted /\ Refuse(t, "unavailable")
           \/ Quoted /\ valid /\ Priced(t, p, "band")
           \/ Quoted /\ ~valid /\ Refuse(t, "invalid")

\* A second quote; without one the handler raises.
Band(t) ==
    /\ Handles(t, "order", "band")
    /\ LET near == WithinBand(price[t], BandQuote(body[t].type, bid, ask), BandPct)
       IN  \/ ~Quoted /\ Refuse(t, "unavailable")
           \/ Quoted /\ near /\ Pass(t, "levels")
           \/ Quoted /\ ~near /\ Refuse(t, "invalid")

Level(l) == IF l = NoLevel THEN NoLevel ELSE NormalizedPrice(l, Info)

LevelsRaw(t) ==
    /\ Handles(t, "order", "levels")
    /\ LET valid == ProtectionValid(body[t].type, price[t], body[t].sl, body[t].tp)
       IN  IF valid THEN Pass(t, "check") ELSE Refuse(t, "invalid")
Levels(t) ==
    /\ Handles(t, "order", "levels")
    /\ LET sl == Level(body[t].sl)
           tp == Level(body[t].tp)
           valid == /\ body[t].sl # 0 /\ body[t].tp # 0
                    /\ ProtectionValid(body[t].type, price[t], sl, tp)
       IN  IF valid THEN Pass(t, "check") ELSE Refuse(t, "invalid")

\* The broker's order_check, and the offset an expiration needs.
BrokerCheck(t) ==
    /\ Handles(t, "order", "check")
    /\ Pass(t, "send") \/ Refuse(t, "refused")

\* build_trade_request: what order_send is given.
TradeRequest(t) ==
    [type |-> body[t].type, volume |-> NormalizedVolume(body[t].volume, Info),
     price |-> price[t], sl |-> Level(body[t].sl), tp |-> Level(body[t].tp)]

\* A market order may be reported done with a fill price of 0.
OrderSend(t) ==
    /\ Handles(t, "order", "send")
    /\ \/ \E a \in {"refused", "unknown"} : Refuse(t, a)
       \/ /\ End(t, "ok")
          /\ fill' = [fill EXCEPT ![t] = IF body[t].type \in MarketTypes THEN price[t] ELSE 0]
          /\ UNCHANGED checked
       \/ /\ body[t].type \in MarketTypes
          /\ polls' = [polls EXCEPT ![t] = MaxPolls]
          /\ Goto(t, "fill")
          /\ UNCHANGED <<body, price, seen, answer, fill, checked>>

\* _resolve_async_fill: each poll looks for the deal, then for the position;
\* either may be missing or still without a price.
PollAnyDeal(t) ==
    /\ Handles(t, "order", "fill") /\ polls[t] > 0
    /\ \E known \in {0, price[t]} :
          End(t, "ok") /\ fill' = [fill EXCEPT ![t] = known]
    /\ UNCHANGED checked
Poll(t) ==
    /\ Handles(t, "order", "fill") /\ polls[t] > 0
    /\ \/ /\ polls' = [polls EXCEPT ![t] = @ - 1]
          /\ UNCHANGED <<pc, body, price, seen, answer, fill>>
       \/ End(t, "ok") /\ fill' = [fill EXCEPT ![t] = price[t]]
    /\ UNCHANGED checked

FillUnresolved(t) ==
    /\ Handles(t, "order", "fill") /\ polls[t] = 0
    /\ End(t, "ok_unresolved")
    /\ UNCHANGED <<fill, checked>>

-----------------------------------------------------------------------------

CacheStep(t) ==
    (Lookup(t) \/ Select(t) \/ Insert(t) \/ Invalidate(t)) /\ UNCHANGED orderVars

OrderStep(t) ==
    \/ OrderCheck(t) \/ OrderCalc(t)
    \/ Volume(t) \/ Price(t) \/ PendingPrice(t) \/ Band(t) \/ Levels(t)
    \/ BrokerCheck(t) \/ OrderSend(t) \/ Poll(t) \/ FillUnresolved(t)

Work(t) ==
    \/ CacheStep(t) \/ NotSelectable(t) \/ ReadSymbol(t) \/ ReadData(t)
    \/ t \in Posters /\ OrderStep(t)

Next ==
    \/ \E t \in Threads, s \in Symbols, r \in {"symbol", "data"} : Read(t, r, s)
    \/ \E t \in Posters, b \in Bodies :
          PostOrder(t, b) \/ PostOrderCheck(t, b) \/ PostOrderCalc(t, b)
    \/ \E t \in Threads : Work(t)
    \/ MarketMoves
    \/ TerminalRestart /\ UNCHANGED orderVars

Spec == Init /\ [][Next]_vars

\* A request that has begun runs on.
FairSpec == Spec /\ \A t \in Threads : WF_vars(Work(t))

-----------------------------------------------------------------------------
(* Safety.                                                                 *)

\* At the moment of order_send.
Sending(t) == pc[t] = "send"

\* However the market moved while the request was checked, what is sent is
\* never more than was asked for, is a lot the broker takes, and its price
\* is one the market showed since the request came, or a pending price that
\* was in the band and on its side of a quote shown since.
SentWithinLimits ==
    \A t \in Posters : Sending(t) =>
        LET r == TradeRequest(t)
            At(b) == WithinBand(r.price, BandQuote(r.type, b, b + Spread), BandPct)
            Side(b) == PendingPriceValid(r.type, r.price, b, b + Spread, Info)
        IN  /\ r.volume <= body[t].volume /\ r.volume <= MaxVolume
            /\ Info.volume_min <= r.volume /\ r.volume <= Info.volume_max
            /\ Info.volume_step > 0 => r.volume % Info.volume_step = 0
            /\ IF r.type \in MarketTypes
               THEN \E b \in seen[t] :
                       r.price = NormalizedPrice(IF r.type = "BUY" THEN b + Spread ELSE b, Info)
               ELSE (\E b \in seen[t] : At(b)) /\ (\E b \in seen[t] : Side(b))

\* The levels that are sent limit the loss and take the gain at the price
\* that is sent, whatever rounding did to the three; stop-limit orders, whose
\* levels are checked against the wrong side or the wrong price, are left out.
SentProtects ==
    \A t \in Posters : Sending(t) =>
        LET r == TradeRequest(t)
        IN  r.type \notin StopLimitTypes => Protects(r.type, r.price, r.sl, r.tp)

\* /order_check is a pre-trade check of POST /order: an order it found valid
\* is not refused by the rules of POST /order while the quote stands, if it
\* is on the broker's grids and within the operator's limits, which
\* /order_check does not look at.
OnGrids(b) ==
    /\ Info.volume_step > 0 => b.volume % Info.volume_step = 0
    /\ b.type \notin MarketTypes => b.price = NormalizedPrice(b.price, Info)
    /\ \A l \in {b.sl, b.tp} : l = Level(l)

OperatorAllows(b) ==
    /\ b.volume <= MaxVolume
    /\ b.type \notin MarketTypes => WithinBand(b.price, BandQuote(b.type, bid, ask), BandPct)

CheckedIsNotRefused ==
    [][\A t \in Posters :
        /\ answer[t] # "invalid" /\ answer'[t] = "invalid" /\ route'[t] = "order"
        /\ checked'[t] # Nothing /\ OnGrids(checked'[t])
        => ~OperatorAllows(checked'[t])]_vars

\* A market order answered as executed carries the price it was filled at,
\* or says that it does not know: the price is never a silent 0.
FilledMeansPriced ==
    [][\A t \in Posters :
        answer[t] # "ok" /\ answer'[t] = "ok" /\ body[t].type \in MarketTypes
            => fill'[t] > 0]_vars

(* Liveness.                                                               *)

\* Once the terminal stays up, reads of the symbol routes cure every stale
\* symbol for good: an insertion delayed across the restart, or an
\* invalidation that raced with it, is repaired by a later read.
SymbolsHeal ==
    (\A s \in Symbols : []<>(\E t \in Threads :
        pc[t] = "lookup" /\ symbol[t] = s /\ route[t] = "symbol"))
    => \A s \in Symbols : <>[]~Stale(s)
=============================================================================
