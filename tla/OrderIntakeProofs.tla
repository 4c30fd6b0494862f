--------------------------- MODULE OrderIntakeProofs ---------------------------
(***************************************************************************)
(* What POST /order hands the trade server is within the limits and        *)
(* protected, for any orders, quotes, symbol, number of threads and        *)
(* interleaving with the market; what /order_check and the answer to an    *)
(* executed order promise; when the symbol cache may be stale; and the     *)
(* arithmetic and the facts about sequences behind it.                     *)
(***************************************************************************)
EXTENDS OrderIntake, SequenceTheorems, TLAPS

-----------------------------------------------------------------------------
(* Arithmetic.                                                             *)

\* Euclidean division.
LEMMA DivMod ==
    ASSUME NEW v \in Int, NEW u \in Int, u > 0
    PROVE  /\ v \div u \in Int /\ v % u \in 0..(u - 1)
           /\ v = u * (v \div u) + (v % u)
  OBVIOUS

LEMMA MultipleMod ==
    ASSUME NEW q \in Int, NEW u \in Int, u > 0
    PROVE  (q * u) % u = 0
  OBVIOUS

\* normalize_volume rounds down to the step, by less than a step.
THEOREM RoundsDown ==
    ASSUME NEW v \in Int, NEW u \in Int, u > 0
    PROVE  /\ RoundDown(v, u) \in Int /\ RoundDown(v, u) % u = 0
           /\ RoundDown(v, u) <= v /\ v < RoundDown(v, u) + u
  BY DivMod, MultipleMod DEF RoundDown

\* normalize_price moves a price by at most half a tick, to a multiple of it.
THEOREM HalfUpNearest ==
    ASSUME NEW x \in Int, NEW u \in Int, u > 0
    PROVE  /\ HalfUp(x, u) \in Int /\ HalfUp(x, u) % u = 0
           /\ 2 * HalfUp(x, u) <= 2 * x + u /\ 2 * x - u < 2 * HalfUp(x, u)
<1> DEFINE q == (2 * x + u) \div (2 * u)
           m == (2 * x + u) % (2 * u)
<1>1. /\ q \in Int /\ m \in Int /\ 0 <= m /\ m < 2 * u
      /\ 2 * x + u = (2 * u) * q + m
  BY DivMod
<1>2. HalfUp(x, u) = q * u
  BY DEF HalfUp
<1>3. (q * u) % u = 0
  BY <1>1, MultipleMod
<1>4. q * u \in Int /\ (2 * u) * q = 2 * (q * u)
  BY <1>1
<1> HIDE DEF q, m
<1> QED
  BY <1>1, <1>2, <1>3, <1>4

-----------------------------------------------------------------------------
(* Types.                                                                  *)

LEMMA InitType == Init => OrderTypeOK
  BY OrderIntakeAssumption DEF Init, CacheInit, OrderTypeOK, Answers

\* The pieces the steps of an order route are made of.
LEMMA EndTyped ==
    ASSUME OrderTypeOK, NEW t \in Posters, NEW a \in Answers, End(t, a)
    PROVE  /\ pc' \in [Threads -> {"idle", "lookup", "select", "insert", "valid", "invalidate",
                                   "price", "band", "levels", "check", "send", "fill"}]
           /\ body' \in [Posters -> Bodies \cup {Nothing}]
           /\ price' \in [Posters -> Prices \cup {0}]
           /\ polls' \in [Posters -> 0..MaxPolls]
           /\ answer' \in [Posters -> Answers]
           /\ seen' \in [Posters -> SUBSET Bids]
  BY OrderIntakeAssumption DEF OrderTypeOK, End, Goto

LEMMA RefuseType ==
    ASSUME OrderTypeOK, NEW t \in Posters, NEW a \in Answers, Refuse(t, a), UNCHANGED <<bid, route>>
    PROVE  OrderTypeOK'
  BY EndTyped DEF OrderTypeOK, Refuse

LEMMA PassType ==
    ASSUME OrderTypeOK, NEW t \in Posters,
           NEW label \in {"price", "levels", "check", "send"},
           Pass(t, label), UNCHANGED <<bid, route>>
    PROVE  OrderTypeOK'
  BY DEF OrderTypeOK, Pass, Goto, outcome

LEMMA PricedType ==
    ASSUME OrderTypeOK, NEW t \in Posters, NEW p \in Prices, NEW label \in {"band", "levels"},
           Priced(t, p, label), UNCHANGED <<bid, route>>
    PROVE  OrderTypeOK'
  BY DEF OrderTypeOK, Priced, Goto, outcome

LEMMA ArriveType ==
    ASSUME OrderTypeOK, NEW t \in Posters, NEW b \in Bodies,
           NEW r \in {"order", "order_check", "order_calc"}, Arrive(t, r, b),
           Accept(t, b) \/ End(t, "invalid")
    PROVE  OrderTypeOK'
<1>1. /\ route' \in [Threads -> {"symbol", "data", "order", "order_check", "order_calc"}]
      /\ fill' \in [Posters -> Prices \cup {0}]
      /\ checked' \in [Posters -> Bodies \cup {Nothing}]
      /\ bid' \in Bids
  BY DEF OrderTypeOK, Arrive
<1>2. CASE Accept(t, b)
  BY <1>1, <1>2 DEF OrderTypeOK, Accept, Goto, Answers
<1>3. CASE End(t, "invalid")
  BY <1>1, <1>3, EndTyped DEF OrderTypeOK, Answers
<1> QED
  BY <1>2, <1>3

LEMMA OrderStepType ==
    ASSUME OrderTypeOK, NEW t \in Posters, body[t] # Nothing, OrderStep(t)
    PROVE  OrderTypeOK'
<1> USE DEF Answers
<1>1. CASE OrderCheck(t)
  <2>1. UNCHANGED <<bid, route, fill>> /\ \E a \in Answers : End(t, a)
    BY <1>1 DEF OrderCheck, Handles
  <2>2. checked' \in [Posters -> Bodies \cup {Nothing}]
    BY <1>1 DEF OrderCheck, OrderTypeOK
  <2> QED
    BY <2>1, <2>2, EndTyped DEF OrderTypeOK
<1>2. CASE OrderCalc(t)
  <2>1. UNCHANGED <<bid, route, fill, checked>> /\ \E a \in Answers : End(t, a)
    BY <1>2 DEF OrderCalc, Handles
  <2> QED
    BY <2>1, EndTyped DEF OrderTypeOK
<1>3. CASE Volume(t)
  BY <1>3, RefuseType, PassType DEF Volume, Handles
<1>4. CASE Price(t)
  <2>1. NormalizedPrice(MarketPrice(body[t].type), Info) \in Prices
    <3>1. bid \in Bids /\ bid + 0 = bid
      BY OrderIntakeAssumption DEF OrderTypeOK
    <3> QED
      BY <3>1 DEF Prices, MarketPrice, ask
  <2> QED
    BY <1>4, <2>1, RefuseType, PricedType DEF Price, Handles
<1>5. CASE PendingPrice(t)
  <2>1. body[t] \in Bodies
    BY DEF OrderTypeOK
  <2>2. NormalizedPrice(body[t].price, Info) \in Prices
    BY <2>1 DEF Prices
  <2> QED
    BY <1>5, <2>2, RefuseType, PricedType DEF PendingPrice, Handles
<1>6. CASE Band(t)
  BY <1>6, RefuseType, PassType DEF Band, Handles
<1>7. CASE Levels(t)
  BY <1>7, RefuseType, PassType DEF Levels, Handles
<1>8. CASE BrokerCheck(t)
  BY <1>8, RefuseType, PassType DEF BrokerCheck, Handles
<1>9. CASE OrderSend(t)
  <2>1. UNCHANGED <<bid, route>>
    BY <1>9 DEF OrderSend, Handles
  <2>2. CASE \E a \in {"refused", "unknown"} : Refuse(t, a)
    BY <2>1, <2>2, RefuseType
  <2>3. CASE /\ End(t, "ok")
             /\ fill' = [fill EXCEPT ![t] = IF body[t].type \in MarketTypes THEN price[t] ELSE 0]
             /\ UNCHANGED checked
    BY <2>1, <2>3, EndTyped DEF OrderTypeOK
  <2>4. CASE /\ polls' = [polls EXCEPT ![t] = MaxPolls]
             /\ Goto(t, "fill")
             /\ UNCHANGED <<body, price, seen, answer, fill, checked>>
    BY <2>1, <2>4, OrderIntakeAssumption DEF OrderTypeOK, Goto
  <2> QED
    BY <1>9, <2>2, <2>3, <2>4 DEF OrderSend
<1>10. CASE Poll(t)
  <2>1. UNCHANGED <<bid, route, checked>> /\ polls[t] > 0
    BY <1>10 DEF Poll, Handles
  <2>2. CASE /\ polls' = [polls EXCEPT ![t] = @ - 1]
             /\ UNCHANGED <<pc, body, price, seen, answer, fill>>
    BY <2>1, <2>2, OrderIntakeAssumption DEF OrderTypeOK
  <2>3. CASE End(t, "ok") /\ fill' = [fill EXCEPT ![t] = price[t]]
    BY <2>1, <2>3, EndTyped DEF OrderTypeOK
  <2> QED
    BY <1>10, <2>2, <2>3 DEF Poll
<1>11. CASE FillUnresolved(t)
  BY <1>11, EndTyped DEF FillUnresolved, Handles, OrderTypeOK
<1> QED
  BY <1>1, <1>2, <1>3, <1>4, <1>5, <1>6, <1>7, <1>8, <1>9, <1>10, <1>11 DEF OrderStep

-----------------------------------------------------------------------------
(* What holds of a request at each of its steps.                           *)

OrderRoutes == {"order", "order_check", "order_calc"}

Shown(t, p) ==
    \E b \in seen[t] :
        p = NormalizedPrice(IF body[t].type = "BUY" THEN b + Spread ELSE b, Info)
Banded(t, p) == \E b \in seen[t] : WithinBand(p, BandQuote(body[t].type, b, b + Spread), BandPct)
Sided(t, p) == \E b \in seen[t] : PendingPriceValid(body[t].type, p, b, b + Spread, Info)

\* The request is an order, of a volume that may be sent.
Admitted(t) ==
    /\ pc[t] # "idle" /\ route[t] \in OrderRoutes => body[t] # Nothing
    /\ pc[t] # "idle" /\ route[t] = "order" => body[t].volume <= MaxVolume
    /\ pc[t] \in {"price", "band", "levels", "check", "send"} =>
         route[t] = "order" /\ VolumeNormalizes(body[t].volume, Info)

\* The present quote counts as shown.
SeesQuote(t) == body[t] # Nothing => bid \in seen[t]

\* Its price comes from quotes shown since it arrived.
PriceJudged(t) ==
    /\ pc[t] = "band" => body[t].type \notin MarketTypes
    /\ pc[t] \in {"levels", "check", "send"} /\ body[t].type \in MarketTypes => Shown(t, price[t])
    /\ pc[t] \in {"band", "levels", "check", "send"} /\ body[t].type \notin MarketTypes =>
         Sided(t, price[t])
    /\ pc[t] \in {"levels", "check", "send"} /\ body[t].type \notin MarketTypes =>
         Banded(t, price[t])

\* Its levels were judged at its price, after rounding.
LevelsJudged(t) ==
    pc[t] \in {"check", "send"} =>
        ProtectionValid(body[t].type, price[t], Level(body[t].sl), Level(body[t].tp))

RequestInv(t) == Admitted(t) /\ SeesQuote(t) /\ PriceJudged(t) /\ LevelsJudged(t)
IntakeInv == \A t \in Posters : RequestInv(t)

LEMMA InitIntake == Init => IntakeInv
  BY OrderIntakeAssumption
     DEF Init, CacheInit, IntakeInv, RequestInv, Admitted, SeesQuote, PriceJudged, LevelsJudged

\* A request whose locals and quote stay keeps what holds of it.
LEMMA Untouched ==
    ASSUME NEW t \in Posters, RequestInv(t), bid' = bid,
           pc'[t] = pc[t], route'[t] = route[t], body'[t] = body[t],
           price'[t] = price[t], seen'[t] = seen[t]
    PROVE  RequestInv(t)'
<1>1. Admitted(t)' /\ SeesQuote(t)'
  BY DEF RequestInv, Admitted, SeesQuote
<1>2. /\ Shown(t, price[t]) => Shown(t, price[t])'
      /\ Sided(t, price[t]) => Sided(t, price[t])'
      /\ Banded(t, price[t]) => Banded(t, price[t])'
  BY DEF Shown, Sided, Banded
<1>3. PriceJudged(t)'
  BY <1>2 DEF RequestInv, PriceJudged
<1>4. LevelsJudged(t)'
  BY DEF RequestInv, LevelsJudged, Level
<1> QED
  BY <1>1, <1>3, <1>4 DEF RequestInv

\* A request at none of the steps of an order.
LEMMA Elsewhere ==
    ASSUME NEW t \in Posters, RequestInv(t), bid' = bid,
           pc'[t] \in {"idle", "lookup", "select", "insert", "valid", "invalidate", "fill"},
           pc[t] # "idle" \/ pc'[t] = "idle",
           route'[t] = route[t], body'[t] = body[t], seen'[t] = seen[t]
    PROVE  RequestInv(t)'
  BY DEF RequestInv, Admitted, SeesQuote, PriceJudged, LevelsJudged

LEMMA Ended ==
    ASSUME OrderTypeOK, NEW t \in Posters, NEW a, End(t, a)
    PROVE  RequestInv(t)'
<1>1. pc'[t] = "idle" /\ body'[t] = Nothing
  BY OrderIntakeAssumption DEF OrderTypeOK, End, Goto
<1> QED
  BY <1>1 DEF RequestInv, Admitted, SeesQuote, PriceJudged, LevelsJudged

\* The other requests, when one ends or goes on.
OnlyOf(t) ==
    \A u \in Posters : u # t =>
        /\ pc'[u] = pc[u] /\ route'[u] = route[u] /\ body'[u] = body[u]
        /\ price'[u] = price[u] /\ seen'[u] = seen[u]

LEMMA StepOf ==
    ASSUME IntakeInv, NEW t \in Posters, OnlyOf(t), bid' = bid, RequestInv(t)'
    PROVE  IntakeInv'
  BY Untouched DEF IntakeInv, OnlyOf

LEMMA OrderStepIntake ==
    ASSUME OrderTypeOK, IntakeInv, NEW t \in Posters, OrderStep(t)
    PROVE  IntakeInv'
<1>1. RequestInv(t)
  BY DEF IntakeInv
<1>2. bid' = bid /\ route' = route
  BY DEF OrderStep, OrderCheck, OrderCalc, Volume, Price, PendingPrice, Band, Levels, BrokerCheck,
         OrderSend, Poll, FillUnresolved, Handles
<1>3. ASSUME NEW a, End(t, a)
      PROVE  IntakeInv'
  <2>1. OnlyOf(t)
    BY <1>2, <1>3 DEF OnlyOf, End, Goto, OrderTypeOK
  <2> QED
    BY <1>2, <1>3, <2>1, Ended, StepOf
<1>4. ASSUME NEW a, Refuse(t, a)
      PROVE  IntakeInv'
  BY <1>3, <1>4 DEF Refuse
<1>5. ASSUME NEW label, Pass(t, label)
      PROVE  /\ OnlyOf(t) /\ pc'[t] = label
             /\ UNCHANGED <<body, price, seen>>
  BY <1>2, <1>5, OrderIntakeAssumption DEF OnlyOf, Pass, Goto, OrderTypeOK
<1>6. ASSUME NEW p, NEW label, Priced(t, p, label)
      PROVE  /\ OnlyOf(t) /\ pc'[t] = label /\ price'[t] = p
             /\ UNCHANGED <<body, seen>>
  BY <1>2, <1>6, OrderIntakeAssumption DEF OnlyOf, Priced, Goto, OrderTypeOK
<1>7. CASE OrderCheck(t) \/ OrderCalc(t) \/ FillUnresolved(t)
  BY <1>3, <1>7 DEF OrderCheck, OrderCalc, FillUnresolved
<1>8. CASE Volume(t)
  <2>1. CASE Pass(t, "price") /\ VolumeNormalizes(body[t].volume, Info)
    <3>1. route[t] = "order" /\ pc[t] = "valid"
      BY <1>8 DEF Volume, Handles
    <3>2. RequestInv(t)'
      BY <1>1, <1>2, <1>5, <2>1, <3>1
         DEF RequestInv, Admitted, SeesQuote, PriceJudged, LevelsJudged
    <3> QED
      BY <1>2, <1>5, <2>1, <3>2, StepOf
  <2> QED
    BY <1>4, <1>8, <2>1 DEF Volume
<1>9. CASE Price(t)
  <2> DEFINE p == NormalizedPrice(MarketPrice(body[t].type), Info)
  <2>1. CASE Priced(t, p, "levels")
    <3>1. /\ route[t] = "order" /\ pc[t] = "price" /\ body[t].type \in MarketTypes
          /\ body[t] # Nothing /\ bid \in seen[t]
      BY <1>1, <1>9 DEF Price, Handles, RequestInv, Admitted, SeesQuote, OrderRoutes
    <3>2. MarketPrice(body[t].type) = IF body[t].type = "BUY" THEN bid + Spread ELSE bid
      BY DEF MarketPrice, ask
    <3>3. Shown(t, price[t])'
      <4>1. /\ price'[t] = NormalizedPrice(IF body[t].type = "BUY" THEN bid + Spread ELSE bid, Info)
            /\ seen' = seen /\ body' = body
        BY <1>6, <2>1, <3>2
      <4> QED
        BY <3>1, <4>1 DEF Shown
    <3>4. Admitted(t)' /\ SeesQuote(t)'
      BY <1>1, <1>2, <1>6, <2>1, <3>1 DEF RequestInv, Admitted, SeesQuote
    <3>5. PriceJudged(t)'
      BY <1>6, <2>1, <3>1, <3>3 DEF PriceJudged
    <3>6. LevelsJudged(t)'
      BY <1>6, <2>1 DEF LevelsJudged
    <3> QED
      BY <1>2, <1>6, <2>1, <3>4, <3>5, <3>6, StepOf DEF RequestInv
  <2> QED
    BY <1>4, <1>9, <2>1 DEF Price
<1>10. CASE PendingPrice(t)
  <2> DEFINE p == NormalizedPrice(body[t].price, Info)
  <2>1. CASE Priced(t, p, "band") /\ PendingPriceValid(body[t].type, p, bid, ask, Info)
    <3>1. /\ route[t] = "order" /\ pc[t] = "price" /\ body[t].type \notin MarketTypes
          /\ body[t] # Nothing /\ bid \in seen[t]
      BY <1>1, <1>10 DEF PendingPrice, Handles, RequestInv, Admitted, SeesQuote, OrderRoutes
    <3>2. (Sided(t, p))'
      BY <1>6, <2>1, <3>1 DEF Sided, ask
    <3>3. Admitted(t)' /\ SeesQuote(t)'
      BY <1>1, <1>2, <1>6, <2>1, <3>1 DEF RequestInv, Admitted, SeesQuote
    <3>4. PriceJudged(t)'
      BY <1>6, <2>1, <3>1, <3>2 DEF PriceJudged, Sided
    <3>5. LevelsJudged(t)'
      BY <1>6, <2>1 DEF LevelsJudged
    <3> QED
      BY <1>2, <1>6, <2>1, <3>3, <3>4, <3>5, StepOf DEF RequestInv
  <2> QED
    BY <1>4, <1>10, <2>1 DEF PendingPrice
<1>11. CASE Band(t)
  <2>1. CASE /\ Pass(t, "levels")
             /\ WithinBand(price[t], BandQuote(body[t].type, bid, ask), BandPct)
    <3>1. /\ route[t] = "order" /\ pc[t] = "band" /\ body[t].type \notin MarketTypes
          /\ body[t] # Nothing /\ bid \in seen[t]
      BY <1>1, <1>11 DEF Band, Handles, RequestInv, Admitted, SeesQuote, PriceJudged, OrderRoutes
    <3>2. Banded(t, price[t])' /\ Sided(t, price[t])'
      <4>1. Banded(t, price[t])'
        BY <1>5, <2>1, <3>1 DEF Banded, ask
      <4>2. Sided(t, price[t])
        BY <1>1, <3>1 DEF RequestInv, PriceJudged
      <4>3. Sided(t, price[t])'
        BY <1>5, <2>1, <4>2 DEF Sided
      <4> QED
        BY <4>1, <4>3
    <3>3. Admitted(t)' /\ SeesQuote(t)'
      BY <1>1, <1>2, <1>5, <2>1, <3>1 DEF RequestInv, Admitted, SeesQuote
    <3>4. PriceJudged(t)'
      BY <1>5, <2>1, <3>1, <3>2 DEF PriceJudged
    <3>5. LevelsJudged(t)'
      BY <1>5, <2>1 DEF LevelsJudged
    <3> QED
      BY <1>2, <1>5, <2>1, <3>3, <3>4, <3>5, StepOf DEF RequestInv
  <2> QED
    BY <1>4, <1>11, <2>1 DEF Band
<1>12. CASE Levels(t)
  <2>1. CASE /\ Pass(t, "check")
             /\ ProtectionValid(body[t].type, price[t], Level(body[t].sl), Level(body[t].tp))
    <3>1. pc[t] = "levels"
      BY <1>12 DEF Levels, Handles
    <3>2. Admitted(t)' /\ SeesQuote(t)'
      BY <1>1, <1>2, <1>5, <2>1, <3>1 DEF RequestInv, Admitted, SeesQuote
    <3>3. PriceJudged(t)'
      <4>1. /\ Shown(t, price[t]) => Shown(t, price[t])'
            /\ Sided(t, price[t]) => Sided(t, price[t])'
            /\ Banded(t, price[t]) => Banded(t, price[t])'
        BY <1>5, <2>1 DEF Shown, Sided, Banded
      <4> QED
        BY <1>1, <1>5, <2>1, <3>1, <4>1 DEF RequestInv, PriceJudged
    <3>4. LevelsJudged(t)'
      BY <1>5, <2>1 DEF LevelsJudged, Level
    <3> QED
      BY <1>2, <1>5, <2>1, <3>2, <3>3, <3>4, StepOf DEF RequestInv
  <2> QED
    BY <1>4, <1>12, <2>1 DEF Levels
<1>13. CASE BrokerCheck(t)
  <2>1. CASE Pass(t, "send")
    <3>1. pc[t] = "check"
      BY <1>13 DEF BrokerCheck, Handles
    <3>2. Admitted(t)' /\ SeesQuote(t)'
      BY <1>1, <1>2, <1>5, <2>1, <3>1 DEF RequestInv, Admitted, SeesQuote
    <3>3. PriceJudged(t)'
      <4>1. /\ Shown(t, price[t]) => Shown(t, price[t])'
            /\ Sided(t, price[t]) => Sided(t, price[t])'
            /\ Banded(t, price[t]) => Banded(t, price[t])'
        BY <1>5, <2>1 DEF Shown, Sided, Banded
      <4> QED
        BY <1>1, <1>5, <2>1, <3>1, <4>1 DEF RequestInv, PriceJudged
    <3>4. LevelsJudged(t)'
      BY <1>1, <1>5, <2>1, <3>1 DEF RequestInv, LevelsJudged, Level
    <3> QED
      BY <1>2, <1>5, <2>1, <3>2, <3>3, <3>4, StepOf DEF RequestInv
  <2> QED
    BY <1>4, <1>13, <2>1 DEF BrokerCheck
<1>14. CASE OrderSend(t)
  <2>1. CASE Goto(t, "fill") /\ UNCHANGED <<body, price, seen>>
    <3>1. OnlyOf(t) /\ pc'[t] = "fill"
      BY <1>2, <2>1, OrderIntakeAssumption DEF OnlyOf, Goto, OrderTypeOK
    <3>2. pc[t] = "send"
      BY <1>14 DEF OrderSend, Handles
    <3> QED
      BY <1>1, <1>2, <2>1, <3>1, <3>2, Elsewhere, StepOf
  <2> QED
    BY <1>3, <1>4, <1>14, <2>1 DEF OrderSend
<1>15. CASE Poll(t)
  <2>1. CASE UNCHANGED <<pc, body, price, seen>>
    BY <1>2, <2>1, Untouched DEF IntakeInv
  <2> QED
    BY <1>3, <1>15, <2>1 DEF Poll
<1> QED
  BY <1>7, <1>8, <1>9, <1>10, <1>11, <1>12, <1>13, <1>14, <1>15 DEF OrderStep

\* A step that only moves a thread between the steps before an order's.
LEMMA MovesOn ==
    ASSUME OrderTypeOK, IntakeInv, NEW t \in Threads, pc[t] # "idle",
           NEW label \in {"idle", "lookup", "select", "insert", "valid", "invalidate"},
           Goto(t, label), UNCHANGED orderVars
    PROVE  OrderTypeOK' /\ IntakeInv'
<1>1. OrderTypeOK'
  BY DEF OrderTypeOK, Goto, orderVars
<1>2. CASE t \in Posters
  <2>1. OnlyOf(t) /\ pc'[t] = label
    BY DEF OnlyOf, Goto, OrderTypeOK, orderVars
  <2>2. RequestInv(t)'
    BY <1>2, <2>1, Elsewhere DEF IntakeInv, orderVars
  <2> QED
    BY <1>1, <1>2, <2>1, <2>2, StepOf DEF orderVars
<1>3. CASE t \notin Posters
  <2>1. \A u \in Posters : pc'[u] = pc[u]
    BY <1>3, OrderIntakeAssumption DEF Goto, OrderTypeOK
  <2> QED
    BY <1>1, <2>1, Untouched DEF IntakeInv, orderVars
<1> QED
  BY <1>2, <1>3

LEMMA WorkIntake ==
    ASSUME OrderTypeOK, IntakeInv, NEW t \in Threads, Work(t)
    PROVE  OrderTypeOK' /\ IntakeInv'
<1>1. CASE CacheStep(t)
  <2>1. /\ pc[t] # "idle" /\ UNCHANGED orderVars
        /\ \E label \in {"idle", "lookup", "select", "insert", "valid", "invalidate"} :
              Goto(t, label)
    BY <1>1 DEF CacheStep, Lookup, Select, Insert, Invalidate
  <2> QED
    BY <2>1, MovesOn
<1>2. CASE NotSelectable(t)
  <2>1. pc[t] = "select" /\ Goto(t, "idle")
    BY <1>2 DEF NotSelectable, SelectFails
  <2>2. CASE UNCHANGED orderVars
    BY <2>1, <2>2, MovesOn
  <2>3. CASE t \in Posters /\ End(t, "unavailable") /\ UNCHANGED <<bid, route, fill, checked>>
    <3>1. OrderTypeOK'
      BY <2>3, EndTyped DEF OrderTypeOK, Answers
    <3>2. OnlyOf(t)
      BY <2>3, OrderIntakeAssumption DEF OnlyOf, End, Goto, OrderTypeOK
    <3> QED
      BY <2>3, <3>1, <3>2, Ended, StepOf
  <2> QED
    BY <1>2, <2>2, <2>3 DEF NotSelectable
<1>3. CASE ReadSymbol(t) \/ ReadData(t)
  <2>1. /\ pc[t] = "valid" /\ UNCHANGED orderVars
        /\ Goto(t, "invalidate") \/ Goto(t, "idle")
    BY <1>3 DEF ReadSymbol, ReadData
  <2> QED
    BY <2>1, MovesOn
<1>4. CASE t \in Posters /\ OrderStep(t)
  <2>1. body[t] # Nothing
    BY <1>4 DEF IntakeInv, RequestInv, Admitted, OrderRoutes, OrderStep, OrderCheck, OrderCalc,
                Volume, Price, PendingPrice, Band, Levels, BrokerCheck, OrderSend, Poll,
                FillUnresolved, Handles
  <2> QED
    BY <1>4, <2>1, OrderStepType, OrderStepIntake
<1> QED
  BY <1>1, <1>2, <1>3, <1>4 DEF Work

LEMMA ArriveIntake ==
    ASSUME OrderTypeOK, IntakeInv, NEW t \in Posters, NEW b \in Bodies, NEW r \in OrderRoutes,
           Arrive(t, r, b), Accept(t, b) \/ End(t, "invalid"),
           r = "order" /\ Accept(t, b) => b.volume <= MaxVolume
    PROVE  OrderTypeOK' /\ IntakeInv'
<1>1. OrderTypeOK'
  BY ArriveType DEF OrderRoutes
<1>2. bid' = bid /\ pc[t] = "idle" /\ route'[t] = r
  BY OrderIntakeAssumption DEF Arrive, OrderTypeOK
<1>3. OnlyOf(t)
  BY OrderIntakeAssumption DEF OnlyOf, Arrive, Accept, End, Goto, OrderTypeOK
<1>4. CASE End(t, "invalid")
  BY <1>1, <1>2, <1>3, <1>4, Ended, StepOf
<1>5. CASE Accept(t, b)
  <2>1. pc'[t] = "lookup" /\ body'[t] = b /\ seen'[t] = {bid}
    BY <1>5, OrderIntakeAssumption DEF Accept, Goto, OrderTypeOK
  <2>2. b # Nothing
    BY OrderIntakeAssumption
  <2>3. RequestInv(t)'
    BY <1>2, <1>5, <2>1, <2>2
       DEF RequestInv, Admitted, SeesQuote, PriceJudged, LevelsJudged
  <2> QED
    BY <1>1, <1>2, <1>3, <2>3, StepOf
<1> QED
  BY <1>4, <1>5

LEMMA NextIntake == OrderTypeOK /\ IntakeInv /\ [Next]_vars => OrderTypeOK' /\ IntakeInv'
<1> SUFFICES ASSUME OrderTypeOK, IntakeInv, [Next]_vars PROVE OrderTypeOK' /\ IntakeInv'
  OBVIOUS
<1>1. ASSUME NEW t \in Threads, NEW s \in Symbols, NEW r \in {"symbol", "data"}, Read(t, r, s)
      PROVE  OrderTypeOK' /\ IntakeInv'
  <2>1. OrderTypeOK'
    BY <1>1 DEF OrderTypeOK, Read, Goto, outcome
  <2>2. UNCHANGED <<bid, body, price, seen>> /\ pc[t] = "idle"
    BY <1>1 DEF Read, outcome
  <2>3. \A u \in Posters : u # t => pc'[u] = pc[u] /\ route'[u] = route[u]
    BY <1>1, OrderIntakeAssumption DEF Read, Goto, OrderTypeOK
  <2>4. CASE t \in Posters
    <3>1. pc'[t] = "lookup" /\ route'[t] \in {"symbol", "data"}
      BY <1>1 DEF Read, Goto, OrderTypeOK
    <3>2. RequestInv(t)'
      BY <2>2, <2>4, <3>1
         DEF IntakeInv, RequestInv, Admitted, SeesQuote, PriceJudged, LevelsJudged, OrderRoutes
    <3>3. OnlyOf(t)
      BY <2>2, <2>3 DEF OnlyOf
    <3> QED
      BY <2>1, <2>2, <2>4, <3>2, <3>3, StepOf
  <2>5. CASE t \notin Posters
    BY <2>1, <2>2, <2>3, <2>5, Untouched DEF IntakeInv
  <2> QED
    BY <2>4, <2>5
<1>2. ASSUME NEW t \in Posters, NEW b \in Bodies,
             PostOrder(t, b) \/ PostOrderCheck(t, b) \/ PostOrderCalc(t, b)
      PROVE  OrderTypeOK' /\ IntakeInv'
  <2>1. CASE PostOrder(t, b)
    <3>1. Arrive(t, "order", b) /\ ((b.volume <= MaxVolume /\ Accept(t, b)) \/ End(t, "invalid"))
      BY <2>1 DEF PostOrder
    <3>2. End(t, "invalid") => ~Accept(t, b)
      BY OrderIntakeAssumption DEF End, Accept, Goto, OrderTypeOK
    <3> QED
      BY <3>1, <3>2, ArriveIntake DEF OrderRoutes
  <2>2. CASE PostOrderCheck(t, b)
    BY <2>2, ArriveIntake DEF PostOrderCheck, OrderRoutes
  <2>3. CASE PostOrderCalc(t, b)
    BY <2>3, ArriveIntake DEF PostOrderCalc, OrderRoutes
  <2> QED
    BY <1>2, <2>1, <2>2, <2>3
<1>3. ASSUME NEW t \in Threads, Work(t)
      PROVE  OrderTypeOK' /\ IntakeInv'
  BY <1>3, WorkIntake
<1>4. CASE MarketMoves
  <2>1. /\ bid' \in Bids
        /\ UNCHANGED <<pc, route, body, price, polls, answer, fill>>
        /\ seen' = [t \in Posters |-> IF body[t] = Nothing THEN {} ELSE seen[t] \cup {bid'}]
        /\ checked' = [t \in Posters |-> Nothing]
    BY <1>4 DEF MarketMoves, cacheVars, outcome
  <2>2. OrderTypeOK'
    BY <2>1 DEF OrderTypeOK
  <2>3. ASSUME NEW t \in Posters PROVE RequestInv(t)'
    <3>1. CASE body[t] = Nothing
      <4>1. pc[t] \notin {"price", "band", "levels", "check", "send"}
        BY <3>1 DEF IntakeInv, RequestInv, Admitted, OrderRoutes
      <4> QED
        BY <2>1, <2>3, <3>1, <4>1
           DEF IntakeInv, RequestInv, Admitted, SeesQuote, PriceJudged, LevelsJudged
    <3>2. CASE body[t] # Nothing
      <4>1. seen[t] \subseteq seen'[t] /\ bid' \in seen'[t]
        BY <2>1, <3>2
      <4>2. Admitted(t)' /\ SeesQuote(t)'
        BY <2>1, <2>3, <4>1 DEF IntakeInv, RequestInv, Admitted, SeesQuote
      <4>3. /\ Shown(t, price[t]) => Shown(t, price[t])'
            /\ Sided(t, price[t]) => Sided(t, price[t])'
            /\ Banded(t, price[t]) => Banded(t, price[t])'
        BY <2>1, <4>1 DEF Shown, Sided, Banded
      <4>4. PriceJudged(t)'
        BY <2>1, <2>3, <4>3 DEF IntakeInv, RequestInv, PriceJudged
      <4>5. LevelsJudged(t)'
        BY <2>1, <2>3 DEF IntakeInv, RequestInv, LevelsJudged, Level
      <4> QED
        BY <4>2, <4>4, <4>5 DEF RequestInv
    <3> QED
      BY <3>1, <3>2
  <2> QED
    BY <2>2, <2>3 DEF IntakeInv
<1>5. CASE TerminalRestart /\ UNCHANGED orderVars
  <2>1. UNCHANGED <<pc, orderVars>>
    BY <1>5 DEF TerminalRestart
  <2>2. OrderTypeOK'
    BY <2>1 DEF OrderTypeOK, orderVars
  <2> QED
    BY <2>1, <2>2, Untouched DEF IntakeInv, orderVars
<1>6. CASE UNCHANGED vars
  <2>1. UNCHANGED <<pc, orderVars>>
    BY <1>6 DEF vars, cacheVars
  <2>2. OrderTypeOK'
    BY <2>1 DEF OrderTypeOK, orderVars
  <2> QED
    BY <2>1, <2>2, Untouched DEF IntakeInv, orderVars
<1> QED
  BY <1>1, <1>2, <1>3, <1>4, <1>5, <1>6 DEF Next

\* The requests and the market keep their types.
THEOREM TypeCorrect == Spec => []OrderTypeOK
<1>1. Init => OrderTypeOK /\ IntakeInv
  BY InitType, InitIntake
<1> QED
  BY <1>1, NextIntake, PTL DEF Spec

-----------------------------------------------------------------------------
(* What is sent.                                                           *)

\* The levels that are sent limit the loss and take the gain at the price
\* that is sent, for every order but a stop-limit order.
THEOREM SentIsProtected == Spec => []SentProtects
<1>1. OrderTypeOK /\ IntakeInv => SentProtects
  <2> SUFFICES ASSUME OrderTypeOK, IntakeInv, NEW t \in Posters, pc[t] = "send",
                      body[t].type \notin StopLimitTypes
               PROVE  Protects(body[t].type, price[t], Level(body[t].sl), Level(body[t].tp))
    BY DEF SentProtects, Sending, TradeRequest
  <2>1. ProtectionValid(body[t].type, price[t], Level(body[t].sl), Level(body[t].tp))
    BY DEF IntakeInv, RequestInv, LevelsJudged
  <2>2. body[t].type \in RatedAsBuy <=> body[t].type \in BuyTypes
    <3>1. body[t] \in Bodies
      BY DEF IntakeInv, RequestInv, Admitted, OrderRoutes, OrderTypeOK
    <3>2. body[t].type \in OrderTypes
      BY <3>1, OrderIntakeAssumption
    <3> QED
      BY <3>2 DEF OrderTypes, StopLimitTypes, RatedAsBuy, BuyTypes
  <2> QED
    BY <2>1, <2>2 DEF ProtectionValid, StopLossValid, TakeProfitValid, Protects, NoLevel
<1>2. Init => OrderTypeOK /\ IntakeInv
  BY InitType, InitIntake
<1> QED
  BY <1>1, <1>2, NextIntake, PTL DEF Spec

\* What is sent is no more than was asked for, a lot the broker takes, and
\* priced by quotes shown since the request came.
THEOREM SentIsWithinLimits == Spec => []SentWithinLimits
<1>1. OrderTypeOK /\ IntakeInv => SentWithinLimits
  <2> SUFFICES ASSUME OrderTypeOK, IntakeInv, NEW t \in Posters, pc[t] = "send"
               PROVE  LET v == NormalizedVolume(body[t].volume, Info)
                          At(b) == WithinBand(price[t], BandQuote(body[t].type, b, b + Spread), BandPct)
                          Side(b) == PendingPriceValid(body[t].type, price[t], b, b + Spread, Info)
                      IN  /\ v <= body[t].volume /\ v <= MaxVolume
                          /\ Info.volume_min <= v /\ v <= Info.volume_max
                          /\ Info.volume_step > 0 => v % Info.volume_step = 0
                          /\ IF body[t].type \in MarketTypes
                             THEN \E b \in seen[t] :
                                     price[t] = NormalizedPrice(
                                         IF body[t].type = "BUY" THEN b + Spread ELSE b, Info)
                             ELSE (\E b \in seen[t] : At(b)) /\ (\E b \in seen[t] : Side(b))
    BY DEF SentWithinLimits, Sending, TradeRequest
  <2>1. body[t] \in Bodies /\ body[t].volume <= MaxVolume /\ VolumeNormalizes(body[t].volume, Info)
    BY DEF IntakeInv, RequestInv, Admitted, OrderRoutes, OrderTypeOK
  <2> DEFINE v == body[t].volume
             n == NormalizedVolume(v, Info)
  <2>2. /\ v \in Int /\ MaxVolume \in Int
        /\ Info.volume_min \in Int /\ Info.volume_max \in Int /\ Info.volume_step \in Int
    BY <2>1, OrderIntakeAssumption
  <2>3. /\ n \in Int /\ n <= v
        /\ Info.volume_step > 0 => n % Info.volume_step = 0
    <3>1. CASE Info.volume_step > 0
      <4>1. n = RoundDown(v, Info.volume_step)
        BY <2>2, <3>1 DEF NormalizedVolume
      <4> QED
        BY <2>2, <3>1, <4>1, RoundsDown
    <3>2. CASE ~(Info.volume_step > 0)
      BY <2>2, <3>2 DEF NormalizedVolume
    <3> QED
      BY <3>1, <3>2
  <2>4. v <= Info.volume_max /\ Info.volume_min <= n /\ v <= MaxVolume
    BY <2>1 DEF VolumeNormalizes
  <2>5. n <= MaxVolume /\ n <= Info.volume_max
    <3> HIDE DEF v, n
    <3> QED
      BY <2>2, <2>3, <2>4
  <2>6. IF body[t].type \in MarketTypes THEN Shown(t, price[t])
        ELSE Banded(t, price[t]) /\ Sided(t, price[t])
    BY DEF IntakeInv, RequestInv, PriceJudged
  <2> QED
    BY <2>3, <2>4, <2>5, <2>6 DEF Shown, Banded, Sided
<1>2. Init => OrderTypeOK /\ IntakeInv
  BY InitType, InitIntake
<1> QED
  BY <1>1, <1>2, NextIntake, PTL DEF Spec

-----------------------------------------------------------------------------
(* What a poster's own steps do to its request.  Every other step leaves   *)
(* the request alone, but for the market's.                                *)

Acts(t) ==
    \/ \E s \in Symbols, r \in {"symbol", "data"} : Read(t, r, s)
    \/ \E b \in Bodies : PostOrder(t, b) \/ PostOrderCheck(t, b) \/ PostOrderCalc(t, b)
    \/ Work(t)

LeftAlone(t) ==
    /\ pc'[t] = pc[t] /\ route'[t] = route[t] /\ body'[t] = body[t] /\ price'[t] = price[t]
    /\ answer'[t] = answer[t] /\ fill'[t] = fill[t] /\ checked'[t] = checked[t]

LEMMA OthersLeaveAlone ==
    ASSUME OrderTypeOK, NEW t \in Posters, NEW u \in Threads, u # t,
           \/ \E s \in Symbols, r \in {"symbol", "data"} : Read(u, r, s)
           \/ /\ u \in Posters
              /\ \E b \in Bodies : PostOrder(u, b) \/ PostOrderCheck(u, b) \/ PostOrderCalc(u, b)
           \/ Work(u)
    PROVE  LeftAlone(t)
<1> USE OrderIntakeAssumption
<1>1. ASSUME u \in Posters, NEW a, End(u, a)
      PROVE  /\ pc'[t] = pc[t] /\ body'[t] = body[t] /\ price'[t] = price[t]
             /\ answer'[t] = answer[t]
  BY <1>1 DEF End, Goto, OrderTypeOK
<1>2. CASE \E s \in Symbols, r \in {"symbol", "data"} : Read(u, r, s)
  BY <1>2 DEF Read, Goto, OrderTypeOK, LeftAlone, outcome
<1>3. ASSUME u \in Posters, NEW b \in Bodies, NEW r, Arrive(u, r, b),
             Accept(u, b) \/ End(u, "invalid")
      PROVE  LeftAlone(t)
  <2>1. route'[t] = route[t] /\ fill'[t] = fill[t] /\ checked'[t] = checked[t]
    BY <1>3 DEF Arrive, OrderTypeOK
  <2>2. CASE Accept(u, b)
    BY <1>3, <2>1, <2>2 DEF Accept, Goto, OrderTypeOK, LeftAlone
  <2> QED
    BY <1>1, <1>3, <2>1, <2>2 DEF LeftAlone
<1>4. ASSUME u \in Posters,
             NEW b \in Bodies, PostOrder(u, b) \/ PostOrderCheck(u, b) \/ PostOrderCalc(u, b)
      PROVE  LeftAlone(t)
  BY <1>3, <1>4 DEF PostOrder, PostOrderCheck, PostOrderCalc
<1>5. ASSUME NEW label, Goto(u, label), UNCHANGED orderVars
      PROVE  LeftAlone(t)
  BY <1>5 DEF Goto, orderVars, OrderTypeOK, LeftAlone
<1>6. CASE CacheStep(u) \/ ReadSymbol(u) \/ ReadData(u)
  BY <1>5, <1>6 DEF CacheStep, Lookup, Select, Insert, Invalidate, ReadSymbol, ReadData
<1>7. CASE NotSelectable(u)
  <2>1. CASE UNCHANGED orderVars
    BY <1>5, <1>7, <2>1 DEF NotSelectable, SelectFails
  <2>2. CASE u \in Posters /\ End(u, "unavailable") /\ UNCHANGED <<bid, route, fill, checked>>
    BY <1>1, <2>2 DEF LeftAlone
  <2> QED
    BY <1>7, <2>1, <2>2 DEF NotSelectable
<1>8. CASE u \in Posters /\ OrderStep(u)
  <2>1. route' = route
    BY <1>8 DEF OrderStep, OrderCheck, OrderCalc, Volume, Price, PendingPrice, Band, Levels,
                BrokerCheck, OrderSend, Poll, FillUnresolved, Handles
  <2>2. ASSUME NEW a, Refuse(u, a)
        PROVE  LeftAlone(t)
    BY <1>1, <1>8, <2>1, <2>2 DEF Refuse, LeftAlone
  <2>3. ASSUME NEW label, Pass(u, label)
        PROVE  LeftAlone(t)
    BY <2>1, <2>3 DEF Pass, Goto, OrderTypeOK, LeftAlone, outcome
  <2>4. ASSUME NEW p, NEW label, Priced(u, p, label)
        PROVE  LeftAlone(t)
    BY <1>8, <2>1, <2>4 DEF Priced, Goto, OrderTypeOK, LeftAlone, outcome
  <2>5. CASE OrderCheck(u)
    <3>1. (\E a : End(u, a)) /\ fill' = fill
      BY <2>5 DEF OrderCheck
    <3>2. checked'[t] = checked[t]
      BY <1>8, <2>5 DEF OrderCheck, OrderTypeOK
    <3> QED
      BY <1>1, <1>8, <2>1, <3>1, <3>2 DEF LeftAlone
  <2>6. CASE OrderCalc(u) \/ FillUnresolved(u)
    BY <1>1, <1>8, <2>1, <2>6 DEF OrderCalc, FillUnresolved, LeftAlone
  <2>7. CASE Volume(u) \/ Band(u) \/ Levels(u) \/ BrokerCheck(u)
    BY <2>2, <2>3, <2>7 DEF Volume, Band, Levels, BrokerCheck
  <2>8. CASE Price(u) \/ PendingPrice(u)
    BY <2>2, <2>4, <2>8 DEF Price, PendingPrice
  <2>9. CASE OrderSend(u)
    <3>1. CASE /\ End(u, "ok")
               /\ fill' = [fill EXCEPT ![u] = IF body[u].type \in MarketTypes THEN price[u] ELSE 0]
               /\ UNCHANGED checked
      BY <1>1, <1>8, <2>1, <3>1 DEF LeftAlone, OrderTypeOK
    <3>2. CASE Goto(u, "fill") /\ UNCHANGED <<body, price, seen, answer, fill, checked>>
      BY <2>1, <3>2 DEF Goto, LeftAlone, OrderTypeOK
    <3> QED
      BY <2>2, <2>9, <3>1, <3>2 DEF OrderSend
  <2>10. CASE Poll(u)
    <3>1. CASE UNCHANGED <<pc, body, price, seen, answer, fill>>
      BY <2>1, <2>10, <3>1 DEF Poll, LeftAlone
    <3>2. CASE End(u, "ok") /\ fill' = [fill EXCEPT ![u] = price[u]]
      BY <1>1, <1>8, <2>1, <2>10, <3>2 DEF Poll, LeftAlone, OrderTypeOK
    <3> QED
      BY <2>10, <3>1, <3>2 DEF Poll
  <2> QED
    BY <1>8, <2>5, <2>6, <2>7, <2>8, <2>9, <2>10 DEF OrderStep
<1> QED
  BY <1>2, <1>4, <1>6, <1>7, <1>8 DEF Work

LEMMA OnlyTheMarketMovesTheBid ==
    ASSUME NEW t \in Threads,
           \/ \E s \in Symbols, r \in {"symbol", "data"} : Read(t, r, s)
           \/ \E b \in Bodies : PostOrder(t, b) \/ PostOrderCheck(t, b) \/ PostOrderCalc(t, b)
           \/ Work(t)
    PROVE  bid' = bid
  BY DEF Read, PostOrder, PostOrderCheck, PostOrderCalc, Arrive, Work, CacheStep, NotSelectable,
         ReadSymbol, ReadData, orderVars, OrderStep, OrderCheck, OrderCalc, Volume, Price,
         PendingPrice, Band, Levels, BrokerCheck, OrderSend, Poll, FillUnresolved, Handles

LEMMA StepsOfAPoster ==
    ASSUME OrderTypeOK, [Next]_vars, NEW t \in Posters
    PROVE  \/ MarketMoves
           \/ bid' = bid /\ LeftAlone(t)
           \/ bid' = bid /\ Acts(t)
<1>0. t \in Threads
  BY OrderIntakeAssumption
<1>1. ASSUME NEW u \in Threads,
             \/ \E s \in Symbols, r \in {"symbol", "data"} : Read(u, r, s)
             \/ /\ u \in Posters
                /\ \E b \in Bodies : PostOrder(u, b) \/ PostOrderCheck(u, b) \/ PostOrderCalc(u, b)
             \/ Work(u)
      PROVE  bid' = bid /\ (LeftAlone(t) \/ Acts(t))
  BY <1>1, OthersLeaveAlone, OnlyTheMarketMovesTheBid DEF Acts
<1>2. CASE (TerminalRestart /\ UNCHANGED orderVars) \/ UNCHANGED vars
  BY <1>2 DEF TerminalRestart, vars, cacheVars, orderVars, LeftAlone
<1> QED
  BY <1>1, <1>2, OrderIntakeAssumption DEF Next

-----------------------------------------------------------------------------
(* The order an /order_check found valid.                                  *)

\* The broker's quotes are on the symbol's own grid.
QuotesOnGrid ==
    \A b \in Bids : /\ NormalizedPrice(b, Info) = b
                    /\ NormalizedPrice(b + Spread, Info) = b + Spread

\* A quote does not round to a price of 0.
QuotesStayPositive ==
    \A b \in Bids : /\ NormalizedPrice(b, Info) > 0
                    /\ NormalizedPrice(b + Spread, Info) > 0

LEMMA GridIsPositive == QuotesOnGrid => QuotesStayPositive
  BY OrderIntakeAssumption DEF QuotesOnGrid, QuotesStayPositive

\* A volume on the step is not rounded.
LEMMA OnStepUnrounded ==
    ASSUME NEW v \in Int, NEW u \in Int, u > 0, v % u = 0
    PROVE  RoundDown(v, u) = v
<1>1. v = u * (v \div u) /\ v \div u \in Int
  BY DivMod
<1> QED
  BY <1>1 DEF RoundDown

\* What order_check_endpoint accepts is an order, priced and protected, of a
\* volume normalize_volume takes once it is on the step.
LEMMA CheckedVolumeNormalizes ==
    ASSUME NEW b \in Bodies, CheckAccepts(b), OnGrids(b)
    PROVE  VolumeNormalizes(b.volume, Info)
<1>1. /\ b.volume \in Int /\ Info.volume_step \in Nat
      /\ Info.volume_min <= b.volume /\ b.volume <= Info.volume_max
  BY OrderIntakeAssumption DEF CheckAccepts, VolumeValid
<1>2. NormalizedVolume(b.volume, Info) = b.volume
  BY <1>1, OnStepUnrounded DEF NormalizedVolume, OnGrids
<1> QED
  BY <1>1, <1>2 DEF VolumeNormalizes

\* The levels of an accepted body are given to validate_sl_tp as they are.
LEMMA CheckedLevelsStay ==
    ASSUME NEW b \in Bodies, CheckAccepts(b), OnGrids(b),
           NEW p, p = IF b.type \in MarketTypes THEN MarketPrice(b.type) ELSE b.price
    PROVE  /\ b.sl # 0 /\ b.tp # 0
           /\ ProtectionValid(b.type, p, Level(b.sl), Level(b.tp))
<1>1. ProtectionValid(b.type, p, b.sl, b.tp)
  BY DEF CheckAccepts
<1>2. b.sl # 0 /\ b.tp # 0
  BY <1>1 DEF ProtectionValid, StopLossValid, TakeProfitValid, NoLevel
<1>3. Level(b.sl) = b.sl /\ Level(b.tp) = b.tp
  BY DEF OnGrids
<1> QED
  BY <1>1, <1>2, <1>3

\* The verdict of /order_check stands while the quote does, the order that
\* follows is the one that was checked, and it is still priced by that quote.
CheckedInv(t) ==
    /\ checked[t] # Nothing => CheckAccepts(checked[t])
    /\ checked[t] # Nothing /\ pc[t] # "idle" /\ route[t] \in OrderRoutes => body[t] = checked[t]
    /\ pc[t] \in {"band", "levels"} /\ body[t].type \notin MarketTypes =>
         price[t] = NormalizedPrice(body[t].price, Info)
    /\ checked[t] # Nothing /\ pc[t] = "levels" /\ body[t].type \in MarketTypes =>
         price[t] = NormalizedPrice(MarketPrice(body[t].type), Info)

LEMMA CheckedStays ==
    ASSUME NEW t \in Posters, CheckedInv(t), bid' = bid, checked'[t] = checked[t],
           body'[t] = body[t], route'[t] = route[t],
           \/ pc'[t] = pc[t] /\ price'[t] = price[t]
           \/ pc'[t] \notin {"band", "levels"} /\ (pc[t] # "idle" \/ pc'[t] = "idle")
    PROVE  CheckedInv(t)'
<1>1. (checked[t] # Nothing => CheckAccepts(checked[t]))'
  BY DEF CheckedInv, CheckAccepts, MarketPrice, ask
<1> QED
  BY <1>1 DEF CheckedInv, MarketPrice, ask

LEMMA CheckedEnds ==
    ASSUME NEW t \in Posters, CheckedInv(t), bid' = bid, pc'[t] = "idle",
           checked'[t] = checked[t] \/ (checked'[t] = body[t] /\ CheckAccepts(body[t]))
    PROVE  CheckedInv(t)'
  BY DEF CheckedInv, CheckAccepts, MarketPrice, ask

LEMMA ActsChecked ==
    ASSUME OrderTypeOK, IntakeInv, NEW t \in Posters, CheckedInv(t), bid' = bid, Acts(t)
    PROVE  CheckedInv(t)'
<1>0. t \in Threads
  BY OrderIntakeAssumption
<1>1. ASSUME NEW a, End(t, a)
      PROVE  pc'[t] = "idle"
  BY <1>0, <1>1 DEF End, Goto, OrderTypeOK
<1>2. CASE \E s \in Symbols, r \in {"symbol", "data"} : Read(t, r, s)
  <2>1. /\ pc'[t] = "lookup" /\ route'[t] \notin OrderRoutes /\ checked' = checked
    BY <1>0, <1>2 DEF Read, Goto, OrderTypeOK, OrderRoutes
  <2>2. (checked[t] # Nothing => CheckAccepts(checked[t]))'
    BY <2>1 DEF CheckedInv, CheckAccepts, MarketPrice, ask
  <2> QED
    BY <2>1, <2>2 DEF CheckedInv
<1>3. ASSUME NEW b \in Bodies, NEW r, Arrive(t, r, b), Accept(t, b) \/ End(t, "invalid")
      PROVE  CheckedInv(t)'
  <2>1. checked'[t] = IF checked[t] = b THEN b ELSE Nothing
    BY <1>3 DEF Arrive, OrderTypeOK
  <2>2. (checked[t] # Nothing => CheckAccepts(checked[t]))'
    BY <2>1 DEF CheckedInv, CheckAccepts, MarketPrice, ask
  <2>3. CASE Accept(t, b)
    <3>1. pc'[t] = "lookup" /\ body'[t] = b
      BY <1>0, <2>3 DEF Accept, Goto, OrderTypeOK
    <3> QED
      BY <2>1, <2>2, <3>1 DEF CheckedInv
  <2>4. CASE End(t, "invalid")
    BY <1>1, <2>2, <2>4 DEF CheckedInv
  <2> QED
    BY <1>3, <2>3, <2>4
<1>4. CASE \E b \in Bodies : PostOrder(t, b) \/ PostOrderCheck(t, b) \/ PostOrderCalc(t, b)
  BY <1>3, <1>4 DEF PostOrder, PostOrderCheck, PostOrderCalc
<1>5. ASSUME NEW label \in {"idle", "lookup", "select", "insert", "valid", "invalidate"},
             pc[t] # "idle", Goto(t, label), UNCHANGED orderVars
      PROVE  CheckedInv(t)'
  <2>1. pc'[t] = label
    BY <1>0, <1>5 DEF Goto, OrderTypeOK
  <2> QED
    BY <1>5, <2>1, CheckedStays DEF orderVars
<1>6. CASE CacheStep(t) \/ ReadSymbol(t) \/ ReadData(t)
  BY <1>5, <1>6 DEF CacheStep, Lookup, Select, Insert, Invalidate, ReadSymbol, ReadData
<1>7. ASSUME NEW a, End(t, a), checked' = checked
      PROVE  CheckedInv(t)'
  BY <1>1, <1>7, CheckedEnds
<1>8. CASE NotSelectable(t)
  BY <1>5, <1>7, <1>8 DEF NotSelectable, SelectFails
<1>9. CASE OrderStep(t)
  <2>1. /\ route' = route /\ pc[t] # "idle"
    BY <1>9 DEF OrderStep, OrderCheck, OrderCalc, Volume, Price, PendingPrice, Band, Levels,
                BrokerCheck, OrderSend, Poll, FillUnresolved, Handles
  <2>2. ASSUME NEW a, Refuse(t, a)
        PROVE  CheckedInv(t)'
    BY <1>7, <2>2 DEF Refuse
  <2>3. ASSUME NEW label, Pass(t, label)
        PROVE  /\ pc'[t] = label /\ UNCHANGED <<body, price, checked>>
    BY <1>0, <2>3 DEF Pass, Goto, OrderTypeOK
  <2>4. ASSUME NEW p, NEW label, Priced(t, p, label)
        PROVE  /\ pc'[t] = label /\ price'[t] = p /\ UNCHANGED <<body, checked>>
    BY <1>0, <2>4 DEF Priced, Goto, OrderTypeOK
  <2>5. CASE OrderCheck(t)
    <3>1. CASE checked' = checked
      BY <1>7, <2>5, <3>1 DEF OrderCheck
    <3>2. CASE /\ CheckAccepts(body[t]) /\ End(t, "valid")
               /\ checked' = [checked EXCEPT ![t] = body[t]]
      <4>1. checked'[t] = body[t]
        BY <3>2 DEF OrderTypeOK
      <4> QED
        BY <1>1, <3>2, <4>1, CheckedEnds
    <3> QED
      BY <2>5, <3>1, <3>2 DEF OrderCheck
  <2>6. CASE OrderCalc(t) \/ FillUnresolved(t)
    BY <1>7, <2>6 DEF OrderCalc, FillUnresolved
  <2>7. ASSUME NEW label \in {"price", "check", "send"}, Pass(t, label)
        PROVE  CheckedInv(t)'
    BY <2>1, <2>3, <2>7, CheckedStays
  <2>8. CASE Volume(t) \/ Levels(t) \/ BrokerCheck(t)
    BY <2>2, <2>7, <2>8 DEF Volume, Levels, BrokerCheck
  <2>9. ASSUME checked' = checked, body' = body
        PROVE  /\ (checked[t] # Nothing => CheckAccepts(checked[t]))'
               /\ (checked[t] # Nothing /\ pc[t] # "idle" /\ route[t] \in OrderRoutes
                     => body[t] = checked[t])'
    BY <2>1, <2>9 DEF CheckedInv, CheckAccepts, MarketPrice, ask
  <2>10. CASE Price(t)
    <3>1. CASE Priced(t, NormalizedPrice(MarketPrice(body[t].type), Info), "levels")
      <4>1. body[t].type \in MarketTypes
        BY <2>10 DEF Price
      <4> QED
        BY <2>4, <2>9, <3>1, <4>1 DEF CheckedInv, MarketPrice, ask
    <3> QED
      BY <2>2, <2>10, <3>1 DEF Price
  <2>11. CASE PendingPrice(t)
    <3>1. CASE Priced(t, NormalizedPrice(body[t].price, Info), "band")
      <4>1. body[t].type \notin MarketTypes
        BY <2>11 DEF PendingPrice
      <4> QED
        BY <2>4, <2>9, <3>1, <4>1 DEF CheckedInv
    <3> QED
      BY <2>2, <2>11, <3>1 DEF PendingPrice
  <2>12. CASE Band(t)
    <3>1. CASE Pass(t, "levels")
      <4>1. pc[t] = "band" /\ body[t].type \notin MarketTypes
        BY <2>12 DEF Band, Handles, IntakeInv, RequestInv, PriceJudged
      <4> QED
        BY <2>3, <2>9, <3>1, <4>1 DEF CheckedInv
    <3> QED
      BY <2>2, <2>12, <3>1 DEF Band
  <2>13. CASE OrderSend(t)
    <3>1. CASE /\ End(t, "ok") /\ UNCHANGED checked
      BY <1>7, <3>1
    <3>2. CASE Goto(t, "fill") /\ UNCHANGED <<body, price, seen, answer, fill, checked>>
      <4>1. pc'[t] = "fill"
        BY <1>0, <3>2 DEF Goto, OrderTypeOK
      <4> QED
        BY <2>1, <3>2, <4>1, CheckedStays
    <3> QED
      BY <2>2, <2>13, <3>1, <3>2 DEF OrderSend
  <2>14. CASE Poll(t)
    <3>1. CASE UNCHANGED <<pc, body, price, seen, answer, fill>>
      BY <2>1, <2>14, <3>1, CheckedStays DEF Poll
    <3> QED
      BY <1>7, <2>14, <3>1 DEF Poll
  <2> QED
    BY <1>9, <2>5, <2>6, <2>8, <2>10, <2>11, <2>12, <2>13, <2>14 DEF OrderStep
<1> QED
  BY <1>2, <1>4, <1>6, <1>8, <1>9 DEF Acts, Work

CheckingInv == \A t \in Posters : CheckedInv(t)

LEMMA InitChecking == Init => CheckingInv
  BY OrderIntakeAssumption DEF Init, CacheInit, CheckingInv, CheckedInv

LEMMA NextChecking ==
    OrderTypeOK /\ IntakeInv /\ CheckingInv /\ [Next]_vars => CheckingInv'
<1> SUFFICES ASSUME OrderTypeOK, IntakeInv, CheckingInv, [Next]_vars, NEW t \in Posters
             PROVE  CheckedInv(t)'
  BY DEF CheckingInv
<1>1. CheckedInv(t)
  BY DEF CheckingInv
<1>2. CASE MarketMoves
  <2>1. checked'[t] = Nothing /\ UNCHANGED <<pc, body, price>>
    BY <1>2 DEF MarketMoves, cacheVars
  <2> QED
    BY <1>1, <2>1 DEF CheckedInv
<1>3. CASE bid' = bid /\ LeftAlone(t)
  BY <1>1, <1>3, CheckedStays DEF LeftAlone
<1>4. CASE bid' = bid /\ Acts(t)
  BY <1>1, <1>4, ActsChecked
<1> QED
  BY <1>2, <1>3, <1>4, StepsOfAPoster

\* The step that refuses an order as invalid.
LEMMA RefusedForALimit ==
    ASSUME OrderTypeOK, IntakeInv, CheckingInv, QuotesOnGrid, NEW t \in Posters, Acts(t),
           answer[t] # "invalid", answer'[t] = "invalid", route'[t] = "order",
           checked'[t] # Nothing, OnGrids(checked'[t])
    PROVE  ~OperatorAllows(checked'[t])
<1>0. t \in Threads /\ CheckedInv(t)
  BY OrderIntakeAssumption DEF CheckingInv
<1>1. ASSUME NEW a, End(t, a)
      PROVE  a = "invalid"
  BY <1>1 DEF End, OrderTypeOK
<1>2. CASE \E s \in Symbols, r \in {"symbol", "data"} : Read(t, r, s)
  BY <1>2 DEF Read, outcome
<1>3. CASE \E b \in Bodies : PostOrder(t, b)
  <2>1. PICK b \in Bodies : PostOrder(t, b)
    BY <1>3
  <2>2. checked'[t] = b
    BY <2>1 DEF PostOrder, Arrive, OrderTypeOK
  <2>3. ~(b.volume <= MaxVolume)
    BY <2>1 DEF PostOrder, Accept, OrderTypeOK
  <2> QED
    BY <2>2, <2>3 DEF OperatorAllows
<1>4. CASE \E b \in Bodies : PostOrderCheck(t, b) \/ PostOrderCalc(t, b)
  BY <1>4 DEF PostOrderCheck, PostOrderCalc, Accept, OrderTypeOK
<1>5. CASE CacheStep(t) \/ ReadSymbol(t) \/ ReadData(t)
  BY <1>5 DEF CacheStep, ReadSymbol, ReadData, orderVars
<1>6. CASE NotSelectable(t)
  BY <1>1, <1>6 DEF NotSelectable, orderVars
<1>7. CASE OrderStep(t)
  <2>1. route' = route
    BY <1>7 DEF OrderStep, OrderCheck, OrderCalc, Volume, Price, PendingPrice, Band, Levels,
                BrokerCheck, OrderSend, Poll, FillUnresolved, Handles
  <2>2. route[t] = "order" /\ ~OrderCheck(t) /\ ~OrderCalc(t)
    BY <2>1 DEF OrderCheck, OrderCalc, Handles
  <2>3. checked' = checked
    BY <1>7, <2>2 DEF OrderStep, Volume, Price, PendingPrice, Band, Levels, BrokerCheck, OrderSend,
                      Poll, FillUnresolved, Refuse, Pass, Priced
  <2> DEFINE b == checked[t]
  <2>4. pc[t] # "idle"
    BY <1>7, <2>2 DEF OrderStep, Volume, Price, PendingPrice, Band, Levels, BrokerCheck, OrderSend,
                      Poll, FillUnresolved, Handles
  <2>5. /\ b # Nothing /\ b \in Bodies /\ OnGrids(b) /\ CheckAccepts(b) /\ body[t] = b
    BY <1>0, <2>2, <2>3, <2>4 DEF CheckedInv, OrderTypeOK, OrderRoutes
  <2>6. CASE Volume(t)
    BY <1>1, <2>5, <2>6, CheckedVolumeNormalizes DEF Volume, Refuse, Pass, outcome
  <2>7. CASE Price(t) \/ BrokerCheck(t) \/ FillUnresolved(t)
    BY <1>1, <2>7 DEF Price, BrokerCheck, FillUnresolved, Refuse, Pass, Priced, outcome
  <2>8. CASE PendingPrice(t)
    <3>1. b.type \notin MarketTypes
      BY <2>5, <2>8 DEF PendingPrice
    <3>2. b.price > 0 /\ PendingPriceValid(b.type, b.price, bid, ask, Info)
      BY <2>5, <3>1 DEF CheckAccepts
    <3>3. NormalizedPrice(b.price, Info) = b.price
      BY <2>5, <3>1 DEF OnGrids
    <3> QED
      BY <1>1, <2>5, <2>8, <3>2, <3>3 DEF PendingPrice, Refuse, Priced, outcome
  <2>9. CASE Band(t)
    <3>1. pc[t] = "band" /\ b.type \notin MarketTypes
      BY <2>5, <2>9 DEF Band, Handles, IntakeInv, RequestInv, PriceJudged
    <3>2. price[t] = b.price
      BY <1>0, <2>5, <3>1 DEF CheckedInv, OnGrids
    <3>3. ~WithinBand(price[t], BandQuote(b.type, bid, ask), BandPct)
      BY <1>1, <2>5, <2>9 DEF Band, Refuse, Pass, outcome
    <3> QED
      BY <2>3, <3>1, <3>2, <3>3 DEF OperatorAllows
  <2>10. CASE Levels(t)
    <3> DEFINE p == IF b.type \in MarketTypes THEN MarketPrice(b.type) ELSE b.price
    <3>1. pc[t] = "levels"
      BY <2>10 DEF Levels, Handles
    <3>2. ASSUME b.type \in MarketTypes PROVE price[t] = p
      <4>1. price[t] = NormalizedPrice(MarketPrice(b.type), Info)
        BY <1>0, <2>5, <3>1, <3>2 DEF CheckedInv
      <4>2. bid \in Bids
        BY DEF OrderTypeOK
      <4> QED
        BY <3>2, <4>1, <4>2 DEF QuotesOnGrid, MarketPrice, ask
    <3>3. ASSUME b.type \notin MarketTypes PROVE price[t] = p
      BY <1>0, <2>5, <3>1, <3>3 DEF CheckedInv, OnGrids
    <3>4. price[t] = p
      BY <3>2, <3>3
    <3>5. b.sl # 0 /\ b.tp # 0 /\ ProtectionValid(b.type, price[t], Level(b.sl), Level(b.tp))
      BY <2>5, <3>4, CheckedLevelsStay
    <3>6. Pass(t, "check")
      BY <2>5, <2>10, <3>5 DEF Levels
    <3> QED
      BY <3>6 DEF Pass, outcome
  <2>11. CASE OrderSend(t)
    BY <1>1, <2>11 DEF OrderSend, Refuse
  <2>12. CASE Poll(t)
    BY <1>1, <2>12 DEF Poll
  <2> QED
    BY <1>7, <2>2, <2>6, <2>7, <2>8, <2>9, <2>10, <2>11, <2>12 DEF OrderStep
<1> QED
  BY <1>2, <1>3, <1>4, <1>5, <1>6, <1>7 DEF Acts, Work

\* While quotes are on the symbol's grid, POST /order does not refuse an
\* order that /order_check found valid at the standing quote, but for the
\* operator's own limits.
THEOREM CheckedOrdersPass == ASSUME QuotesOnGrid PROVE Spec => CheckedIsNotRefused
<1>1. Init => OrderTypeOK /\ IntakeInv /\ CheckingInv
  BY InitType, InitIntake, InitChecking
<1>2. ASSUME OrderTypeOK, IntakeInv, CheckingInv, [Next]_vars
      PROVE  [\A t \in Posters :
                /\ answer[t] # "invalid" /\ answer'[t] = "invalid" /\ route'[t] = "order"
                /\ checked'[t] # Nothing /\ OnGrids(checked'[t])
                => ~OperatorAllows(checked'[t])]_vars
  <2> SUFFICES ASSUME NEW t \in Posters, answer[t] # "invalid", answer'[t] = "invalid",
                      route'[t] = "order", checked'[t] # Nothing, OnGrids(checked'[t])
               PROVE  ~OperatorAllows(checked'[t])
    OBVIOUS
  <2>1. ~MarketMoves /\ ~LeftAlone(t)
    BY DEF MarketMoves, outcome, LeftAlone
  <2> QED
    BY <1>2, <2>1, StepsOfAPoster, RefusedForALimit
<1> QED
  BY <1>1, <1>2, NextIntake, NextChecking, PTL DEF Spec, CheckedIsNotRefused

-----------------------------------------------------------------------------
(* The price of a market order.                                            *)

PricedInv ==
    \A t \in Posters : pc[t] \in {"levels", "check", "send", "fill"}
                         /\ body[t].type \in MarketTypes => price[t] > 0

LEMMA NextPriced ==
    ASSUME QuotesStayPositive, OrderTypeOK, PricedInv, [Next]_vars,
           \A t \in Posters : pc[t] = "band" => body[t].type \notin MarketTypes
    PROVE  PricedInv'
<1> SUFFICES ASSUME NEW t \in Posters,
                    pc'[t] \in {"levels", "check", "send", "fill"}, body'[t].type \in MarketTypes
             PROVE  price'[t] > 0
  BY DEF PricedInv
<1>0. t \in Threads
  BY OrderIntakeAssumption
<1>1. ASSUME pc'[t] = pc[t], body'[t] = body[t], price'[t] = price[t]
      PROVE  price'[t] > 0
  BY <1>1 DEF PricedInv
<1>2. CASE MarketMoves \/ LeftAlone(t)
  BY <1>1, <1>2 DEF MarketMoves, cacheVars, LeftAlone
<1>3. CASE Acts(t)
  <2>1. ASSUME NEW label, Goto(t, label)
        PROVE  label \in {"levels", "check", "send", "fill"}
    BY <1>0, <2>1 DEF Goto, OrderTypeOK
  <2>2. ASSUME NEW a PROVE ~End(t, a)
    BY <2>1 DEF End
  <2>3. OrderStep(t)
    BY <1>3, <2>1, <2>2
       DEF Acts, Read, PostOrder, PostOrderCheck, PostOrderCalc, Accept, Work, CacheStep, Lookup,
           Select, Insert, Invalidate, NotSelectable, SelectFails, ReadSymbol, ReadData
  <2>4. CASE Price(t)
    <3>1. Priced(t, NormalizedPrice(MarketPrice(body[t].type), Info), "levels") /\ bid \in Bids
      BY <2>2, <2>4 DEF Price, Refuse, OrderTypeOK
    <3>2. price'[t] = NormalizedPrice(MarketPrice(body[t].type), Info)
      BY <3>1 DEF Priced, OrderTypeOK
    <3> QED
      BY <3>1, <3>2 DEF QuotesStayPositive, MarketPrice, ask
  <2>5. CASE Levels(t) \/ BrokerCheck(t)
    <3>1. pc[t] \in {"levels", "check"} /\ \E label : Pass(t, label)
      BY <2>2, <2>5 DEF Levels, BrokerCheck, Handles, Refuse
    <3> QED
      BY <3>1 DEF Pass, PricedInv
  <2>6. CASE Band(t)
    BY <2>2, <2>6 DEF Band, Handles, Refuse, Pass
  <2>7. CASE OrderSend(t)
    <3>1. pc[t] = "send" /\ UNCHANGED <<body, price>>
      BY <2>2, <2>7 DEF OrderSend, Handles, Refuse
    <3> QED
      BY <3>1 DEF PricedInv
  <2>8. CASE Poll(t)
    BY <1>1, <2>2, <2>8 DEF Poll
  <2>9. CASE Volume(t) \/ PendingPrice(t)
    BY <2>1, <2>2, <2>9 DEF Volume, PendingPrice, Refuse, Pass, Priced
  <2> QED
    BY <2>2, <2>3, <2>4, <2>5, <2>6, <2>7, <2>8, <2>9
       DEF OrderStep, OrderCheck, OrderCalc, FillUnresolved
<1> QED
  BY <1>2, <1>3, StepsOfAPoster

LEMMA OkIsPriced ==
    ASSUME OrderTypeOK, PricedInv, [Next]_vars, NEW t \in Posters,
           answer[t] # "ok", answer'[t] = "ok", body[t].type \in MarketTypes
    PROVE  fill'[t] > 0
<1>1. Acts(t)
  BY StepsOfAPoster DEF MarketMoves, outcome, LeftAlone
<1>2. ASSUME NEW a, End(t, a)
      PROVE  a = "ok"
  BY <1>2 DEF End, OrderTypeOK
<1>3. OrderStep(t)
  BY <1>1, <1>2
     DEF Acts, Read, PostOrder, PostOrderCheck, PostOrderCalc, Accept, Work, CacheStep,
         NotSelectable, ReadSymbol, ReadData, orderVars, outcome, OrderTypeOK
<1>4. CASE OrderSend(t)
  <2>1. /\ pc[t] = "send"
        /\ fill' = [fill EXCEPT ![t] = IF body[t].type \in MarketTypes THEN price[t] ELSE 0]
    BY <1>2, <1>4 DEF OrderSend, Handles, Refuse
  <2> QED
    BY <2>1 DEF PricedInv, OrderTypeOK
<1>5. CASE Poll(t)
  <2>1. pc[t] = "fill" /\ fill' = [fill EXCEPT ![t] = price[t]]
    BY <1>5 DEF Poll, Handles
  <2> QED
    BY <2>1 DEF PricedInv, OrderTypeOK
<1> QED
  BY <1>2, <1>3, <1>4, <1>5
     DEF OrderStep, OrderCheck, OrderCalc, Volume, Price, PendingPrice, Band, Levels, BrokerCheck,
         FillUnresolved, Refuse, Pass, Priced, outcome

\* If no quote rounds to 0, a market order answered as executed carries a
\* price above 0, or says that the price is not known.
THEOREM FillsArePriced == ASSUME QuotesStayPositive PROVE Spec => FilledMeansPriced
<1>1. Init => OrderTypeOK /\ IntakeInv /\ PricedInv
  BY InitType, InitIntake, OrderIntakeAssumption DEF Init, CacheInit, PricedInv
<1>2. OrderTypeOK /\ IntakeInv /\ PricedInv /\ [Next]_vars => PricedInv'
  BY NextPriced DEF IntakeInv, RequestInv, PriceJudged
<1>3. ASSUME OrderTypeOK, PricedInv, [Next]_vars
      PROVE  [\A t \in Posters :
                answer[t] # "ok" /\ answer'[t] = "ok" /\ body[t].type \in MarketTypes
                  => fill'[t] > 0]_vars
  BY <1>3, OkIsPriced
<1> QED
  BY <1>1, <1>2, <1>3, NextIntake, PTL DEF Spec, FilledMeansPriced

-----------------------------------------------------------------------------
(* The symbol cache.                                                       *)

\* The cache loses its oldest symbol.
LEMMA EvictionShrinks ==
    ASSUME NEW S, NEW s \in Seq(S), s # <<>>, IsInjective(s)
    PROVE  /\ Tail(s) \in Seq(S) /\ Len(Tail(s)) = Len(s) - 1 /\ IsInjective(Tail(s))
           /\ \A i \in DOMAIN Tail(s) : \E j \in DOMAIN s : Tail(s)[i] = s[j]
<1>1. /\ Tail(s) \in Seq(S) /\ Len(Tail(s)) = Len(s) - 1
      /\ \A i \in 1..Len(Tail(s)) : Tail(s)[i] = s[i + 1]
  BY HeadTailProperties
<1>2. /\ Len(s) \in Nat /\ DOMAIN s = 1..Len(s) /\ DOMAIN Tail(s) = 1..Len(Tail(s))
  BY <1>1, LenProperties
<1>3. \A i \in DOMAIN Tail(s) : i + 1 \in DOMAIN s /\ Tail(s)[i] = s[i + 1]
  BY <1>1, <1>2
<1>4. IsInjective(Tail(s))
  <2> SUFFICES ASSUME NEW a \in DOMAIN Tail(s), NEW b \in DOMAIN Tail(s), Tail(s)[a] = Tail(s)[b]
               PROVE  a = b
    BY DEF IsInjective
  <2>1. a + 1 = b + 1
    BY <1>3 DEF IsInjective
  <2> QED
    BY <1>1, <1>2, <2>1
<1> QED
  BY <1>1, <1>3, <1>4

\* A symbol that is not in the cache is put at its end.
LEMMA InsertionGrows ==
    ASSUME NEW S, NEW s \in Seq(S), NEW e \in S, IsInjective(s), ~Contains(s, e)
    PROVE  /\ Append(s, e) \in Seq(S) /\ Len(Append(s, e)) = Len(s) + 1
           /\ IsInjective(Append(s, e))
           /\ \A i \in DOMAIN Append(s, e) :
                 Append(s, e)[i] = e \/ \E j \in DOMAIN s : Append(s, e)[i] = s[j]
<1>1. /\ Append(s, e) \in Seq(S) /\ Len(Append(s, e)) = Len(s) + 1
      /\ \A i \in 1..Len(s) : Append(s, e)[i] = s[i]
      /\ Append(s, e)[Len(s) + 1] = e
  BY AppendProperties
<1>2. /\ Len(s) \in Nat /\ DOMAIN s = 1..Len(s) /\ DOMAIN Append(s, e) = 1..(Len(s) + 1)
  BY <1>1, LenProperties
<1>3. \A i \in DOMAIN Append(s, e) :
         (i = Len(s) + 1 /\ Append(s, e)[i] = e) \/ (i \in DOMAIN s /\ Append(s, e)[i] = s[i])
  BY <1>1, <1>2
<1>4. \A i \in DOMAIN s : s[i] # e
  BY <1>2 DEF Contains
<1>5. IsInjective(Append(s, e))
  BY <1>3, <1>4 DEF IsInjective
<1> QED
  BY <1>1, <1>3, <1>5

\* A symbol is taken out of the cache.
LEMMA RemovalShrinks ==
    ASSUME NEW S, NEW s \in Seq(S), IsInjective(s), NEW k \in DOMAIN s
    PROVE  /\ RemoveAt(s, k) \in Seq(S) /\ Len(RemoveAt(s, k)) = Len(s) - 1
           /\ IsInjective(RemoveAt(s, k)) /\ ~Contains(RemoveAt(s, k), s[k])
           /\ \A i \in DOMAIN RemoveAt(s, k) : \E j \in DOMAIN s : RemoveAt(s, k)[i] = s[j]
<1> DEFINE n == Len(s)
           front == SubSeq(s, 1, k - 1)
           back == SubSeq(s, k + 1, n)
           r == RemoveAt(s, k)
<1>1. n \in Nat /\ s \in [1..n -> S] /\ DOMAIN s = 1..n /\ k \in 1..n
  BY LenProperties
<1>2. /\ front \in Seq(S) /\ Len(front) = k - 1
      /\ \A i \in 1..(k - 1) : front[i] = s[i]
  <2>1. \A i \in 1..(k - 1) : s[i] \in S
    BY <1>1
  <2>2. /\ SubSeq(s, 1, k - 1) \in Seq(S)
        /\ Len(SubSeq(s, 1, k - 1)) = IF 1 <= k - 1 THEN (k - 1) - 1 + 1 ELSE 0
        /\ \A i \in 1..((k - 1) - 1 + 1) : SubSeq(s, 1, k - 1)[i] = s[1 + i - 1]
    <3>1. 1 \in Int /\ k - 1 \in Int
      BY <1>1
    <3> QED
      BY <2>1, <3>1, SubSeqProperties
  <2> QED
    BY <1>1, <2>2
<1>3. /\ back \in Seq(S) /\ Len(back) = n - k
      /\ \A i \in 1..(n - k) : back[i] = s[k + i]
  <2>1. \A i \in (k + 1)..n : s[i] \in S
    BY <1>1
  <2>2. /\ SubSeq(s, k + 1, n) \in Seq(S)
        /\ Len(SubSeq(s, k + 1, n)) = IF k + 1 <= n THEN n - (k + 1) + 1 ELSE 0
        /\ \A i \in 1..(n - (k + 1) + 1) : SubSeq(s, k + 1, n)[i] = s[k + 1 + i - 1]
    <3>1. n \in Int /\ k + 1 \in Int
      BY <1>1
    <3> HIDE DEF n
    <3> QED
      BY <2>1, <3>1, SubSeqProperties
  <2> QED
    BY <1>1, <2>2
<1>4. r = front \o back
  BY DEF RemoveAt
<1> HIDE DEF n, front, back, r
<1>5. /\ r \in Seq(S) /\ Len(r) = n - 1
      /\ \A i \in 1..(n - 1) : r[i] = IF i <= k - 1 THEN front[i] ELSE back[i - (k - 1)]
  <2>1. /\ r \in Seq(S) /\ Len(r) = Len(front) + Len(back)
        /\ \A i \in 1..(Len(front) + Len(back)) :
              r[i] = IF i <= Len(front) THEN front[i] ELSE back[i - Len(front)]
    BY <1>2, <1>3, <1>4, ConcatProperties
  <2> QED
    BY <1>1, <1>2, <1>3, <2>1
<1>6. DOMAIN r = 1..(n - 1)
  BY <1>5, LenProperties
<1> DEFINE at(i) == IF i <= k - 1 THEN i ELSE i + 1
<1>7. \A i \in DOMAIN r : at(i) \in DOMAIN s /\ at(i) # k /\ r[i] = s[at(i)]
  <2> SUFFICES ASSUME NEW i \in 1..(n - 1)
               PROVE  at(i) \in 1..n /\ at(i) # k /\ r[i] = s[at(i)]
    BY <1>1, <1>6
  <2>1. CASE i <= k - 1
    <3>1. i \in 1..(k - 1) /\ at(i) = i
      BY <1>1, <2>1
    <3> QED
      BY <1>1, <1>2, <1>5, <2>1, <3>1
  <2>2. CASE ~(i <= k - 1)
    <3>1. i - (k - 1) \in 1..(n - k) /\ k + (i - (k - 1)) = i + 1 /\ at(i) = i + 1
      BY <1>1, <2>2
    <3>2. r[i] = back[i - (k - 1)] /\ back[i - (k - 1)] = s[k + (i - (k - 1))]
      BY <1>3, <1>5, <2>2, <3>1
    <3>3. r[i] = s[i + 1]
      BY <3>1, <3>2
    <3>4. i + 1 \in 1..n /\ i + 1 # k
      BY <1>1, <2>2
    <3> HIDE DEF at
    <3> QED
      BY <3>1, <3>3, <3>4
  <2> QED
    BY <2>1, <2>2
<1>8. IsInjective(r)
  <2> SUFFICES ASSUME NEW a \in DOMAIN r, NEW b \in DOMAIN r, r[a] = r[b]
               PROVE  a = b
    BY DEF IsInjective
  <2>1. at(a) = at(b)
    BY <1>7 DEF IsInjective
  <2> QED
    BY <1>1, <1>6, <2>1
<1>9. ~Contains(r, s[k])
  <2>1. \A i \in DOMAIN r : r[i] # s[k]
    BY <1>7 DEF IsInjective
  <2> QED
    BY <1>5, <1>6, <2>1 DEF Contains
<1>10. n - 1 = Len(s) - 1 /\ r = RemoveAt(s, k)
  BY DEF n, r
<1>11. \A i \in DOMAIN r : \E j \in DOMAIN s : r[i] = s[j]
  BY <1>7
<1> QED
  BY <1>5, <1>8, <1>9, <1>10, <1>11

\* The terminal knows every symbol the cache vouches for, and the one a
\* request has just selected, until it restarts.
FreshUntilRestart ==
    restarts = 0 => /\ \A i \in DOMAIN cached : cached[i] \in watched
                    /\ \A t \in Threads : pc[t] = "insert" => symbol[t] \in watched

LEMMA InitCache == Init => CacheTypeOK /\ FreshUntilRestart
  BY SymbolCacheAssumption
     DEF Init, CacheInit, CacheTypeOK, FreshUntilRestart, IsInjective

\* The steps that touch neither the cache nor the terminal.
LEMMA CacheUntouched ==
    ASSUME CacheTypeOK, FreshUntilRestart, UNCHANGED <<cached, market_watch>>,
           symbol' \in [Threads -> Symbols],
           \A t \in Threads : pc'[t] = "insert" => pc[t] = "insert" /\ symbol'[t] = symbol[t]
    PROVE  CacheTypeOK' /\ FreshUntilRestart'
  BY DEF CacheTypeOK, FreshUntilRestart, market_watch

LEMMA InsertCache ==
    ASSUME CacheTypeOK, FreshUntilRestart, OrderTypeOK, NEW t \in Threads, Insert(t)
    PROVE  CacheTypeOK' /\ FreshUntilRestart'
<1> DEFINE kept == IF Len(cached) >= MaxCached THEN Tail(cached) ELSE cached
<1>1. /\ pc[t] = "insert" /\ UNCHANGED <<watched, restarts, symbol>>
      /\ cached' = IF Contains(kept, symbol[t]) THEN kept ELSE Append(kept, symbol[t])
      /\ \A u \in Threads : pc'[u] = "insert" => pc[u] = "insert"
  BY DEF Insert, Goto, OrderTypeOK, market_watch
<1>2. /\ cached \in Seq(Symbols) /\ Len(cached) \in Nat /\ Len(cached) <= MaxCached
      /\ IsInjective(cached) /\ symbol[t] \in Symbols /\ MaxCached \in Nat \ {0}
  BY SymbolCacheAssumption, LenProperties DEF CacheTypeOK
<1>3. /\ kept \in Seq(Symbols) /\ Len(kept) + 1 <= MaxCached /\ IsInjective(kept)
      /\ \A i \in DOMAIN kept : \E j \in DOMAIN cached : kept[i] = cached[j]
  <2>1. CASE Len(cached) >= MaxCached
    <3>1. cached # <<>>
      BY <1>2, <2>1, EmptySeq
    <3> QED
      BY <1>2, <2>1, <3>1, EvictionShrinks
  <2>2. CASE ~(Len(cached) >= MaxCached)
    BY <1>2, <2>2
  <2> QED
    BY <2>1, <2>2
<1> HIDE DEF kept
<1>4. /\ cached' \in Seq(Symbols) /\ Len(cached') <= MaxCached /\ IsInjective(cached')
      /\ \A i \in DOMAIN cached' :
            cached'[i] = symbol[t] \/ \E j \in DOMAIN cached : cached'[i] = cached[j]
  <2>1. CASE Contains(kept, symbol[t])
    BY <1>1, <1>2, <1>3, <2>1, LenProperties
  <2>2. CASE ~Contains(kept, symbol[t])
    <3>1. /\ cached' = Append(kept, symbol[t])
          /\ cached' \in Seq(Symbols) /\ Len(cached') = Len(kept) + 1 /\ IsInjective(cached')
          /\ \A i \in DOMAIN cached' :
                cached'[i] = symbol[t] \/ \E j \in DOMAIN kept : cached'[i] = kept[j]
      BY <1>1, <1>2, <1>3, <2>2, InsertionGrows
    <3> QED
      BY <1>3, <3>1
  <2> QED
    BY <2>1, <2>2
<1>5. FreshUntilRestart'
  <2> SUFFICES ASSUME restarts = 0
               PROVE  /\ \A i \in DOMAIN cached' : cached'[i] \in watched
                      /\ \A u \in Threads : pc'[u] = "insert" => symbol[u] \in watched
    BY <1>1 DEF FreshUntilRestart
  <2> QED
    BY <1>1, <1>4 DEF FreshUntilRestart
<1> QED
  BY <1>1, <1>4, <1>5 DEF CacheTypeOK

LEMMA InvalidateCache ==
    ASSUME CacheTypeOK, FreshUntilRestart, OrderTypeOK, NEW t \in Threads, Invalidate(t)
    PROVE  CacheTypeOK' /\ FreshUntilRestart'
<1>1. /\ UNCHANGED <<watched, restarts, symbol>>
      /\ \A u \in Threads : pc'[u] = "insert" => pc[u] = "insert"
  BY DEF Invalidate, Goto, OrderTypeOK, market_watch
<1>2. /\ cached' \in Seq(Symbols) /\ Len(cached') <= MaxCached /\ IsInjective(cached')
      /\ \A i \in DOMAIN cached' : \E j \in DOMAIN cached : cached'[i] = cached[j]
  <2>1. CASE UNCHANGED cached
    BY <2>1 DEF CacheTypeOK
  <2>2. ASSUME NEW k \in DOMAIN cached, cached' = RemoveAt(cached, k)
        PROVE  /\ cached' \in Seq(Symbols) /\ Len(cached') <= MaxCached /\ IsInjective(cached')
               /\ \A i \in DOMAIN cached' : \E j \in DOMAIN cached : cached'[i] = cached[j]
    <3>1. /\ cached \in Seq(Symbols) /\ Len(cached) \in Nat /\ Len(cached) <= MaxCached
          /\ IsInjective(cached) /\ MaxCached \in Nat
      BY SymbolCacheAssumption, LenProperties DEF CacheTypeOK
    <3>2. /\ cached' \in Seq(Symbols) /\ Len(cached') = Len(cached) - 1 /\ IsInjective(cached')
          /\ \A i \in DOMAIN cached' : \E j \in DOMAIN cached : cached'[i] = cached[j]
      BY <2>2, <3>1, RemovalShrinks
    <3> QED
      BY <3>1, <3>2
  <2> QED
    BY <2>1, <2>2 DEF Invalidate
<1> QED
  BY <1>1, <1>2 DEF CacheTypeOK, FreshUntilRestart

LEMMA NextCache ==
    CacheTypeOK /\ FreshUntilRestart /\ OrderTypeOK /\ [Next]_vars
        => CacheTypeOK' /\ FreshUntilRestart'
<1> SUFFICES ASSUME CacheTypeOK, FreshUntilRestart, OrderTypeOK, [Next]_vars
             PROVE  CacheTypeOK' /\ FreshUntilRestart'
  OBVIOUS
<1> USE OrderIntakeAssumption
<1>1. ASSUME NEW t \in Threads, NEW label, label # "insert", Goto(t, label),
             UNCHANGED <<cached, market_watch, symbol>>
      PROVE  CacheTypeOK' /\ FreshUntilRestart'
  <2>1. \A u \in Threads : pc'[u] = "insert" => pc[u] = "insert"
    BY <1>1 DEF Goto, OrderTypeOK
  <2>2. symbol' \in [Threads -> Symbols]
    BY <1>1 DEF CacheTypeOK
  <2> QED
    BY <1>1, <2>1, <2>2, CacheUntouched
<1>2. ASSUME NEW t \in Threads, NEW s \in Symbols, NEW r \in {"symbol", "data"}, Read(t, r, s)
      PROVE  CacheTypeOK' /\ FreshUntilRestart'
  <2>1. /\ UNCHANGED <<cached, market_watch>> /\ symbol' \in [Threads -> Symbols]
        /\ \A u \in Threads : pc'[u] = "insert" => pc[u] = "insert" /\ symbol'[u] = symbol[u]
    BY <1>2 DEF Read, Goto, OrderTypeOK, CacheTypeOK
  <2> QED
    BY <2>1, CacheUntouched
<1>3. ASSUME NEW t \in Posters, NEW b \in Bodies,
             PostOrder(t, b) \/ PostOrderCheck(t, b) \/ PostOrderCalc(t, b)
      PROVE  CacheTypeOK' /\ FreshUntilRestart'
  <2>1. (\E r : Arrive(t, r, b)) /\ \E label \in {"lookup", "idle"} : Goto(t, label)
    BY <1>3 DEF PostOrder, PostOrderCheck, PostOrderCalc, Accept, End
  <2>2. /\ UNCHANGED <<cached, market_watch>> /\ symbol' \in [Threads -> Symbols]
        /\ \A u \in Threads : pc'[u] = "insert" => pc[u] = "insert" /\ symbol'[u] = symbol[u]
    BY <2>1 DEF Arrive, Goto, OrderTypeOK, CacheTypeOK
  <2> QED
    BY <2>2, CacheUntouched
<1>4. ASSUME NEW t \in Threads, Work(t)
      PROVE  CacheTypeOK' /\ FreshUntilRestart'
  <2>1. CASE Lookup(t) \/ SelectFails(t) \/ ReadSymbol(t) \/ ReadData(t)
    BY <1>1, <2>1 DEF Lookup, SelectFails, ReadSymbol, ReadData
  <2>2. CASE Select(t)
    <3>1. /\ UNCHANGED <<cached, restarts, symbol>> /\ watched' = watched \cup {symbol[t]}
          /\ \A u \in Threads : pc'[u] = "insert" => pc[u] = "insert" \/ u = t
      BY <2>2 DEF Select, Goto, OrderTypeOK
    <3> QED
      BY <3>1 DEF CacheTypeOK, FreshUntilRestart
  <2>3. CASE t \in Posters /\ OrderStep(t)
    <3>1. UNCHANGED <<cached, market_watch, symbol>>
      BY <2>3 DEF OrderStep, OrderCheck, OrderCalc, Volume, Price, PendingPrice, Band, Levels,
                  BrokerCheck, OrderSend, Poll, FillUnresolved, Handles
    <3>2. pc' = pc \/ \E label : label # "insert" /\ Goto(t, label)
      BY <2>3 DEF OrderStep, OrderCheck, OrderCalc, Volume, Price, PendingPrice, Band, Levels,
                  BrokerCheck, OrderSend, Poll, FillUnresolved, Refuse, Pass, Priced, End
    <3>3. CASE pc' = pc
      BY <3>1, <3>3, CacheUntouched DEF CacheTypeOK
    <3> QED
      BY <1>1, <3>1, <3>2, <3>3
  <2> QED
    BY <1>4, <2>1, <2>2, <2>3, InsertCache, InvalidateCache DEF Work, CacheStep, NotSelectable
<1>5. CASE MarketMoves \/ UNCHANGED vars
  BY <1>5, CacheUntouched DEF MarketMoves, vars, cacheVars, CacheTypeOK
<1>6. CASE TerminalRestart
  BY <1>6, SymbolCacheAssumption DEF TerminalRestart, CacheTypeOK, FreshUntilRestart
<1> QED
  BY <1>2, <1>3, <1>4, <1>5, <1>6 DEF Next

\* The whole state keeps its types: the cache in particular never holds more
\* than its limit and never the same symbol twice, however the request
\* threads' lookups, insertions and invalidations interleave.
THEOREM CacheIsBounded == Spec => []TypeOK
<1>1. Init => OrderTypeOK /\ IntakeInv /\ CacheTypeOK /\ FreshUntilRestart
  BY InitType, InitIntake, InitCache
<1>2. OrderTypeOK /\ CacheTypeOK => TypeOK
  BY DEF TypeOK
<1> QED
  BY <1>1, <1>2, NextIntake, NextCache, PTL DEF Spec

\* The cache vouches for a symbol the terminal has no quotes of only once
\* the terminal has restarted: no interleaving of the request threads by
\* themselves makes it stale.
THEOREM StaleOnlyAfterRestart ==
    Spec => [](\A s \in Symbols : Stale(s) => restarts > 0)
<1>1. CacheTypeOK /\ FreshUntilRestart => \A s \in Symbols : Stale(s) => restarts > 0
  <2> SUFFICES ASSUME CacheTypeOK, FreshUntilRestart, NEW s \in Symbols, Stale(s)
               PROVE  restarts > 0
    OBVIOUS
  <2>1. restarts \in Nat /\ DOMAIN cached = 1..Len(cached)
    BY SymbolCacheAssumption, LenProperties DEF CacheTypeOK
  <2> QED
    BY <2>1 DEF FreshUntilRestart, Stale, Contains
<1>2. Init => OrderTypeOK /\ IntakeInv /\ CacheTypeOK /\ FreshUntilRestart
  BY InitType, InitIntake, InitCache
<1> QED
  BY <1>1, <1>2, NextIntake, NextCache, PTL DEF Spec
=============================================================================
