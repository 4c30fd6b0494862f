--------------------------- MODULE ProtectionProofs ---------------------------
(***************************************************************************)
(* A pending order is never left unprotected and a modification keeps what *)
(* it does not name, for any number of requests and tickets, any levels    *)
(* and any retcodes.                                                       *)
(***************************************************************************)
EXTENDS Protection, TLAPS

-----------------------------------------------------------------------------
(* Levels.                                                                 *)

\* What a request sends has the type of levels.
LEMMA WantTyped ==
    ASSUME NEW c \in Named, NEW read \in Levels
    PROVE  Want(c, read) \in Levels
  BY DEF Want, Resolved, Named, Levels, Keep

\* Levels that pass validate_sl_tp protect an order that is no stop-limit
\* order: for those two lists of buy orders are the same.
LEMMA ValidProtects ==
    ASSUME NEW t \in OrderTypes \ (MarketTypes \cup StopLimitTypes), NEW l \in Levels,
           ProtectionValid(t, l.price, None(l.sl), None(l.tp))
    PROVE  LevelsProtect(t, l)
<1>1. t \in RatedAsBuy <=> t \in BuyTypes
  BY DEF OrderTypes, MarketTypes, StopLimitTypes, RatedAsBuy, BuyTypes
<1>2. l.sl \in Nat /\ l.tp \in Nat /\ l.price \in Nat
  BY DEF Levels
<1>3. ASSUME l.sl > 0
      PROVE  IF t \in BuyTypes THEN l.sl < l.price ELSE l.sl > l.price
  <2>1. None(l.sl) = l.sl /\ None(l.sl) # NoLevel
    BY <1>2, <1>3 DEF None, NoLevel
  <2> QED
    BY <2>1, <1>1 DEF ProtectionValid, StopLossValid
<1>4. ASSUME l.tp > 0
      PROVE  IF t \in BuyTypes THEN l.tp > l.price ELSE l.tp < l.price
  <2>1. None(l.tp) = l.tp /\ None(l.tp) # NoLevel
    BY <1>2, <1>4 DEF None, NoLevel
  <2> QED
    BY <2>1, <1>1 DEF ProtectionValid, TakeProfitValid
<1> QED
  BY <1>3, <1>4 DEF LevelsProtect, Protects

-----------------------------------------------------------------------------
(* Types.                                                                  *)

LEMMA InitType == Init => TypeOK
<1> SUFFICES ASSUME Init PROVE TypeOK
  OBVIOUS
<1> USE ProtectionAssumption DEF Init
<1>1. /\ type \in [Tickets -> OrderTypes \ (MarketTypes \cup StopLimitTypes)]
      /\ levels \in [Tickets -> Levels]
  <2>1. PICK o \in [Tickets -> Placed] :
           /\ type = [t \in Tickets |-> o[t].type]
           /\ levels = [t \in Tickets |-> o[t].levels]
    OBVIOUS
  <2> QED
    BY <2>1
<1>2. NoChange \in Named /\ NoLevels \in Levels
  BY DEF NoChange, NoLevels, Named, Levels
<1>3. (CHOOSE t \in Tickets : TRUE) \in Tickets
  OBVIOUS
<1> QED
  BY <1>1, <1>2, <1>3 DEF TypeOK, Answers

\* The pieces a request's steps are made of.
LEMMA EndTyped ==
    ASSUME TypeOK, NEW w \in Workers, NEW a \in Answers, End(w, a)
    PROVE  /\ pc' \in [Workers -> {"idle", "judge", "send"}]
           /\ answer' \in [Workers -> Answers]
           /\ change' \in [Workers -> Named]
           /\ want' \in [Workers -> Levels]
<1>1. NoChange \in Named /\ NoLevels \in Levels
  BY DEF NoChange, NoLevels, Named, Levels
<1> QED
  BY <1>1 DEF TypeOK, End

LEMMA AcceptTyped ==
    ASSUME TypeOK, NEW w \in Workers, NEW c \in Named, NEW l \in Levels,
           NEW label \in {"judge", "send"}, Accept(w, c, l, label)
    PROVE  /\ pc' \in [Workers -> {"idle", "judge", "send"}]
           /\ answer' \in [Workers -> Answers]
           /\ change' \in [Workers -> Named]
           /\ want' \in [Workers -> Levels]
  BY DEF TypeOK, Accept, Answers

LEMMA AnswerTyped ==
    ASSUME NEW r
    PROVE  AnswerTo(r) \in Answers
  BY DEF AnswerTo, AnswerFor, Answers

LEMMA AppliedTyped ==
    ASSUME TypeOK, NEW w \in Workers, Applied(w)
    PROVE  /\ levels' \in [Tickets -> Levels]
           /\ overtaken' \in [Workers -> BOOLEAN]
<1>1. levels[ticket[w]] \in Levels /\ want[w] \in Levels /\ ticket[w] \in Tickets
  BY DEF TypeOK
<1>2. Written(w) \in Levels
  BY <1>1 DEF Levels, Written
<1>3. levels' \in [Tickets -> Levels]
  BY <1>1, <1>2 DEF TypeOK, Applied
<1>4. overtaken' \in [Workers -> BOOLEAN]
  BY DEF TypeOK, Applied
<1> QED
  BY <1>3, <1>4

LEMMA NextType == TypeOK /\ [Next]_vars => TypeOK'
<1> SUFFICES ASSUME TypeOK, [Next]_vars PROVE TypeOK'
  OBVIOUS
<1> USE ProtectionAssumption
<1>1. ASSUME NEW w \in Workers, NEW t \in Tickets, NEW c \in Changes, PutOrder(w, t, c)
      PROVE  TypeOK'
  <2>1. /\ route' \in [Workers -> {"order", "position"}]
        /\ ticket' \in [Workers -> Tickets]
        /\ overtaken' \in [Workers -> BOOLEAN]
        /\ UNCHANGED <<market, levels>>
    BY <1>1 DEF TypeOK, PutOrder, Begin
  <2>2. Want(c, levels[t]) \in Levels
    BY WantTyped DEF TypeOK
  <2>3. \/ \E a \in Answers : End(w, a)
        \/ Accept(w, c, Want(c, levels[t]), "judge")
    BY <1>1 DEF PutOrder, Answers
  <2>4. /\ pc' \in [Workers -> {"idle", "judge", "send"}]
        /\ answer' \in [Workers -> Answers]
        /\ change' \in [Workers -> Named]
        /\ want' \in [Workers -> Levels]
    BY <2>2, <2>3, EndTyped, AcceptTyped
  <2> QED
    BY <2>1, <2>4 DEF TypeOK, market
<1>2. ASSUME NEW w \in Workers, NEW t \in Tickets, NEW c \in Changes, ModifySltp(w, t, c)
      PROVE  TypeOK'
  <2>1. /\ route' \in [Workers -> {"order", "position"}]
        /\ ticket' \in [Workers -> Tickets]
        /\ overtaken' \in [Workers -> BOOLEAN]
        /\ UNCHANGED <<market, levels>>
    BY <1>2 DEF TypeOK, ModifySltp, Begin
  <2>2. Want(c, levels[t]) \in Levels
    BY WantTyped DEF TypeOK
  <2>3. \/ \E a \in Answers : End(w, a)
        \/ Accept(w, c, Want(c, levels[t]), "send")
    BY <1>2 DEF ModifySltp, Answers
  <2>4. /\ pc' \in [Workers -> {"idle", "judge", "send"}]
        /\ answer' \in [Workers -> Answers]
        /\ change' \in [Workers -> Named]
        /\ want' \in [Workers -> Levels]
    BY <2>2, <2>3, EndTyped, AcceptTyped
  <2> QED
    BY <2>1, <2>4 DEF TypeOK, market
<1>3. ASSUME NEW w \in Workers, Judge(w)
      PROVE  TypeOK'
  <2>1. CASE Proceed(w, "send")
    BY <1>3, <2>1 DEF TypeOK, Judge, Proceed, market
  <2>2. CASE End(w, "invalid")
    <3>1. /\ pc' \in [Workers -> {"idle", "judge", "send"}]
          /\ answer' \in [Workers -> Answers]
          /\ change' \in [Workers -> Named]
          /\ want' \in [Workers -> Levels]
      BY <2>2, EndTyped DEF Answers
    <3> QED
      BY <1>3, <3>1 DEF TypeOK, Judge, market
  <2> QED
    BY <1>3, <2>1, <2>2 DEF Judge
<1>4. ASSUME NEW w \in Workers, OrderSend(w)
      PROVE  TypeOK'
  <2>1. PICK r \in Codes \cup {NoReply, Raised} :
           /\ UNCHANGED <<levels, overtaken>> \/ Applied(w)
           /\ End(w, AnswerTo(r))
    BY <1>4 DEF OrderSend
  <2>2. levels' \in [Tickets -> Levels] /\ overtaken' \in [Workers -> BOOLEAN]
    BY <2>1, AppliedTyped DEF TypeOK
  <2>3. /\ pc' \in [Workers -> {"idle", "judge", "send"}]
        /\ answer' \in [Workers -> Answers]
        /\ change' \in [Workers -> Named]
        /\ want' \in [Workers -> Levels]
    BY <2>1, EndTyped, AnswerTyped
  <2> QED
    BY <1>4, <2>2, <2>3 DEF TypeOK, OrderSend, market
<1>5. ASSUME NEW t \in Tickets, Trigger(t) \/ Leaves(t)
      PROVE  TypeOK'
  BY <1>5 DEF TypeOK, Trigger, Leaves, request
<1>6. CASE MarketMoves
  BY <1>6 DEF TypeOK, MarketMoves, request
<1>7. CASE UNCHANGED vars
  BY <1>7 DEF TypeOK, vars, market, request
<1> QED
  BY <1>1, <1>2, <1>3, <1>4, <1>5, <1>6, <1>7 DEF Next

\* Every variable keeps its type.
THEOREM TypeCorrect == Spec => []TypeOK
<1> QED
  BY InitType, NextType, PTL DEF Spec

-----------------------------------------------------------------------------
(* No pending order rests unprotected.                                     *)

\* What a PUT request is about to send protects the order as a whole.
JudgedOrders ==
    \A w \in Workers :
        pc[w] = "send" /\ route[w] = "order" => LevelsProtect(type[ticket[w]], want[w])

RestInv == RestingOrderProtected /\ JudgedOrders

LEMMA InitRest == Init => RestInv
<1> SUFFICES ASSUME Init PROVE RestInv
  OBVIOUS
<1>1. PICK o \in [Tickets -> Placed] :
         /\ type = [t \in Tickets |-> o[t].type]
         /\ levels = [t \in Tickets |-> o[t].levels]
  BY DEF Init
<1>2. ASSUME NEW t \in Tickets PROVE LevelsProtect(type[t], levels[t])
  <2>1. o[t] \in Placed /\ type[t] = o[t].type /\ levels[t] = o[t].levels
    BY <1>1
  <2> QED
    BY <2>1, ProtectionAssumption
<1> QED
  BY <1>2 DEF Init, RestInv, RestingOrderProtected, JudgedOrders

\* A request that ends or begins leaves the book and the other requests alone.
LEMMA EndKeepsJudged ==
    ASSUME TypeOK, JudgedOrders, NEW w \in Workers, NEW a, End(w, a),
           \A v \in Workers : v # w => route'[v] = route[v] /\ ticket'[v] = ticket[v],
           UNCHANGED type
    PROVE  JudgedOrders'
<1> SUFFICES ASSUME NEW v \in Workers, pc'[v] = "send", route'[v] = "order"
             PROVE  LevelsProtect(type'[ticket'[v]], want'[v])
  BY DEF JudgedOrders
<1>1. v # w /\ pc[v] = "send" /\ want'[v] = want[v]
  BY DEF End, TypeOK
<1> QED
  BY <1>1 DEF JudgedOrders

LEMMA AcceptKeepsJudged ==
    ASSUME TypeOK, JudgedOrders, NEW w \in Workers, NEW c, NEW l, NEW label,
           Accept(w, c, l, label), label = "judge" \/ route'[w] # "order",
           \A v \in Workers : v # w => route'[v] = route[v] /\ ticket'[v] = ticket[v],
           UNCHANGED type
    PROVE  JudgedOrders'
<1> SUFFICES ASSUME NEW v \in Workers, pc'[v] = "send", route'[v] = "order"
             PROVE  LevelsProtect(type'[ticket'[v]], want'[v])
  BY DEF JudgedOrders
<1>1. v # w /\ pc[v] = "send" /\ want'[v] = want[v]
  BY DEF Accept, TypeOK
<1> QED
  BY <1>1 DEF JudgedOrders

LEMMA NextRest == TypeOK /\ RestInv /\ [Next]_vars => RestInv'
<1> SUFFICES ASSUME TypeOK, RestInv, [Next]_vars PROVE RestInv'
  OBVIOUS
<1> USE DEF RestInv
<1>1. ASSUME NEW w \in Workers, NEW t \in Tickets, NEW c \in Changes, PutOrder(w, t, c)
      PROVE  RestInv'
  <2>1. /\ UNCHANGED <<bid, type, stage, levels>>
        /\ \A v \in Workers : v # w => route'[v] = route[v] /\ ticket'[v] = ticket[v]
    BY <1>1 DEF PutOrder, Begin, market, TypeOK
  <2>2. (\E a : End(w, a)) \/ Accept(w, c, Want(c, levels[t]), "judge")
    BY <1>1 DEF PutOrder
  <2>3. JudgedOrders'
    BY <2>1, <2>2, EndKeepsJudged, AcceptKeepsJudged
  <2> QED
    BY <2>1, <2>3 DEF RestingOrderProtected
<1>2. ASSUME NEW w \in Workers, NEW t \in Tickets, NEW c \in Changes, ModifySltp(w, t, c)
      PROVE  RestInv'
  <2>1. /\ UNCHANGED <<bid, type, stage, levels>>
        /\ \A v \in Workers : v # w => route'[v] = route[v] /\ ticket'[v] = ticket[v]
        /\ route'[w] = "position"
    BY <1>2 DEF ModifySltp, Begin, market, TypeOK
  <2>2. (\E a : End(w, a)) \/ Accept(w, c, Want(c, levels[t]), "send")
    BY <1>2 DEF ModifySltp
  <2>3. JudgedOrders'
    BY <2>1, <2>2, EndKeepsJudged, AcceptKeepsJudged
  <2> QED
    BY <2>1, <2>3 DEF RestingOrderProtected
<1>3. ASSUME NEW w \in Workers, Judge(w)
      PROVE  RestInv'
  <2>1. UNCHANGED <<bid, type, stage, levels, route, ticket>>
    BY <1>3 DEF Judge, market
  <2>2. JudgedOrders'
    <3>1. CASE End(w, "invalid")
      BY <2>1, <3>1, EndKeepsJudged
    <3>2. CASE Judged(w) /\ Proceed(w, "send")
      <4>1. LevelsProtect(type[ticket[w]], want[w])
        BY <3>2, ValidProtects DEF TypeOK, Judged
      <4> QED
        BY <2>1, <3>2, <4>1 DEF JudgedOrders, Proceed, TypeOK
    <3> QED
      BY <1>3, <3>1, <3>2 DEF Judge
  <2> QED
    BY <2>1, <2>2 DEF RestingOrderProtected
<1>4. ASSUME NEW w \in Workers, OrderSend(w)
      PROVE  RestInv'
  <2>1. UNCHANGED <<bid, type, stage, route, ticket>> /\ pc[w] = "send"
    BY <1>4 DEF OrderSend, market
  <2>2. PICK r \in Codes \cup {NoReply, Raised} :
           /\ UNCHANGED levels \/ Applied(w)
           /\ End(w, AnswerTo(r))
    BY <1>4 DEF OrderSend
  <2>3. JudgedOrders'
    BY <2>1, <2>2, EndKeepsJudged
  <2>4. ASSUME NEW t \in Tickets, stage[t] = "pending", Applied(w)
        PROVE  LevelsProtect(type[t], levels'[t])
    <3>1. CASE t = ticket[w]
      <4>1. route[w] = "order"
        BY <2>4, <3>1 DEF Applied, TypeOK
      <4>2. levels'[t] = want[w]
        BY <2>4, <3>1, <4>1 DEF Applied, Written, TypeOK
      <4> QED
        BY <2>1, <3>1, <4>1, <4>2 DEF JudgedOrders
    <3>2. CASE t # ticket[w]
      <4>1. levels'[t] = levels[t]
        BY <2>4, <3>2 DEF Applied, TypeOK
      <4> QED
        BY <2>4, <4>1 DEF RestingOrderProtected
    <3> QED
      BY <3>1, <3>2
  <2> QED
    BY <2>1, <2>2, <2>3, <2>4 DEF RestingOrderProtected
<1>5. ASSUME NEW t \in Tickets, Trigger(t) \/ Leaves(t)
      PROVE  RestInv'
  BY <1>5 DEF TypeOK, Trigger, Leaves, request, RestingOrderProtected, JudgedOrders
<1>6. CASE MarketMoves
  BY <1>6 DEF MarketMoves, request, RestingOrderProtected, JudgedOrders
<1>7. CASE UNCHANGED vars
  BY <1>7 DEF vars, market, request, RestingOrderProtected, JudgedOrders
<1> QED
  BY <1>1, <1>2, <1>3, <1>4, <1>5, <1>6, <1>7 DEF Next

\* However requests overlap, a pending order never rests with a stop loss or
\* a take profit on the wrong side of its price (modify_order).
THEOREM RestingProtected == Spec => []RestingOrderProtected
<1>1. Init => TypeOK /\ RestInv
  BY InitType, InitRest
<1>2. TypeOK /\ RestInv /\ [Next]_vars => TypeOK' /\ RestInv'
  BY NextType, NextRest
<1>3. RestInv => RestingOrderProtected
  BY DEF RestInv
<1> QED
  BY <1>1, <1>2, <1>3, PTL DEF Spec

-----------------------------------------------------------------------------
(* What a body does not name stays.                                        *)

Agrees(w, f) == change[w][f] = Keep => want[w][f] = levels[ticket[w]][f]

\* Until another request changes its ticket, what a request has read is what
\* the trade server has.
ReadIsCurrent ==
    \A w \in Workers : pc[w] # "idle" /\ ~overtaken[w] =>
        Agrees(w, "price") /\ Agrees(w, "sl") /\ Agrees(w, "tp") /\ Agrees(w, "expiry")

LEMMA WantAgrees ==
    ASSUME NEW c \in Named, NEW read \in Levels, NEW f \in {"price", "sl", "tp", "expiry"},
           c[f] = Keep
    PROVE  Want(c, read)[f] = read[f]
  BY DEF Want, Resolved, Named, Levels, Keep

LEMMA InitRead == Init => ReadIsCurrent
  BY DEF Init, ReadIsCurrent

\* A request other than the one that takes a step, which changes no levels,
\* keeps its locals.
LEMMA OthersKeepRead ==
    ASSUME TypeOK, ReadIsCurrent, UNCHANGED levels, NEW v \in Workers,
           pc'[v] = pc[v], ticket'[v] = ticket[v], change'[v] = change[v],
           want'[v] = want[v], overtaken'[v] = overtaken[v],
           pc'[v] # "idle", ~overtaken'[v]
    PROVE  Agrees(v, "price")' /\ Agrees(v, "sl")' /\ Agrees(v, "tp")' /\ Agrees(v, "expiry")'
  BY DEF ReadIsCurrent, Agrees

LEMMA BeginReads ==
    ASSUME TypeOK, ReadIsCurrent, NEW w \in Workers, NEW r, NEW t \in Tickets,
           NEW c \in Changes, NEW label, Begin(w, r, t),
           (\E a : End(w, a)) \/ Accept(w, c, Want(c, levels[t]), label)
    PROVE  ReadIsCurrent'
<1> SUFFICES ASSUME NEW v \in Workers, pc'[v] # "idle", ~overtaken'[v]
             PROVE  /\ Agrees(v, "price")' /\ Agrees(v, "sl")'
                    /\ Agrees(v, "tp")' /\ Agrees(v, "expiry")'
  BY DEF ReadIsCurrent
<1>1. CASE v # w
  <2>1. /\ UNCHANGED levels
        /\ ticket'[v] = ticket[v] /\ overtaken'[v] = overtaken[v]
    BY <1>1 DEF TypeOK, Begin
  <2>2. pc'[v] = pc[v] /\ change'[v] = change[v] /\ want'[v] = want[v]
    BY <1>1 DEF TypeOK, End, Accept
  <2> QED
    BY <2>1, <2>2, OthersKeepRead
<1>2. CASE v = w
  <2>1. UNCHANGED levels /\ ticket'[w] = t
    BY DEF TypeOK, Begin
  <2>2. change'[w] = c /\ want'[w] = Want(c, levels[t])
    BY <1>2 DEF TypeOK, End, Accept
  <2>3. c \in Named /\ levels[t] \in Levels
    BY ProtectionAssumption DEF TypeOK
  <2> QED
    BY <1>2, <2>1, <2>2, <2>3, WantAgrees DEF Agrees
<1> QED
  BY <1>1, <1>2

LEMMA NextRead == TypeOK /\ ReadIsCurrent /\ [Next]_vars => ReadIsCurrent'
<1> SUFFICES ASSUME TypeOK, ReadIsCurrent, [Next]_vars PROVE ReadIsCurrent'
  OBVIOUS
<1>1. ASSUME NEW w \in Workers, NEW t \in Tickets, NEW c \in Changes, PutOrder(w, t, c)
      PROVE  ReadIsCurrent'
  BY <1>1, BeginReads DEF PutOrder
<1>2. ASSUME NEW w \in Workers, NEW t \in Tickets, NEW c \in Changes, ModifySltp(w, t, c)
      PROVE  ReadIsCurrent'
  BY <1>2, BeginReads DEF ModifySltp
<1>3. ASSUME NEW w \in Workers, Judge(w)
      PROVE  ReadIsCurrent'
  <2> SUFFICES ASSUME NEW v \in Workers, pc'[v] # "idle", ~overtaken'[v]
               PROVE  /\ Agrees(v, "price")' /\ Agrees(v, "sl")'
                      /\ Agrees(v, "tp")' /\ Agrees(v, "expiry")'
    BY DEF ReadIsCurrent
  <2>1. UNCHANGED <<levels, ticket, overtaken>>
    BY <1>3 DEF Judge
  <2>2. pc[v] # "idle" /\ change'[v] = change[v] /\ want'[v] = want[v]
    BY <1>3 DEF Judge, Proceed, End, TypeOK
  <2> QED
    BY <2>1, <2>2 DEF ReadIsCurrent, Agrees
<1>4. ASSUME NEW w \in Workers, OrderSend(w)
      PROVE  ReadIsCurrent'
  <2> SUFFICES ASSUME NEW v \in Workers, pc'[v] # "idle", ~overtaken'[v]
               PROVE  /\ Agrees(v, "price")' /\ Agrees(v, "sl")'
                      /\ Agrees(v, "tp")' /\ Agrees(v, "expiry")'
    BY DEF ReadIsCurrent
  <2>1. PICK r \in Codes \cup {NoReply, Raised} :
           /\ UNCHANGED <<levels, overtaken>> \/ Applied(w)
           /\ End(w, AnswerTo(r))
    BY <1>4 DEF OrderSend
  <2>2. ticket' = ticket
    BY <1>4 DEF OrderSend
  <2>3. v # w /\ pc'[v] = pc[v] /\ change'[v] = change[v] /\ want'[v] = want[v]
    BY <2>1 DEF End, TypeOK
  <2>4. CASE UNCHANGED <<levels, overtaken>>
    BY <2>2, <2>3, <2>4, OthersKeepRead
  <2>5. CASE Applied(w)
    <3>1. ~overtaken[v] /\ ticket[v] # ticket[w]
      BY <2>3, <2>5 DEF Applied, TypeOK
    <3>2. levels'[ticket[v]] = levels[ticket[v]]
      BY <2>5, <3>1 DEF Applied, TypeOK
    <3> QED
      BY <2>2, <2>3, <3>1, <3>2 DEF ReadIsCurrent, Agrees
  <2> QED
    BY <2>1, <2>4, <2>5
<1>5. ASSUME NEW t \in Tickets, Trigger(t) \/ Leaves(t)
      PROVE  ReadIsCurrent'
  BY <1>5 DEF Trigger, Leaves, request, ReadIsCurrent, Agrees
<1>6. CASE MarketMoves
  BY <1>6 DEF MarketMoves, request, ReadIsCurrent, Agrees
<1>7. CASE UNCHANGED vars
  BY <1>7 DEF vars, market, request, ReadIsCurrent, Agrees
<1> QED
  BY <1>1, <1>2, <1>3, <1>4, <1>5, <1>6, <1>7 DEF Next

\* Only its own order_send ends a request that is at it.
LEMMA OnlySendEnds ==
    ASSUME TypeOK, [Next]_vars, NEW w \in Workers, pc[w] = "send", pc'[w] = "idle"
    PROVE  OrderSend(w)
<1>1. ASSUME NEW v \in Workers, NEW t \in Tickets, NEW c \in Changes,
             PutOrder(v, t, c) \/ ModifySltp(v, t, c)
      PROVE  FALSE
  <2>1. pc[v] = "idle"
    BY <1>1 DEF PutOrder, ModifySltp, Begin
  <2>2. (\E a : End(v, a)) \/ (\E l, label : Accept(v, c, l, label))
    BY <1>1 DEF PutOrder, ModifySltp
  <2> QED
    BY <2>1, <2>2 DEF End, Accept, TypeOK
<1>2. ASSUME NEW v \in Workers, Judge(v)
      PROVE  FALSE
  BY <1>2 DEF Judge, Proceed, End, TypeOK
<1>3. ASSUME NEW v \in Workers, OrderSend(v)
      PROVE  v = w
  BY <1>3 DEF OrderSend, End, TypeOK
<1>4. ASSUME NEW t \in Tickets, Trigger(t) \/ Leaves(t)
      PROVE  FALSE
  BY <1>4 DEF Trigger, Leaves
<1>5. ~MarketMoves /\ ~UNCHANGED vars
  BY DEF MarketMoves, vars
<1> QED
  BY <1>1, <1>2, <1>3, <1>4, <1>5 DEF Next

\* A modification changes nothing its body does not name, as long as no other
\* request changed the ticket after it was read.
THEOREM OmissionKept == Spec => OmissionKeepsLevels
<1> DEFINE Step == \A w \in Workers :
                      pc[w] = "send" /\ pc'[w] = "idle" /\ ~overtaken[w] => OmittedKept(w)
<1>1. TypeOK /\ ReadIsCurrent /\ [Next]_vars => Step
  <2> SUFFICES ASSUME TypeOK, ReadIsCurrent, [Next]_vars, NEW w \in Workers,
                      pc[w] = "send", pc'[w] = "idle", ~overtaken[w]
               PROVE  OmittedKept(w)
    OBVIOUS
  <2>1. OrderSend(w)
    BY OnlySendEnds
  <2>2. UNCHANGED levels \/ levels'[ticket[w]] = Written(w)
    BY <2>1 DEF OrderSend, Applied, TypeOK
  <2>3. Agrees(w, "price") /\ Agrees(w, "sl") /\ Agrees(w, "tp") /\ Agrees(w, "expiry")
    BY DEF ReadIsCurrent
  <2>4. CASE UNCHANGED levels
    BY <2>4 DEF OmittedKept
  <2>5. CASE levels'[ticket[w]] = Written(w)
    BY <2>3, <2>5 DEF OmittedKept, Written, Agrees
  <2> QED
    BY <2>2, <2>4, <2>5
<1>2. TypeOK /\ ReadIsCurrent /\ [Next]_vars => [Step]_vars
  BY <1>1
<1>3. Spec => []TypeOK /\ []ReadIsCurrent /\ [][Next]_vars
  BY InitType, NextType, InitRead, NextRead, PTL DEF Spec
<1>4. Spec => [][Step]_vars
  BY <1>2, <1>3, PTL
<1> QED
  BY <1>4 DEF OmissionKeepsLevels

-----------------------------------------------------------------------------
(* What the answers say.                                                   *)

\* The answer is a verdict on what the trade server did.
LEMMA VerdictIsTrue ==
    ASSUME NEW r
    PROVE  /\ AnswerTo(r) = "ok" => r # NoReply /\ r # Raised /\ ServerPlaced(r)
           /\ AnswerTo(r) \in {"mt5_rejected", "retryable"} =>
                r # NoReply /\ r # Raised /\ ServerRefused(r)
  BY DEF AnswerTo, AnswerFor, ClassifyRetcode, ServerPlaced, ServerRefused

\* A modification answered as done was applied, one answered as rejected
\* changed nothing.
THEOREM AnswersHonest == Spec => ModifyAnswersHonest
<1> DEFINE Step == \A w \in Workers : pc[w] = "send" /\ pc'[w] = "idle" => AnswerTrue(w)
<1>1. TypeOK /\ [Next]_vars => Step
  <2> SUFFICES ASSUME TypeOK, [Next]_vars, NEW w \in Workers, pc[w] = "send", pc'[w] = "idle"
               PROVE  AnswerTrue(w)
    OBVIOUS
  <2>1. PICK r \in Codes \cup {NoReply, Raised} :
           /\ \/ (r = Raised \/ r = NoReply \/ ~ServerPlaced(r)) /\ UNCHANGED levels
              \/ (r = NoReply \/ ~ServerRefused(r)) /\ Applied(w)
           /\ End(w, AnswerTo(r))
    BY OnlySendEnds DEF OrderSend
  <2>2. answer'[w] = AnswerTo(r)
    BY <2>1 DEF End, TypeOK
  <2>3. CASE UNCHANGED levels /\ (r = Raised \/ r = NoReply \/ ~ServerPlaced(r))
    BY <2>2, <2>3, VerdictIsTrue DEF AnswerTrue
  <2>4. CASE Applied(w) /\ (r = NoReply \/ ~ServerRefused(r))
    <3>1. levels'[ticket[w]] = Written(w)
      BY <2>4 DEF Applied, TypeOK
    <3>2. Written(w).sl = want[w].sl /\ Written(w).tp = want[w].tp
      BY DEF Written
    <3> QED
      BY <2>2, <2>4, <3>1, <3>2, VerdictIsTrue DEF AnswerTrue
  <2> QED
    BY <2>1, <2>3, <2>4
<1>2. TypeOK /\ [Next]_vars => [Step]_vars
  BY <1>1
<1>3. Spec => [][Step]_vars
  BY <1>2, InitType, NextType, PTL DEF Spec
<1> QED
  BY <1>3 DEF ModifyAnswersHonest
=============================================================================
