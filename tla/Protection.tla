------------------------------ MODULE Protection ------------------------------
(***************************************************************************)
(* PUT /orders/<ticket> (app/routes/order.py) and POST /modify_sl_tp       *)
(* (app/routes/position.py): both read the order or the position, fill in  *)
(* the levels the body leaves out, and send the trade server all of them.  *)
(* In between the market moves, the order triggers or goes away, and       *)
(* another request modifies the same ticket.                               *)
(***************************************************************************)
EXTENDS OrderRules, Retcodes

CONSTANTS
    Workers,    \* request threads
    Tickets,    \* a pending order and the position it becomes share a ticket
    Bids,       \* bound: the bids the market may show
    Spread,     \* ask - bid
    Info,       \* what symbol_info() says of the symbol
    Changes,    \* bound: what a body may name
    Placed,     \* bound: the orders that rest at first, with their levels
    Codes,      \* bound: retcodes of the trade server
    NoReply,    \* order_send returned None
    Raised      \* order_send raised

Levels == [price : Nat, sl : Nat, tp : Nat, expiry : Nat]
Named == [price : Nat \cup {Keep}, sl : Nat \cup {Keep}, tp : Nat \cup {Keep},
          expiry : Nat \cup {Keep}]

\* The locals of a worker that serves no request.
NoLevels == [price |-> 0, sl |-> 0, tp |-> 0, expiry |-> 0]
NoChange == [price |-> Keep, sl |-> Keep, tp |-> Keep, expiry |-> Keep]

\* A resting order protects its owner; stop-limit orders are another matter.
LevelsProtect(type, l) == Protects(type, l.price, l.sl, l.tp)

ASSUME ProtectionAssumption ==
    /\ Tickets # {}
    /\ Bids \subseteq Nat \ {0} /\ Spread \in Nat /\ Info \in [freeze : Nat]
    /\ Changes \subseteq Named
    /\ Placed \subseteq [type : OrderTypes \ (MarketTypes \cup StopLimitTypes), levels : Levels]
    /\ \A o \in Placed : LevelsProtect(o.type, o.levels)
    /\ Codes \subseteq Nat /\ NoReply \notin Codes \cup {Raised} /\ Raised \notin Codes

VARIABLES
    bid,        \* the market
    type,       \* the type of each pending order
    stage,      \* pending, then a position, then gone
    levels,     \* what the trade server has for it
    pc,         \* where each worker is
    route,      \* the route of its request
    ticket,     \* the ticket in it
    change,     \* the levels its body names
    want,       \* the levels it will send
    answer,     \* the last answer of each worker
    overtaken   \* history: another request changed the ticket since it was read

market == <<bid, type, stage>>
request == <<route, ticket, change, want>>
vars == <<market, levels, pc, request, answer, overtaken>>

ask == bid + Spread

Answers == {"none", "invalid", "not_found", "unavailable", "ok", "retryable", "mt5_rejected",
            "unknown_outcome", "error"}

TypeOK ==
    /\ bid \in Bids
    /\ type \in [Tickets -> OrderTypes \ (MarketTypes \cup StopLimitTypes)]
    /\ stage \in [Tickets -> {"pending", "position", "gone"}]
    /\ levels \in [Tickets -> Levels]
    /\ pc \in [Workers -> {"idle", "judge", "send"}]
    /\ route \in [Workers -> {"order", "position"}]
    /\ ticket \in [Workers -> Tickets]
    /\ change \in [Workers -> Named]
    /\ want \in [Workers -> Levels]
    /\ answer \in [Workers -> Answers]
    /\ overtaken \in [Workers -> BOOLEAN]

Init ==
    /\ bid \in Bids
    /\ \E o \in [Tickets -> Placed] :
          /\ type = [t \in Tickets |-> o[t].type]
          /\ levels = [t \in Tickets |-> o[t].levels]
    /\ stage = [t \in Tickets |-> "pending"]
    /\ pc = [w \in Workers |-> "idle"]
    /\ route = [w \in Workers |-> "order"]
    /\ ticket = [w \in Workers |-> CHOOSE t \in Tickets : TRUE]
    /\ change = [w \in Workers |-> NoChange]
    /\ want = [w \in Workers |-> NoLevels]
    /\ answer = [w \in Workers |-> "none"]
    /\ overtaken = [w \in Workers |-> FALSE]

-----------------------------------------------------------------------------
(* Around the gateway.                                                     *)

MarketMoves ==
    /\ bid' \in Bids \ {bid}
    /\ UNCHANGED <<type, stage, levels, pc, request, answer, overtaken>>

\* A pending order triggers and opens a position with its levels.
Trigger(t) ==
    /\ stage[t] = "pending"
    /\ stage' = [stage EXCEPT ![t] = "position"]
    /\ UNCHANGED <<bid, type, levels, pc, request, answer, overtaken>>

\* Cancelled, expired, closed, stopped out.
Leaves(t) ==
    /\ stage[t] # "gone"
    /\ stage' = [stage EXCEPT ![t] = "gone"]
    /\ UNCHANGED <<bid, type, levels, pc, request, answer, overtaken>>

-----------------------------------------------------------------------------
(* The requests.                                                           *)

\* The request is answered; its locals end.
End(w, a) ==
    /\ pc' = [pc EXCEPT ![w] = "idle"]
    /\ answer' = [answer EXCEPT ![w] = a]
    /\ change' = [change EXCEPT ![w] = NoChange]
    /\ want' = [want EXCEPT ![w] = NoLevels]

Proceed(w, label) ==
    /\ pc' = [pc EXCEPT ![w] = label]
    /\ UNCHANGED <<answer, change, want>>

\* What is sent: the named levels, and the others as they were read.
WantDroppingOmitted(c, read) ==
    [f \in {"price", "sl", "tp", "expiry"} |->
        IF f = "price" THEN Resolved(c.price, read.price) ELSE IF c[f] = Keep THEN 0 ELSE c[f]]
Want(c, read) ==
    [price |-> Resolved(c.price, read.price), sl |-> Resolved(c.sl, read.sl),
     tp |-> Resolved(c.tp, read.tp), expiry |-> Resolved(c.expiry, read.expiry)]

Begin(w, r, t) ==
    /\ pc[w] = "idle"
    /\ route' = [route EXCEPT ![w] = r]
    /\ ticket' = [ticket EXCEPT ![w] = t]
    /\ overtaken' = [overtaken EXCEPT ![w] = FALSE]
    /\ UNCHANGED <<market, levels>>

Accept(w, c, l, label) ==
    /\ pc' = [pc EXCEPT ![w] = label]
    /\ answer' = [answer EXCEPT ![w] = "none"]
    /\ change' = [change EXCEPT ![w] = c]
    /\ want' = [want EXCEPT ![w] = l]

\* modify_order up to the order; an expiration alone is not a modification.
\* orders_get() may give None.
PutOrder(w, t, c) ==
    /\ Begin(w, "order", t)
    /\ LET named == c.price # Keep \/ c.sl # Keep \/ c.tp # Keep
       IN  \/ ~named /\ End(w, "invalid")
           \/ named /\ End(w, "unavailable")
           \/ named /\ stage[t] # "pending" /\ End(w, "not_found")
           \/ named /\ stage[t] = "pending" /\ Accept(w, c, Want(c, levels[t]), "judge")

None(level) == IF level = 0 THEN NoLevel ELSE level

\* A price that stays is not compared with the market; the levels are
\* compared with the price whether they change or not.
JudgeNamed(w) ==
    LET c == change[w]
        l == want[w]
    IN  /\ l.price > 0
        /\ c.price # Keep => PendingPriceValid(type[ticket[w]], l.price, bid, ask, Info)
        /\ c.sl # Keep => StopLossValid(type[ticket[w]], l.price, None(l.sl))
        /\ c.tp # Keep => TakeProfitValid(type[ticket[w]], l.price, None(l.tp))
Judged(w) ==
    LET l == want[w]
    IN  /\ l.price > 0
        /\ change[w].price # Keep => PendingPriceValid(type[ticket[w]], l.price, bid, ask, Info)
        /\ ProtectionValid(type[ticket[w]], l.price, None(l.sl), None(l.tp))

\* Also refused without a quote, and without an offset for the expiration.
Judge(w) ==
    /\ pc[w] = "judge"
    /\ \/ Judged(w) /\ Proceed(w, "send")
       \/ End(w, "invalid")
    /\ UNCHANGED <<market, levels, route, ticket, overtaken>>

PositionType(t) == IF type[t] \in BuyTypes THEN "BUY" ELSE "SELL"
PriceCurrent(t) == IF type[t] \in BuyTypes THEN bid ELSE ask

\* modify_sl_tp up to order_send: one read gives the levels and the price
\* they are compared with.  A level is removed by clear_sl or clear_tp.  A
\* read that fails is answered like a position that is not there.
ModifySltp(w, t, c) ==
    /\ c.price = Keep /\ c.expiry = Keep
    /\ Begin(w, "position", t)
    /\ LET l == Want(c, levels[t])
           valid == /\ stage[t] = "position" /\ (c.sl # Keep \/ c.tp # Keep)
                    /\ ProtectionValid(PositionType(t), PriceCurrent(t), None(l.sl), None(l.tp))
       IN  \/ valid /\ Accept(w, c, l, "send")
           \/ End(w, "invalid")

AnswerTo(r) ==
    IF r = NoReply THEN "unknown_outcome" ELSE IF r = Raised THEN "error" ELSE AnswerFor(r)

\* TRADE_ACTION_SLTP has no price and no expiry.
Written(w) ==
    LET now == levels[ticket[w]]
    IN  IF route[w] = "order" THEN want[w]
        ELSE [price |-> now.price, sl |-> want[w].sl, tp |-> want[w].tp, expiry |-> now.expiry]

\* order_send, TRADE_ACTION_MODIFY or TRADE_ACTION_SLTP: the trade server
\* applies all levels of the request or none, and only to a pending order or
\* a position, as the action says.
Applied(w) ==
    LET t == ticket[w]
    IN  /\ stage[t] = IF route[w] = "order" THEN "pending" ELSE "position"
        /\ levels' = [levels EXCEPT ![t] = Written(w)]
        /\ overtaken' = [v \in Workers |->
                          overtaken[v] \/ (v # w /\ pc[v] # "idle" /\ ticket[v] = t)]

OrderSend(w) ==
    /\ pc[w] = "send"
    /\ \E r \in Codes \cup {NoReply, Raised} :
          /\ \/ /\ r = Raised \/ r = NoReply \/ ~ServerPlaced(r)
                /\ UNCHANGED <<levels, overtaken>>
             \/ /\ r # Raised /\ (r = NoReply \/ ~ServerRefused(r))
                /\ Applied(w)
          /\ End(w, AnswerTo(r))
    /\ UNCHANGED <<market, route, ticket>>

Next ==
    \/ \E w \in Workers, t \in Tickets, c \in Changes : PutOrder(w, t, c) \/ ModifySltp(w, t, c)
    \/ \E w \in Workers : Judge(w) \/ OrderSend(w)
    \/ \E t \in Tickets : Trigger(t) \/ Leaves(t)
    \/ MarketMoves

Spec == Init /\ [][Next]_vars

-----------------------------------------------------------------------------
(* Properties.                                                             *)

\* However requests overlap, a pending order never rests with a stop loss or
\* a take profit on the wrong side of its price: each request is judged on
\* the whole order it sends, not on what it changes (modify_order).
RestingOrderProtected ==
    \A t \in Tickets : stage[t] = "pending" => LevelsProtect(type[t], levels[t])

\* A modification changes nothing its body does not name, the expiry of the
\* order included, as long as no other request changed the ticket in between.
OmittedKept(w) ==
    LET t == ticket[w]
    IN  \A f \in {"price", "sl", "tp", "expiry"} :
           change[w][f] = Keep => levels'[t][f] = levels[t][f]

OmissionKeepsLevels ==
    [][\A w \in Workers : pc[w] = "send" /\ pc'[w] = "idle" /\ ~overtaken[w] => OmittedKept(w)]_vars

\* A modification answered as done was applied in full, and one answered as
\* rejected changed nothing (retcodes.py, errors.py).
AnswerTrue(w) ==
    LET now == levels'[ticket[w]]
    IN  /\ answer'[w] = "ok" => now.sl = want[w].sl /\ now.tp = want[w].tp
        /\ answer'[w] \in {"mt5_rejected", "retryable"} => UNCHANGED levels

ModifyAnswersHonest ==
    [][\A w \in Workers : pc[w] = "send" /\ pc'[w] = "idle" => AnswerTrue(w)]_vars

\* src/docs/reference/api.md: "Removing protection requires the explicit
\* clear_sl: true or clear_tp: true field - an omission is never treated as
\* 'remove this.'"
OmissionNeverRemoves ==
    [][\A w \in Workers : \A f \in {"sl", "tp"} :
        pc[w] = "send" /\ pc'[w] = "idle" /\ route[w] = "position" /\ change[w][f] = Keep
            /\ levels[ticket[w]][f] > 0 => levels'[ticket[w]][f] > 0]_vars
=============================================================================
