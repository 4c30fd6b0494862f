----------------------------- MODULE TradingHalt -----------------------------
(***************************************************************************)
(* The kill switch: app/kill_switch.py, the gate app/security.py puts in   *)
(* front of the trading routes, and POST /kill with its flatten            *)
(* (app/routes/control.py), running beside order requests and the close    *)
(* requests of Closing.                                                    *)
(*                                                                         *)
(* The gate is checked once, when the request comes in; the order is sent  *)
(* many steps later.                                                       *)
(***************************************************************************)
EXTENDS Closing

CONSTANTS
    Traders,    \* POST /order requests in progress
    Orders      \* pending orders

VARIABLES
    killed,     \* the file of the kill switch exists
    stage,      \* where each order request is
    opened,     \* the positions opened so far: a ticket is not used twice
    resting,    \* pending orders at the trade server
    flatten,    \* where each POST /kill?flatten=true is
    toRemove    \* pending orders it has not tried to remove yet

closing == <<book, pc, body, ticket, loop, seen, result, outcome, remaining>>
flattening == <<flatten, toRemove>>
haltVars == <<closing, killed, stage, opened, resting, flattening>>

HaltTypeOK ==
    /\ TypeOK
    /\ killed \in BOOLEAN
    /\ stage \in [Traders -> {"idle", "admitted"}]
    /\ opened \in SUBSET Tickets
    /\ resting \in SUBSET Orders
    /\ flatten \in [Requests -> {"none", "orders", "removing", "closing"}]
    /\ toRemove \in [Requests -> SUBSET Orders]

HaltInit ==
    /\ Init
    /\ killed \in BOOLEAN
    /\ stage = [o \in Traders |-> "idle"]
    /\ opened = Open
    /\ resting \in SUBSET Orders
    /\ flatten = [r \in Requests |-> "none"]
    /\ toRemove = [r \in Requests |-> {}]

-----------------------------------------------------------------------------
(* Order and close requests.                                               *)

\* The trade server opens position t.
OpenPosition(t) ==
    /\ t \notin opened
    /\ opened' = opened \cup {t}
    /\ volume' = [volume EXCEPT ![t] = Lots]
    /\ UNCHANGED <<due, deal, newest>>

\* enforce_security lets the request through, or answers 423.
AdmitOrderAlways(o) ==
    /\ stage[o] = "idle"
    /\ stage' = [stage EXCEPT ![o] = "admitted"]
    /\ UNCHANGED <<closing, killed, opened, resting, flattening>>
AdmitOrder(o) ==
    /\ stage[o] = "idle"
    /\ ~killed
    /\ stage' = [stage EXCEPT ![o] = "admitted"]
    /\ UNCHANGED <<closing, killed, opened, resting, flattening>>

\* The handler gets to order_send, or fails a check, or is refused.
SendOrder(o) ==
    /\ stage[o] = "admitted"
    /\ stage' = [stage EXCEPT ![o] = "idle"]
    /\ \/ \E t \in Tickets : OpenPosition(t) /\ UNCHANGED resting
       \/ \E p \in Orders : resting' = resting \cup {p} /\ UNCHANGED <<book, opened>>
       \/ UNCHANGED <<book, opened, resting>>
    /\ UNCHANGED <<pc, body, ticket, loop, seen, result, outcome, remaining>>
    /\ UNCHANGED <<killed, flattening>>

\* DELETE /orders/<ticket> is not gated.
CancelOrder(p) ==
    /\ p \in resting
    /\ resting' = resting \ {p}
    /\ UNCHANGED <<closing, killed, stage, opened, flattening>>

AdmitClose(r) ==
    /\ ~killed
    /\ flatten[r] = "none"
    /\ Begin(r)
    /\ UNCHANGED <<killed, stage, opened, resting, flattening>>

ContinueClose(r) ==
    /\ Work(r)
    /\ UNCHANGED <<killed, stage, opened, resting, flattening>>

Answered(r) ==
    /\ Forget(r)
    /\ flatten' = [flatten EXCEPT ![r] = "none"]
    /\ UNCHANGED <<killed, stage, opened, resting, toRemove>>

-----------------------------------------------------------------------------
(* POST /kill and POST /kill/release.                                      *)

Kill ==
    /\ killed' = TRUE
    /\ UNCHANGED <<closing, stage, opened, resting, flattening>>

KillAndFlatten(r) ==
    /\ pc[r] = "idle"
    /\ flatten[r] = "none"
    /\ killed' = TRUE
    /\ flatten' = [flatten EXCEPT ![r] = "orders"]
    /\ UNCHANGED <<closing, stage, opened, resting, toRemove>>

\* orders_get() or (): no answer is taken for no orders.
OrdersGet(r) ==
    /\ flatten[r] = "orders"
    /\ \E found \in {resting, {}} : toRemove' = [toRemove EXCEPT ![r] = found]
    /\ flatten' = [flatten EXCEPT ![r] = "removing"]
    /\ UNCHANGED <<closing, killed, stage, opened, resting>>

\* The result of the removal is not looked at.
RemoveOrder(r) ==
    /\ flatten[r] = "removing"
    /\ \E p \in toRemove[r] :
          /\ toRemove' = [toRemove EXCEPT ![r] = @ \ {p}]
          /\ resting' \in {resting, resting \ {p}}
    /\ UNCHANGED <<closing, killed, stage, opened, flatten>>

CloseEverything(r) ==
    /\ flatten[r] = "removing"
    /\ toRemove[r] = {}
    /\ BeginAll(r, Tickets)
    /\ flatten' = [flatten EXCEPT ![r] = "closing"]
    /\ UNCHANGED <<killed, stage, opened, resting, toRemove>>

Release ==
    /\ killed
    /\ killed' = FALSE
    /\ UNCHANGED <<closing, stage, opened, resting, flattening>>

-----------------------------------------------------------------------------
(* The trade server.                                                       *)

\* The price of a pending order is reached.
Trigger(p, t) ==
    /\ p \in resting
    /\ resting' = resting \ {p}
    /\ OpenPosition(t)
    /\ UNCHANGED <<pc, body, ticket, loop, seen, result, outcome, remaining>>
    /\ UNCHANGED <<killed, stage, flattening>>

LateDeal == Server /\ UNCHANGED <<killed, stage, opened, resting, flattening>>

-----------------------------------------------------------------------------
OrderStep(o) == AdmitOrder(o) \/ SendOrder(o)

FlattenStep(r) == OrdersGet(r) \/ RemoveOrder(r) \/ CloseEverything(r) \/ ContinueClose(r)

HaltNext ==
    \/ \E o \in Traders : OrderStep(o)
    \/ \E r \in Requests :
          AdmitClose(r) \/ FlattenStep(r) \/ Answered(r) \/ KillAndFlatten(r)
    \/ \E p \in Orders : CancelOrder(p) \/ \E t \in Tickets : Trigger(p, t)
    \/ Kill
    \/ Release
    \/ LateDeal

HaltSpec == HaltInit /\ [][HaltNext]_haltVars

\* Requests that were let in run on.
HaltFairSpec ==
    /\ HaltSpec
    /\ \A o \in Traders : WF_haltVars(SendOrder(o))
    /\ \A r \in Requests : WF_haltVars(FlattenStep(r))

-----------------------------------------------------------------------------
(* Properties.                                                             *)

\* No order request is between the gate and order_send.
Quiet == \A o \in Traders : stage[o] = "idle"

\* Once the switch is on and the requests let in before are through, only a
\* pending order that is already at the server can open another position,
\* until the release.
HaltShrinksExposure ==
    [][killed /\ Quiet =>
        /\ Quiet'
        /\ resting' \subseteq resting
        /\ Open' \subseteq Open \/ resting' # resting]_haltVars

\* A switch that stays on stops order requests for good.
HaltDrains == <>[]killed => <>[]Quiet

\* The statement flatten is documented with: it closes every open position.
\* A response that lists no failure leaves none open, late deals apart.
FlattenClosesAll ==
    \A r \in Requests :
        /\ flatten[r] = "closing"
        /\ pc[r] = "answered"
        /\ \A t \in Tickets : outcome[r][t] \in Sources \cup {"none"}
        => \A t \in Tickets : volume[t] = due[r][t]
=============================================================================
