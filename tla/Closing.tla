------------------------------- MODULE Closing -------------------------------
(***************************************************************************)
(* Closing positions: POST /close_position, /position_close_partial and    *)
(* /close_all_positions (app/routes/position.py) over close_position and   *)
(* close_all_positions of app/lib.py, with the confirmation of             *)
(* app/close_confirm.py, against a trade server that may execute in full   *)
(* or in part, acknowledge now and execute later, refuse, or not answer.   *)
(*                                                                         *)
(* A step is one call of the client with the local code that follows it.   *)
(* Every read may fail: the terminal can be gone at any moment.            *)
(***************************************************************************)
EXTENDS Retcodes

CONSTANTS
    Requests,   \* close requests in progress, each on a worker thread
    Tickets,    \* positions
    Lots,       \* bound: the volume of a position that is opened
    Codes,      \* bound: the retcodes of a reply that executed nothing for sure
    Earlier,    \* a request answered before, as the author of a deal
    NoVolume    \* no volume in the body, no remaining_volume in the response

ASSUME ClosingAssumption ==
    /\ Lots \in Nat \ {0}
    /\ Tickets # {}
    /\ Codes \subseteq Nat \ SuccessCodes
    /\ Earlier \notin Requests
    /\ NoVolume \notin Nat

VARIABLES
    volume,     \* open volume of each position, 0 when it is closed
    due,        \* volume of each acknowledged close not executed yet
    deal,       \* volume of the closing deal of each request and position
    newest,     \* the newest closing deal of each position
    pc,         \* where each request is in its handler
    kind,       \* the endpoint
    ticket,     \* the position it is closing now
    asked,      \* the volume in the request body
    rows,       \* close_all: the positions that matched
    todo,       \* close_all: the rows not tried yet
    seen,       \* position.volume as read before the send
    result,     \* what a successful order_send returned
    outcome,    \* per position, what the response says
    remaining   \* remaining_volume in the response

book == <<volume, due, deal, newest>>
body == <<kind, asked>>
loop == <<rows, todo>>
vars == <<book, pc, body, ticket, loop, seen, result, outcome, remaining>>

\* fill_price_source of a close that is reported as done.
Sources == {"order_send", "deal", "unresolved"}
Outcomes ==
    Sources \cup {"none", "invalid", "retryable", "mt5_rejected", "unknown_outcome", "failed", "error"}

Pcs == {"idle", "total", "rows", "next", "read", "send", "confirm", "answered"}

Result == [lots : 0..Lots, named : BOOLEAN]
NoResult == [lots |-> 0, named |-> FALSE]

TypeOK ==
    /\ volume \in [Tickets -> 0..Lots]
    /\ due \in [Requests -> [Tickets -> 0..Lots]]
    /\ deal \in [Requests -> [Tickets -> 0..Lots]]
    /\ newest \in [Tickets -> [by : Requests \cup {Earlier}, lots : 0..Lots]]
    /\ pc \in [Requests -> Pcs]
    /\ kind \in [Requests -> {"none", "close", "partial", "all"}]
    /\ ticket \in [Requests -> Tickets]
    /\ asked \in [Requests -> 0..Lots \cup {NoVolume}]
    /\ \A r \in Requests : kind[r] = "partial" => asked[r] # NoVolume
    /\ rows \in [Requests -> SUBSET Tickets]
    /\ todo \in [Requests -> SUBSET Tickets]
    /\ seen \in [Requests -> 0..Lots]
    /\ result \in [Requests -> Result]
    /\ outcome \in [Requests -> [Tickets -> Outcomes]]
    /\ remaining \in [Requests -> 0..Lots \cup {NoVolume}]

Goto(r, label) == pc' = [pc EXCEPT ![r] = label]

\* max(0.0, a - b)
Minus(a, b) == IF a > b THEN a - b ELSE 0

-----------------------------------------------------------------------------
(* Requests arrive.                                                        *)

Init ==
    /\ volume \in [Tickets -> {0, Lots}]
    /\ due = [r \in Requests |-> [t \in Tickets |-> 0]]
    /\ deal = [r \in Requests |-> [t \in Tickets |-> 0]]
    /\ newest = [t \in Tickets |-> [by |-> Earlier, lots |-> 0]]
    /\ pc = [r \in Requests |-> "idle"]
    /\ kind = [r \in Requests |-> "none"]
    /\ ticket = [r \in Requests |-> CHOOSE t \in Tickets : TRUE]
    /\ asked = [r \in Requests |-> 0]
    /\ rows = [r \in Requests |-> {}]
    /\ todo = [r \in Requests |-> {}]
    /\ seen = [r \in Requests |-> 0]
    /\ result = [r \in Requests |-> NoResult]
    /\ outcome = [r \in Requests |-> [t \in Tickets |-> "none"]]
    /\ remaining = [r \in Requests |-> NoVolume]

\* Only the ticket of the body is required; a volume is whatever the client
\* put there.
BeginClose(r, t, v) ==
    /\ pc[r] = "idle"
    /\ kind' = [kind EXCEPT ![r] = "close"]
    /\ ticket' = [ticket EXCEPT ![r] = t]
    /\ asked' = [asked EXCEPT ![r] = v]
    /\ Goto(r, "read")
    /\ UNCHANGED <<book, loop, seen, result, outcome, remaining>>

BeginPartial(r, t, v) ==
    /\ pc[r] = "idle"
    /\ kind' = [kind EXCEPT ![r] = "partial"]
    /\ ticket' = [ticket EXCEPT ![r] = t]
    /\ asked' = [asked EXCEPT ![r] = v]
    /\ Goto(r, "read")
    /\ UNCHANGED <<book, loop, seen, result, outcome, remaining>>

\* S is what the order_type and magic filters of the body let through.
BeginAll(r, S) ==
    /\ pc[r] = "idle"
    /\ kind' = [kind EXCEPT ![r] = "all"]
    /\ rows' = [rows EXCEPT ![r] = S]
    /\ Goto(r, "total")
    /\ UNCHANGED <<book, asked, ticket, todo, seen, result, outcome, remaining>>

-----------------------------------------------------------------------------
(* close_all_positions: two reads, then one close after the other.         *)

Open == {t \in Tickets : volume[t] > 0}

\* positions_total() is None or 0: both report that nothing was open.
PositionsTotal(r) ==
    /\ pc[r] = "total"
    /\ \/ Open # {} /\ Goto(r, "rows") /\ UNCHANGED rows
       \/ rows' = [rows EXCEPT ![r] = {}] /\ Goto(r, "answered")
    /\ UNCHANGED <<book, body, ticket, todo, seen, result, outcome, remaining>>

\* The rows that match.  positions_get() may be None ("positions_unavailable"),
\* and a table left without rows has no column to filter by and raises.
PositionsGet(r) ==
    /\ pc[r] = "rows"
    /\ LET found == rows[r] \cap Open
       IN  \/ /\ Open # {} \/ rows[r] = Tickets
              /\ rows' = [rows EXCEPT ![r] = found]
              /\ todo' = [todo EXCEPT ![r] = found]
              /\ Goto(r, "next")
              /\ UNCHANGED outcome
           \/ /\ rows' = [rows EXCEPT ![r] = {}]
              /\ outcome' = [outcome EXCEPT ![r] = [t \in Tickets |-> "error"]]
              /\ Goto(r, "answered")
              /\ UNCHANGED todo
    /\ UNCHANGED <<book, body, ticket, seen, result, remaining>>

NextRow(r) ==
    /\ pc[r] = "next"
    /\ \/ /\ todo[r] = {}
          /\ Goto(r, "answered")
          /\ UNCHANGED <<ticket, todo>>
       \/ \E t \in todo[r] :
             /\ ticket' = [ticket EXCEPT ![r] = t]
             /\ todo' = [todo EXCEPT ![r] = @ \ {t}]
             /\ Goto(r, "read")
    /\ UNCHANGED <<book, body, rows, seen, result, outcome, remaining>>

-----------------------------------------------------------------------------
(* One close.                                                              *)

\* The response for the position is settled; close_all goes on with the next.
ConcludeOrStop(r, verdict) ==
    /\ outcome' = [outcome EXCEPT ![r][ticket[r]] = verdict]
    /\ Goto(r, IF kind[r] = "all" /\ verdict \in Sources THEN "next" ELSE "answered")
Conclude(r, verdict) ==
    /\ outcome' = [outcome EXCEPT ![r][ticket[r]] = verdict]
    /\ Goto(r, IF kind[r] = "all" THEN "next" ELSE "answered")

\* positions_get(ticket), then symbol, filling and quote.  Any of them may
\* fail; a partial close must leave something open.
ReadPosition(r) ==
    /\ pc[r] = "read"
    /\ LET u == volume[ticket[r]]
       IN  \/ /\ u > 0
              /\ kind[r] = "partial" => asked[r] < u
              /\ seen' = [seen EXCEPT ![r] = u]
              /\ Goto(r, "send")
              /\ UNCHANGED outcome
           \/ /\ Conclude(r, IF kind[r] = "all" THEN "unknown_outcome" ELSE "invalid")
              /\ UNCHANGED seen
    /\ UNCHANGED <<book, body, ticket, loop, result, remaining>>

Requested(r) == IF kind[r] = "partial" THEN asked[r] ELSE seen[r]

\* The server executes x of the close of r.
Execute(r, t, x) ==
    /\ volume' = [volume EXCEPT ![t] = @ - x]
    /\ deal' = [deal EXCEPT ![r][t] = x]
    /\ newest' = [newest EXCEPT ![t] = [by |-> r, lots |-> x]]

\* result_data's volume, or the requested one when the server left it out.
FilledIgnoringResult(r, lots) == asked[r]
Filled(r, lots) == IF lots > 0 THEN lots ELSE asked[r]

\* remaining_volume once the fill is known: /close_position reports it only
\* for a partial execution, and takes the volume in the body, or else the one
\* that was executed, for what the position was.
RemainingAfter(r, lots, isPartial) ==
    IF kind[r] = "partial" THEN Minus(seen[r], Filled(r, lots))
    ELSE IF kind[r] = "close" /\ isPartial
         THEN Minus(IF asked[r] = NoVolume THEN lots ELSE asked[r], lots)
    ELSE NoVolume

\* DONE or DONE_PARTIAL with a price and a deal: confirm_close has nothing
\* to do.
SendExecuted(r) ==
    /\ pc[r] = "send"
    /\ \E x \in 1..Requested(r) :
          /\ x <= volume[ticket[r]]
          /\ Execute(r, ticket[r], x)
          /\ remaining' = [remaining EXCEPT ![r] = RemainingAfter(r, x, x < Requested(r))]
    /\ Conclude(r, "order_send")
    /\ UNCHANGED <<due, body, ticket, loop, seen, result>>

\* DONE with price 0 and deal 0: a dealer-desk server executes it later, and
\* may leave out the volume and the order ticket as well.
SendAcknowledged(r) ==
    /\ pc[r] = "send"
    /\ Requested(r) <= volume[ticket[r]]
    /\ due' = [due EXCEPT ![r][ticket[r]] = Requested(r)]
    /\ \E lots \in {0, Requested(r)}, named \in BOOLEAN :
          result' = [result EXCEPT ![r] = [lots |-> lots, named |-> named]]
    /\ Goto(r, "confirm")
    /\ UNCHANGED <<volume, deal, newest, body, ticket, loop, seen, outcome, remaining>>

\* The close routes classify the code; close_all lists it under "failed",
\* whether it is a refusal or leaves the outcome open.
VerdictOn(r, code) == IF kind[r] = "all" THEN "failed" ELSE AnswerFor(code)

\* A retcode that is no success: the position may have been closed before,
\* the volume be more than is open now, the market be closed...
SendRefused(r) ==
    /\ pc[r] = "send"
    /\ \E code \in Codes :
          /\ Conclude(r, VerdictOn(r, code))
          /\ \/ UNCHANGED <<volume, deal, newest>>
             \/ /\ ~ServerRefused(code)
                /\ Requested(r) <= volume[ticket[r]]
                /\ Execute(r, ticket[r], Requested(r))
    /\ UNCHANGED <<due, body, ticket, loop, seen, result, remaining>>

\* order_send returned None, executed or not.  close_position hands the None
\* on, and /close_position answers it like a position that was not found.
SendUnanswered(r) ==
    /\ pc[r] = "send"
    /\ Conclude(r, IF kind[r] = "close" THEN "invalid" ELSE "unknown_outcome")
    /\ \/ UNCHANGED <<volume, deal, newest>>
       \/ /\ Requested(r) <= volume[ticket[r]]
          /\ Execute(r, ticket[r], Requested(r))
    /\ UNCHANGED <<due, body, ticket, loop, seen, result, remaining>>

\* order_send raised: 500, which drops the report of the rows closed before.
SendRaised(r) ==
    /\ pc[r] = "send"
    /\ outcome' = [outcome EXCEPT ![r] = [t \in Tickets |-> "error"]]
    /\ Goto(r, "answered")
    /\ UNCHANGED <<book, body, ticket, loop, seen, result, remaining>>

\* closing_deal: the deal of the named order (or deal), else the newest.
ClosingDealNewest(r) == newest[ticket[r]].lots
ClosingDeal(r) ==
    IF result[r].named THEN deal[r][ticket[r]] ELSE newest[ticket[r]].lots

ConfirmFound(r) ==
    /\ pc[r] = "confirm"
    /\ ClosingDeal(r) > 0
    /\ LET lots == IF result[r].lots > 0 THEN result[r].lots ELSE ClosingDeal(r)
       IN  remaining' = [remaining EXCEPT ![r] = RemainingAfter(r, lots, FALSE)]
    /\ Conclude(r, "deal")
    /\ UNCHANGED <<book, body, ticket, loop, seen, result>>

\* The deadline passed; lookups that fail count as not found.
ConfirmTimedOutNever(r) == FALSE
ConfirmTimedOut(r) ==
    /\ pc[r] = "confirm"
    /\ remaining' = [remaining EXCEPT ![r] = RemainingAfter(r, result[r].lots, FALSE)]
    /\ Conclude(r, "unresolved")
    /\ UNCHANGED <<book, body, ticket, loop, seen, result>>

-----------------------------------------------------------------------------
(* The trade server, and the client receiving the response.                *)

\* An acknowledged close is executed as far as the position goes, or dropped.
DealLands(r, t) ==
    /\ due[r][t] > 0
    /\ due' = [due EXCEPT ![r][t] = 0]
    /\ \/ UNCHANGED <<volume, deal, newest>>
       \/ /\ volume[t] > 0
          /\ Execute(r, t, IF due[r][t] < volume[t] THEN due[r][t] ELSE volume[t])
    /\ UNCHANGED <<pc, body, ticket, loop, seen, result, outcome, remaining>>

\* Bound: a request is forgotten once the server owes it nothing.
Forget(r) ==
    /\ pc[r] = "answered"
    /\ \A t \in Tickets : due[r][t] = 0
    /\ Goto(r, "idle")
    /\ deal' = [deal EXCEPT ![r] = [t \in Tickets |-> 0]]
    /\ newest' = [t \in Tickets |->
                    IF newest[t].by = r THEN [newest[t] EXCEPT !.by = Earlier] ELSE newest[t]]
    /\ kind' = [kind EXCEPT ![r] = "none"]
    /\ ticket' = [ticket EXCEPT ![r] = CHOOSE t \in Tickets : TRUE]
    /\ asked' = [asked EXCEPT ![r] = 0]
    /\ rows' = [rows EXCEPT ![r] = {}]
    /\ todo' = [todo EXCEPT ![r] = {}]
    /\ seen' = [seen EXCEPT ![r] = 0]
    /\ result' = [result EXCEPT ![r] = NoResult]
    /\ outcome' = [outcome EXCEPT ![r] = [t \in Tickets |-> "none"]]
    /\ remaining' = [remaining EXCEPT ![r] = NoVolume]
    /\ UNCHANGED <<volume, due>>

Begin(r) ==
    \/ \E t \in Tickets, v \in 1..Lots \cup {NoVolume} : BeginClose(r, t, v)
    \/ \E t \in Tickets, v \in 1..Lots : BeginPartial(r, t, v)
    \/ \E S \in SUBSET Tickets : BeginAll(r, S)

Work(r) ==
    \/ PositionsTotal(r) \/ PositionsGet(r) \/ NextRow(r)
    \/ ReadPosition(r)
    \/ SendExecuted(r) \/ SendAcknowledged(r) \/ SendRefused(r)
    \/ SendUnanswered(r) \/ SendRaised(r)
    \/ ConfirmFound(r) \/ ConfirmTimedOut(r)

Server == \E r \in Requests, t \in Tickets : DealLands(r, t)

Next ==
    \/ \E r \in Requests : Begin(r) \/ Work(r) \/ Forget(r)
    \/ Server

Spec == Init /\ [][Next]_vars

\* A request that has begun runs on: every wait of its handler has a deadline.
FairSpec == Spec /\ \A r \in Requests : WF_vars(Work(r))

-----------------------------------------------------------------------------
(* Safety.                                                                 *)

\* The server has executed a close of t for request r.
Executed(r, t) == deal[r][t] > 0

\* A close confirmed from history is priced by a deal of this very request,
\* not by an older or concurrent close of the position, when the server named
\* the order.
PricedByOwnDeal ==
    [][\A r \in Requests, t \in Tickets :
        outcome[r][t] = "none" /\ outcome'[r][t] = "deal" /\ result[r].named
            => Executed(r, t)]_vars

\* A route for one position answers that nothing of it was closed.
\* (close_all's "failed" does not, nor does the "invalid" of /close_position,
\* which stands for a send without an answer as well.)
SaysRefused(r, t) ==
    \/ outcome[r][t] \in {"retryable", "mt5_rejected"}
    \/ outcome[r][t] = "invalid" /\ kind[r] = "partial"

\* An answer that says a close was refused is right: the request closed
\* nothing of the position and never will, however late the server executes.
RefusedMeansUntouched ==
    \A r \in Requests, t \in Tickets :
        SaysRefused(r, t) => ~Executed(r, t) /\ due[r][t] = 0

\* The response knows how much was open: a partial close reads it, a
\* /close_position has to be told no less than that.
KnowsVolume(r) ==
    kind[r] = "close" => asked[r] # NoVolume /\ asked[r] >= seen[r]

\* Such a response's remaining_volume never understates what is still open,
\* whatever other requests closed meanwhile, unless it says "unresolved" or had
\* to guess which deal was its own.
RemainingNotUnderstated ==
    \A r \in Requests :
        /\ pc[r] = "answered"
        /\ remaining[r] # NoVolume
        /\ KnowsVolume(r)
        /\ \/ outcome[r][ticket[r]] = "order_send"
           \/ outcome[r][ticket[r]] = "deal" /\ result[r].named
        => remaining[r] >= volume[ticket[r]]

\* close_all accounts for every position it read, and for no other: one that
\* fails neither ends the loop nor is dropped from the response.
EveryRowReported ==
    \A r \in Requests :
        pc[r] = "answered" /\ kind[r] = "all" =>
            \/ {t \in Tickets : outcome[r][t] # "none"} = rows[r]
            \/ \A t \in Tickets : outcome[r][t] = "error"

(* Liveness.                                                               *)

\* Every close request is answered, also when the deal it waits for never
\* comes.
RequestsAnswered ==
    \A r \in Requests : pc[r] # "idle" ~> pc[r] = "answered"
=============================================================================
