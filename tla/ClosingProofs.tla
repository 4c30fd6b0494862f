----------------------------- MODULE ClosingProofs -----------------------------
(***************************************************************************)
(* What the responses of the close routes say is true, for any number of   *)
(* requests, positions and lots and any retcodes, and it comes within a    *)
(* bound; and with the kill switch over them (TradingHalt) exposure only   *)
(* shrinks, and what a kill made flat stays flat.                          *)
(***************************************************************************)
EXTENDS TradingHalt, FiniteSetTheorems, TLAPS

-----------------------------------------------------------------------------
(* Retcodes and volumes.                                                   *)

\* The answer to a code that is no success is one of the errors, and calls
\* the close refused only when the server does.
LEMMA VerdictTyped ==
    ASSUME NEW r \in Requests, NEW code \in Codes
    PROVE  /\ VerdictOn(r, code) \in {"retryable", "mt5_rejected", "unknown_outcome", "failed"}
           /\ VerdictOn(r, code) \in {"retryable", "mt5_rejected"} => ServerRefused(code)
<1>1. code \notin SuccessCodes
  BY ClosingAssumption
<1> QED
  BY <1>1 DEF VerdictOn, AnswerFor, ClassifyRetcode, ServerRefused

\* The server executes at most what is open.
LEMMA ExecuteTyped ==
    ASSUME TypeOK, NEW r \in Requests, NEW t \in Tickets, NEW x \in 0..Lots, x <= volume[t],
           Execute(r, t, x)
    PROVE  /\ volume' \in [Tickets -> 0..Lots]
           /\ deal' \in [Requests -> [Tickets -> 0..Lots]]
           /\ newest' \in [Tickets -> [by : Requests \cup {Earlier}, lots : 0..Lots]]
<1> USE ClosingAssumption DEF TypeOK, Execute
<1>1. volume[t] - x \in 0..Lots
  OBVIOUS
<1>2. [by |-> r, lots |-> x] \in [by : Requests \cup {Earlier}, lots : 0..Lots]
  OBVIOUS
<1> QED
  BY <1>1, <1>2

\* A remaining volume is a volume.
LEMMA RemainingTyped ==
    ASSUME TypeOK, NEW r \in Requests, NEW lots \in 0..Lots, NEW part \in BOOLEAN
    PROVE  RemainingAfter(r, lots, part) \in 0..Lots \cup {NoVolume}
  BY ClosingAssumption DEF TypeOK, RemainingAfter, Filled, Minus

LEMMA RequestedTyped ==
    ASSUME TypeOK, NEW r \in Requests
    PROVE  Requested(r) \in 0..Lots
  BY DEF TypeOK, Requested

\* A verdict is written for the position being closed.
LEMMA ConcludeTyped ==
    ASSUME TypeOK, NEW r \in Requests, NEW verdict \in Outcomes, Conclude(r, verdict)
    PROVE  /\ outcome' \in [Requests -> [Tickets -> Outcomes]]
           /\ pc' \in [Requests -> Pcs]
  BY DEF TypeOK, Conclude, Goto, Pcs

-----------------------------------------------------------------------------
(* Types.                                                                  *)

LEMMA InitType == Init => TypeOK
<1> SUFFICES ASSUME Init PROVE TypeOK
  OBVIOUS
<1> USE ClosingAssumption DEF Init
<1>1. 0 \in 0..Lots /\ Lots \in 0..Lots
  OBVIOUS
<1>2. NoResult \in Result
  BY DEF NoResult, Result
<1>3. (CHOOSE t \in Tickets : TRUE) \in Tickets
  OBVIOUS
<1>4. volume \in [Tickets -> 0..Lots]
  BY <1>1
<1>5. newest \in [Tickets -> [by : Requests \cup {Earlier}, lots : 0..Lots]]
  BY <1>1
<1> QED
  BY <1>1, <1>2, <1>3, <1>4, <1>5 DEF TypeOK, Pcs, Outcomes

LEMMA BeginType ==
    ASSUME TypeOK, NEW r \in Requests, Begin(r)
    PROVE  TypeOK'
<1> USE ClosingAssumption DEF TypeOK, Goto, Pcs, book, loop
<1>1. ASSUME NEW t \in Tickets, NEW v \in 1..Lots \cup {NoVolume}, BeginClose(r, t, v)
      PROVE  TypeOK'
  <2>1. v \in 0..Lots \cup {NoVolume}
    OBVIOUS
  <2> QED
    BY <1>1, <2>1 DEF BeginClose
<1>2. ASSUME NEW t \in Tickets, NEW v \in 1..Lots, BeginPartial(r, t, v) PROVE TypeOK'
  <2>1. v \in 0..Lots /\ v # NoVolume
    OBVIOUS
  <2> QED
    BY <1>2, <2>1 DEF BeginPartial
<1>3. ASSUME NEW S \in SUBSET Tickets, BeginAll(r, S) PROVE TypeOK'
  BY <1>3 DEF BeginAll
<1> QED
  BY <1>1, <1>2, <1>3 DEF Begin

LEMMA WorkType ==
    ASSUME TypeOK, NEW r \in Requests, Work(r)
    PROVE  TypeOK'
<1> USE ClosingAssumption DEF Outcomes, Sources, Result
<1> DEFINE t == ticket[r]
<1>0. t \in Tickets /\ Requested(r) \in 0..Lots
  BY RequestedTyped DEF TypeOK
<1>pc. pc \in [Requests -> Pcs]
  BY DEF TypeOK
<1>1. CASE PositionsTotal(r)
  <2>1. pc' \in [Requests -> Pcs]
    BY <1>1, <1>pc DEF PositionsTotal, Goto, Pcs
  <2>2. rows' \in [Requests -> SUBSET Tickets]
    BY <1>1 DEF PositionsTotal, TypeOK
  <2> QED
    BY <1>1, <2>1, <2>2 DEF PositionsTotal, TypeOK, book, body
<1>2. CASE PositionsGet(r)
  <2>1. pc' \in [Requests -> Pcs]
    BY <1>2, <1>pc DEF PositionsGet, Goto, Pcs
  <2>2. rows[r] \cap Open \in SUBSET Tickets
    BY DEF Open
  <2>3. rows' \in [Requests -> SUBSET Tickets]
    BY <1>2, <2>2 DEF PositionsGet, TypeOK
  <2>4. todo' \in [Requests -> SUBSET Tickets]
    BY <1>2, <2>2 DEF PositionsGet, TypeOK
  <2>5. outcome' \in [Requests -> [Tickets -> Outcomes]]
    <3>1. [u \in Tickets |-> "error"] \in [Tickets -> Outcomes]
      OBVIOUS
    <3>2. outcome' \in {outcome, [outcome EXCEPT ![r] = [u \in Tickets |-> "error"]]}
      BY <1>2 DEF PositionsGet
    <3>3. outcome \in [Requests -> [Tickets -> Outcomes]]
      BY DEF TypeOK
    <3> HIDE DEF Outcomes
    <3> QED
      BY <3>1, <3>2, <3>3
  <2> QED
    BY <1>2, <2>1, <2>3, <2>4, <2>5 DEF PositionsGet, TypeOK, book, body
<1>3. CASE NextRow(r)
  <2>1. pc' \in [Requests -> Pcs]
    BY <1>3, <1>pc DEF NextRow, Goto, Pcs
  <2>2. CASE UNCHANGED <<ticket, todo>>
    BY <1>3, <2>1, <2>2 DEF NextRow, TypeOK, book, body
  <2>3. ASSUME NEW u \in todo[r],
               ticket' = [ticket EXCEPT ![r] = u],
               todo' = [todo EXCEPT ![r] = @ \ {u}]
        PROVE  TypeOK'
    <3>1. todo[r] \subseteq Tickets /\ u \in Tickets
      BY DEF TypeOK
    <3>2. todo[r] \ {u} \in SUBSET Tickets
      BY <3>1
    <3>3. ticket' \in [Requests -> Tickets] /\ todo' \in [Requests -> SUBSET Tickets]
      BY <2>3, <3>1, <3>2 DEF TypeOK
    <3> QED
      BY <1>3, <2>1, <3>3 DEF NextRow, TypeOK, book, body
  <2> QED
    BY <1>3, <2>2, <2>3 DEF NextRow
<1>4. CASE ReadPosition(r)
  <2>1. outcome' \in [Requests -> [Tickets -> Outcomes]] /\ pc' \in [Requests -> Pcs]
    BY <1>4, ConcludeTyped DEF ReadPosition, Goto, Pcs, TypeOK
  <2>2. seen' \in [Requests -> 0..Lots]
    BY <1>4 DEF ReadPosition, TypeOK
  <2> QED
    BY <1>4, <2>1, <2>2 DEF ReadPosition, TypeOK, book, body, loop
<1>5. CASE SendExecuted(r)
  <2>1. PICK x \in 1..Requested(r) :
          /\ x <= volume[t]
          /\ Execute(r, t, x)
          /\ remaining' = [remaining EXCEPT ![r] = RemainingAfter(r, x, x < Requested(r))]
    BY <1>5 DEF SendExecuted
  <2>2. x \in 0..Lots /\ (x < Requested(r)) \in BOOLEAN
    BY <1>0
  <2>3. remaining' \in [Requests -> 0..Lots \cup {NoVolume}]
    BY <2>1, <2>2, RemainingTyped DEF TypeOK
  <2>4. outcome' \in [Requests -> [Tickets -> Outcomes]] /\ pc' \in [Requests -> Pcs]
    BY <1>5, ConcludeTyped DEF SendExecuted
  <2> QED
    BY <1>0, <1>5, <2>1, <2>2, <2>3, <2>4, ExecuteTyped DEF SendExecuted, TypeOK, body, loop
<1>6. CASE SendAcknowledged(r)
  BY <1>0, <1>6 DEF SendAcknowledged, TypeOK, Goto, Pcs, body, loop
<1>7. CASE SendRefused(r)
  <2>1. PICK code \in Codes :
          /\ Conclude(r, VerdictOn(r, code))
          /\ \/ UNCHANGED <<volume, deal, newest>>
             \/ /\ ~ServerRefused(code)
                /\ Requested(r) <= volume[t]
                /\ Execute(r, t, Requested(r))
    BY <1>7 DEF SendRefused
  <2>2. outcome' \in [Requests -> [Tickets -> Outcomes]] /\ pc' \in [Requests -> Pcs]
    BY <2>1, VerdictTyped, ConcludeTyped
  <2> QED
    BY <1>0, <1>7, <2>1, <2>2, ExecuteTyped DEF SendRefused, TypeOK, body, loop
<1>8. CASE SendUnanswered(r)
  <2>1. outcome' \in [Requests -> [Tickets -> Outcomes]] /\ pc' \in [Requests -> Pcs]
    BY <1>8, ConcludeTyped DEF SendUnanswered
  <2> QED
    BY <1>0, <1>8, <2>1, ExecuteTyped DEF SendUnanswered, TypeOK, body, loop
<1>9. CASE SendRaised(r)
  BY <1>9 DEF SendRaised, TypeOK, Goto, Pcs, book, body, loop
<1>10. CASE ConfirmFound(r)
  <2>1. result[r].lots \in 0..Lots /\ ClosingDeal(r) \in 0..Lots
    BY <1>0 DEF ClosingDeal, TypeOK
  <2>2. remaining' \in [Requests -> 0..Lots \cup {NoVolume}]
    BY <1>10, <2>1, RemainingTyped DEF ConfirmFound, TypeOK
  <2>3. outcome' \in [Requests -> [Tickets -> Outcomes]] /\ pc' \in [Requests -> Pcs]
    BY <1>10, ConcludeTyped DEF ConfirmFound
  <2> QED
    BY <1>10, <2>2, <2>3 DEF ConfirmFound, TypeOK, book, body, loop
<1>11. CASE ConfirmTimedOut(r)
  <2>1. result[r].lots \in 0..Lots
    BY DEF TypeOK
  <2>2. remaining' \in [Requests -> 0..Lots \cup {NoVolume}]
    BY <1>11, <2>1, RemainingTyped DEF ConfirmTimedOut, TypeOK
  <2>3. outcome' \in [Requests -> [Tickets -> Outcomes]] /\ pc' \in [Requests -> Pcs]
    BY <1>11, ConcludeTyped DEF ConfirmTimedOut
  <2> QED
    BY <1>11, <2>2, <2>3 DEF ConfirmTimedOut, TypeOK, book, body, loop
<1> QED
  BY <1>1, <1>2, <1>3, <1>4, <1>5, <1>6, <1>7, <1>8, <1>9, <1>10, <1>11 DEF Work

LEMMA ForgetType ==
    ASSUME TypeOK, NEW r \in Requests, Forget(r)
    PROVE  TypeOK'
<1> USE ClosingAssumption DEF Forget, TypeOK
<1>1. NoResult \in Result /\ (CHOOSE t \in Tickets : TRUE) \in Tickets
  BY DEF NoResult, Result
<1>2. newest' \in [Tickets -> [by : Requests \cup {Earlier}, lots : 0..Lots]]
  <2>1. SUFFICES ASSUME NEW t \in Tickets
                 PROVE  (IF newest[t].by = r THEN [newest[t] EXCEPT !.by = Earlier] ELSE newest[t])
                          \in [by : Requests \cup {Earlier}, lots : 0..Lots]
    OBVIOUS
  <2>2. newest[t] \in [by : Requests \cup {Earlier}, lots : 0..Lots]
    OBVIOUS
  <2>3. [newest[t] EXCEPT !.by = Earlier] \in [by : Requests \cup {Earlier}, lots : 0..Lots]
    BY <2>2
  <2> QED
    BY <2>2, <2>3
<1>3. outcome' \in [Requests -> [Tickets -> Outcomes]]
  BY DEF Outcomes
<1> QED
  BY <1>1, <1>2, <1>3 DEF Goto, Pcs

LEMMA ServerType == TypeOK /\ Server => TypeOK'
<1> SUFFICES ASSUME TypeOK, NEW r \in Requests, NEW t \in Tickets, DealLands(r, t)
             PROVE  TypeOK'
  BY DEF Server
<1> DEFINE x == IF due[r][t] < volume[t] THEN due[r][t] ELSE volume[t]
<1>1. x \in 0..Lots /\ x <= volume[t]
  BY ClosingAssumption DEF TypeOK
<1>2. due' \in [Requests -> [Tickets -> 0..Lots]]
  BY ClosingAssumption DEF DealLands, TypeOK
<1>3. (UNCHANGED <<volume, deal, newest>>) \/ Execute(r, t, x)
  BY DEF DealLands
<1> QED
  BY <1>1, <1>2, <1>3, ExecuteTyped DEF DealLands, TypeOK, body, loop

LEMMA TypeStep == TypeOK /\ [Next]_vars => TypeOK'
<1>1. TypeOK /\ UNCHANGED vars => TypeOK'
  BY DEF vars, TypeOK, book, body, loop
<1> QED
  BY <1>1, BeginType, WorkType, ForgetType, ServerType DEF Next

\* Every variable keeps its type: no volume becomes negative, and every
\* response is one the routes document.
THEOREM TypeCorrect == Spec => []TypeOK
  BY TypeStep, InitType, PTL DEF Spec

-----------------------------------------------------------------------------
(* A close is priced by its own deal.                                      *)

\* A close that a step confirms from history has its own deal by then.
PricedNow ==
    \A r \in Requests, t \in Tickets :
        outcome[r][t] = "none" /\ outcome'[r][t] = "deal" /\ result[r].named
            => Executed(r, t)

\* A lookup by order ticket returns this request's deal, and nothing else
\* reports "deal".
LEMMA PricedStep == TypeOK /\ [Next]_vars => PricedNow
<1> SUFFICES ASSUME TypeOK, [Next]_vars, NEW q \in Requests, NEW t \in Tickets,
                    outcome[q][t] = "none", outcome'[q][t] = "deal", result[q].named
             PROVE  Executed(q, t)
  BY DEF PricedNow
<1>1. outcome' # outcome
  OBVIOUS
<1>2. PICK r \in Requests : Begin(r) \/ Work(r) \/ Forget(r)
  BY <1>1 DEF Next, vars, Server, DealLands
<1>3. ASSUME NEW verdict, Conclude(r, verdict)
      PROVE  q = r /\ t = ticket[r] /\ verdict = "deal"
  BY <1>3 DEF Conclude, TypeOK
<1>4. ~Begin(r)
  BY <1>1 DEF Begin, BeginClose, BeginPartial, BeginAll
<1>5. ASSUME NEW v \in {"none", "error"},
             outcome' = [outcome EXCEPT ![r] = [u \in Tickets |-> v]]
      PROVE  FALSE
  <2>1. outcome'[q] = IF q = r THEN [u \in Tickets |-> v] ELSE outcome[q]
    BY <1>5 DEF TypeOK
  <2>2. outcome'[q][t] \in {v, outcome[q][t]}
    BY <2>1
  <2> QED
    BY <2>2
<1>6. ~ReadPosition(r) /\ ~SendExecuted(r) /\ ~SendAcknowledged(r) /\ ~SendUnanswered(r)
  BY <1>1, <1>3 DEF ReadPosition, SendExecuted, SendAcknowledged, SendUnanswered
<1>7. ~SendRefused(r)
  BY <1>3, VerdictTyped DEF SendRefused
<1>8. ~Forget(r) /\ ~SendRaised(r) /\ ~PositionsGet(r)
  BY <1>1, <1>5 DEF Forget, SendRaised, PositionsGet
<1>9. ~PositionsTotal(r) /\ ~NextRow(r)
  BY <1>1 DEF PositionsTotal, NextRow
<1>10. ~ConfirmTimedOut(r)
  <2>1. ConfirmTimedOut(r) => Conclude(r, "unresolved")
    BY DEF ConfirmTimedOut
  <2> QED
    BY <1>3, <2>1
<1>11. ConfirmFound(r)
  BY <1>2, <1>4, <1>6, <1>7, <1>8, <1>9, <1>10 DEF Work
<1> QED
  BY <1>3, <1>11 DEF ConfirmFound, ClosingDeal, Executed

\* A close confirmed by the named order is priced by its own deal.
THEOREM PricedByOwnDealHolds == Spec => PricedByOwnDeal
<1>1. TypeOK /\ [Next]_vars => PricedNow
  BY PricedStep
<1> QED
  BY <1>1, TypeCorrect, PTL DEF Spec, PricedByOwnDeal, PricedNow

-----------------------------------------------------------------------------
(* What a step leaves alone.                                               *)

\* Everything request q has of its own.
Same(q) ==
    /\ pc'[q] = pc[q] /\ kind'[q] = kind[q] /\ ticket'[q] = ticket[q]
    /\ asked'[q] = asked[q] /\ rows'[q] = rows[q] /\ todo'[q] = todo[q]
    /\ seen'[q] = seen[q] /\ result'[q] = result[q] /\ outcome'[q] = outcome[q]
    /\ remaining'[q] = remaining[q]

\* Nothing opens a position or adds to one.
LEMMA VolumeShrinks ==
    ASSUME TypeOK, [Next]_vars, NEW t \in Tickets
    PROVE  volume'[t] <= volume[t]
<1>1. CASE volume' = volume
  BY <1>1 DEF TypeOK
<1>2. ASSUME NEW r \in Requests, NEW u \in Tickets, NEW x \in 0..Lots, Execute(r, u, x)
      PROVE  volume'[t] <= volume[t]
  BY <1>2, ClosingAssumption DEF Execute, TypeOK
<1>3. CASE Server
  <2>1. PICK r \in Requests, u \in Tickets : DealLands(r, u)
    BY <1>3 DEF Server
  <2>2. (IF due[r][u] < volume[u] THEN due[r][u] ELSE volume[u]) \in 0..Lots
    BY DEF TypeOK
  <2> QED
    BY <1>1, <1>2, <2>1, <2>2 DEF DealLands
<1>4. ASSUME NEW r \in Requests, Work(r) PROVE volume'[t] <= volume[t]
  <2>1. ticket[r] \in Tickets /\ Requested(r) \in 0..Lots
    BY RequestedTyped DEF TypeOK
  <2>2. \A x \in 1..Requested(r) : x \in 0..Lots
    BY <2>1, ClosingAssumption
  <2>3. volume' = volume \/ \E x \in 0..Lots : Execute(r, ticket[r], x)
    BY <1>4, <2>1, <2>2
    DEF Work, PositionsTotal, PositionsGet, NextRow, ReadPosition, SendExecuted,
        SendAcknowledged, SendRefused, SendUnanswered, SendRaised, ConfirmFound,
        ConfirmTimedOut, book
  <2> QED
    BY <1>1, <1>2, <2>1, <2>3
<1>5. ASSUME NEW r \in Requests, Begin(r) \/ Forget(r) PROVE volume' = volume
  BY <1>5 DEF Begin, BeginClose, BeginPartial, BeginAll, Forget, book
<1> QED
  BY <1>1, <1>3, <1>4, <1>5 DEF Next, vars, book

\* A request touches no other request.
LEMMA OthersAlone ==
    ASSUME TypeOK, NEW r \in Requests, Begin(r) \/ Work(r) \/ Forget(r),
           NEW q \in Requests \ {r}
    PROVE  Same(q) /\ deal'[q] = deal[q] /\ due'[q] = due[q]
<1> USE DEF TypeOK, Same, Goto, Conclude, book, body, loop
<1>1. CASE Begin(r)
  BY <1>1 DEF Begin, BeginClose, BeginPartial, BeginAll
<1>2. CASE Forget(r)
  BY <1>2 DEF Forget
<1>3. CASE Work(r)
  <2>1. CASE PositionsTotal(r) \/ PositionsGet(r) \/ NextRow(r) \/ ReadPosition(r)
    BY <2>1 DEF PositionsTotal, PositionsGet, NextRow, ReadPosition
  <2>2. CASE SendExecuted(r) \/ SendRefused(r)
    BY <2>2 DEF SendExecuted, SendRefused, Execute
  <2>3. CASE SendAcknowledged(r) \/ SendUnanswered(r) \/ SendRaised(r)
    BY <2>3 DEF SendAcknowledged, SendUnanswered, SendRaised, Execute
  <2>4. CASE ConfirmFound(r) \/ ConfirmTimedOut(r)
    BY <2>4 DEF ConfirmFound, ConfirmTimedOut
  <2> QED
    BY <1>3, <2>1, <2>2, <2>3, <2>4 DEF Work
<1> QED
  BY <1>1, <1>2, <1>3

-----------------------------------------------------------------------------
(* What a request has done to each position, whatever it has to report.    *)

Untouched(r, t) == deal[r][t] = 0 /\ due[r][t] = 0

\* t is the position whose close is under way.
Closes(r, t) == pc[r] \in {"read", "send", "confirm"} /\ ticket[r] = t

\* A position without an outcome was not touched, unless its close was
\* acknowledged and is being confirmed.
Untried(r) ==
    /\ pc[r] \in {"total", "rows", "next"} => kind[r] = "all"
    /\ pc[r] \in {"idle", "total", "rows"} =>
          todo[r] = {} /\ \A t \in Tickets : outcome[r][t] = "none"
    /\ \A t \in Tickets :
          /\ Closes(r, t) => outcome[r][t] = "none" /\ t \notin todo[r]
          /\ pc[r] # "answered" /\ t \in todo[r] => outcome[r][t] = "none"
          /\ outcome[r][t] = "none" /\ ~(pc[r] = "confirm" /\ ticket[r] = t) => Untouched(r, t)
          /\ SaysRefused(r, t) => Untouched(r, t)

\* The rows that matched are those with an outcome, those still to be tried
\* and the one under way.
Accounted(r) ==
    kind[r] = "all" =>
        /\ pc[r] \in {"next", "read", "send", "confirm"} =>
              \A t \in Tickets :
                 t \in rows[r] <=> outcome[r][t] # "none" \/ t \in todo[r] \/ Closes(r, t)
        /\ pc[r] = "answered" =>
              \/ \A t \in Tickets : outcome[r][t] # "none" <=> t \in rows[r]
              \/ \A t \in Tickets : outcome[r][t] = "error"

\* This much holds whatever happens to the volumes.
Counted == \A r \in Requests : Untried(r) /\ Accounted(r)

LEMMA ConcludeEffect ==
    ASSUME TypeOK, NEW r \in Requests, NEW verdict, Conclude(r, verdict)
    PROVE  /\ pc'[r] = IF kind[r] = "all" THEN "next" ELSE "answered"
           /\ \A t \in Tickets :
                 outcome'[r][t] = IF t = ticket[r] THEN verdict ELSE outcome[r][t]
  BY DEF TypeOK, Conclude, Goto

LEMMA ExecuteEffect ==
    ASSUME TypeOK, NEW r \in Requests, NEW t \in Tickets, NEW x, Execute(r, t, x)
    PROVE  /\ volume'[t] = volume[t] - x
           /\ \A u \in Tickets : deal'[r][u] = IF u = t THEN x ELSE deal[r][u]
  BY DEF TypeOK, Execute

\* The count of a request survives the steps that leave it alone.
LEMMA CountedFrame ==
    ASSUME NEW q \in Requests, Untried(q), Accounted(q),
           Same(q), deal'[q] = deal[q], due'[q] = due[q]
    PROVE  (Untried(q) /\ Accounted(q))'
<1>1. Untried(q)'
  BY DEF Untried, Untouched, Closes, SaysRefused, Same
<1>2. Accounted(q)'
  BY DEF Accounted, Closes, Same
<1> QED
  BY <1>1, <1>2

LEMMA CountedInit == Init => Counted
<1> SUFFICES ASSUME Init, NEW r \in Requests PROVE Untried(r) /\ Accounted(r)
  BY DEF Counted
<1>1. pc[r] = "idle" /\ kind[r] = "none" /\ todo[r] = {}
  BY DEF Init
<1>2. \A t \in Tickets : outcome[r][t] = "none" /\ Untouched(r, t)
  BY DEF Init, Untouched
<1> QED
  BY <1>1, <1>2 DEF Untried, Accounted, SaysRefused

\* A request begins with nothing tried, and is forgotten with nothing owed.
LEMMA CountedBegin ==
    ASSUME TypeOK, NEW r \in Requests, Untried(r), Begin(r)
    PROVE  (Untried(r) /\ Accounted(r))'
<1>1. /\ pc[r] = "idle" /\ todo'[r] = todo[r] /\ outcome'[r] = outcome[r]
      /\ deal'[r] = deal[r] /\ due'[r] = due[r]
  BY DEF Begin, BeginClose, BeginPartial, BeginAll, book, loop
<1>2. todo[r] = {} /\ \A t \in Tickets : outcome[r][t] = "none" /\ Untouched(r, t)
  BY <1>1 DEF Untried
<1>3. \/ pc'[r] = "read" /\ kind'[r] \in {"close", "partial"}
      \/ pc'[r] = "total" /\ kind'[r] = "all"
  BY DEF Begin, BeginClose, BeginPartial, BeginAll, Goto, TypeOK
<1>4. Untried(r)'
  BY <1>1, <1>2, <1>3 DEF Untried, Untouched, Closes, SaysRefused
<1> QED
  BY <1>1, <1>3, <1>4 DEF Accounted

LEMMA CountedForget ==
    ASSUME TypeOK, NEW r \in Requests, Forget(r)
    PROVE  (Untried(r) /\ Accounted(r))'
<1>1. /\ pc'[r] = "idle" /\ kind'[r] = "none" /\ todo'[r] = {} /\ due'[r] = due[r]
      /\ deal'[r] = [t \in Tickets |-> 0] /\ outcome'[r] = [t \in Tickets |-> "none"]
  BY DEF Forget, Goto, TypeOK
<1>2. \A t \in Tickets : outcome'[r][t] = "none" /\ Untouched(r, t)'
  BY <1>1 DEF Forget, Untouched
<1> QED
  BY <1>1, <1>2 DEF Untried, Accounted, SaysRefused

\* What is executed late was acknowledged, so it is not untouched before.
LEMMA CountedServer ==
    ASSUME TypeOK, NEW r \in Requests, NEW t \in Tickets, DealLands(r, t),
           NEW q \in Requests, Untried(q), Accounted(q)
    PROVE  (Untried(q) /\ Accounted(q))'
<1>1. Same(q) /\ UNCHANGED <<pc, body, ticket, loop, outcome>>
  BY DEF Same, DealLands, body, loop
<1>2. CASE q # r
  <2>1. deal'[q] = deal[q] /\ due'[q] = due[q]
    BY <1>2 DEF DealLands, Execute, TypeOK
  <2> QED
    BY <1>1, <2>1, CountedFrame
<1>3. CASE q = r
  <2>1. due[r][t] # 0 /\ \A u \in Tickets : due'[r][u] = IF u = t THEN 0 ELSE due[r][u]
    BY DEF DealLands, TypeOK
  <2>2. \A u \in Tickets : u # t => deal'[r][u] = deal[r][u]
    BY ExecuteEffect DEF DealLands
  <2>3. \A u \in Tickets : u # t => Untouched(r, u)' = Untouched(r, u)
    BY <2>1, <2>2 DEF Untouched
  <2>4. ~Untouched(r, t)
    BY <2>1 DEF Untouched
  <2>5. Untried(r)'
    BY <1>1, <1>3, <2>3, <2>4 DEF Untried, Closes, SaysRefused, body, loop
  <2>6. Accounted(r)'
    BY <1>1, <1>3 DEF Accounted, Closes, Same
  <2> QED
    BY <1>3, <2>5, <2>6
<1> QED
  BY <1>2, <1>3

\* The reads of close_all and its loop.
LEMMA CountedRows ==
    ASSUME TypeOK, NEW r \in Requests, Untried(r), Accounted(r),
           PositionsTotal(r) \/ PositionsGet(r) \/ NextRow(r)
    PROVE  (Untried(r) /\ Accounted(r))'
<1>1. UNCHANGED <<due, deal, kind>> /\ kind[r] = "all"
  BY DEF PositionsTotal, PositionsGet, NextRow, book, body, Untried
<1>2. CASE PositionsTotal(r)
  <2>1. /\ outcome' = outcome /\ todo' = todo /\ ticket' = ticket
        /\ \/ pc'[r] = "rows"
           \/ pc'[r] = "answered" /\ rows'[r] = {}
    BY <1>2 DEF PositionsTotal, Goto, TypeOK
  <2>2. todo[r] = {} /\ \A t \in Tickets : outcome[r][t] = "none" /\ Untouched(r, t)
    BY <1>2 DEF PositionsTotal, Untried
  <2>3. Untried(r)'
    BY <1>1, <2>1, <2>2 DEF Untried, Untouched, Closes, SaysRefused
  <2> QED
    BY <1>1, <2>1, <2>2, <2>3 DEF Accounted
<1>3. CASE PositionsGet(r)
  <2>1. todo[r] = {} /\ \A t \in Tickets : outcome[r][t] = "none" /\ Untouched(r, t)
    BY <1>3 DEF PositionsGet, Untried
  <2>2. \/ pc'[r] = "next" /\ outcome' = outcome /\ rows'[r] = todo'[r]
        \/ /\ pc'[r] = "answered" /\ todo' = todo
           /\ \A t \in Tickets : outcome'[r][t] = "error"
    <3>1. CASE Goto(r, "next")
      BY <1>3, <3>1 DEF PositionsGet, Goto, TypeOK
    <3>2. CASE Goto(r, "answered") /\ outcome' = [outcome EXCEPT ![r] = [t \in Tickets |-> "error"]]
      BY <1>3, <3>2 DEF PositionsGet, Goto, TypeOK
    <3> QED
      BY <1>3, <3>1, <3>2 DEF PositionsGet
  <2>3. Untried(r)'
    BY <1>1, <2>1, <2>2 DEF Untried, Untouched, Closes, SaysRefused
  <2> QED
    BY <1>1, <2>1, <2>2, <2>3 DEF Accounted, Closes
<1>4. CASE NextRow(r)
  <2>1. outcome' = outcome /\ rows' = rows /\ pc[r] = "next"
    BY <1>4 DEF NextRow
  <2>2. CASE todo[r] = {} /\ pc'[r] = "answered" /\ UNCHANGED <<ticket, todo>>
    BY <1>1, <2>1, <2>2 DEF Untried, Untouched, Accounted, Closes, SaysRefused
  <2>3. ASSUME NEW t \in todo[r], ticket'[r] = t, todo'[r] = todo[r] \ {t}, pc'[r] = "read"
        PROVE  (Untried(r) /\ Accounted(r))'
    <3>1. Untried(r)'
      BY <1>1, <2>1, <2>3 DEF Untried, Untouched, Closes, SaysRefused
    <3>2. Accounted(r)'
      BY <1>1, <2>1, <2>3 DEF Accounted, Closes
    <3> QED
      BY <3>1, <3>2
  <2> QED
    BY <1>4, <2>2, <2>3 DEF NextRow, Goto, TypeOK
<1> QED
  BY <1>2, <1>3, <1>4

\* Settling the position under way: a refusal must be true.
LEMMA CountedConclude ==
    ASSUME TypeOK, NEW r \in Requests, Untried(r), Accounted(r),
           NEW verdict \in Outcomes \ {"none"},
           Conclude(r, verdict), pc[r] \in {"read", "send", "confirm"},
           UNCHANGED <<body, ticket, loop>>,
           \A u \in Tickets \ {ticket[r]} : UNCHANGED <<deal[r][u], due[r][u]>>,
           \/ verdict \notin {"invalid", "retryable", "mt5_rejected"}
           \/ verdict = "invalid" /\ kind[r] # "partial"
           \/ Untouched(r, ticket[r])'
    PROVE  (Untried(r) /\ Accounted(r))'
<1> DEFINE t == ticket[r]
<1>1. /\ pc'[r] = IF kind[r] = "all" THEN "next" ELSE "answered"
      /\ \A u \in Tickets : outcome'[r][u] = IF u = t THEN verdict ELSE outcome[r][u]
  BY ConcludeEffect
<1>2. /\ t \in Tickets /\ ticket'[r] = t /\ kind'[r] = kind[r]
      /\ rows'[r] = rows[r] /\ todo'[r] = todo[r]
  BY DEF TypeOK, body, loop
<1>3. outcome[r][t] = "none" /\ t \notin todo[r]
  BY <1>2 DEF Untried, Closes
<1>4. \A u \in Tickets \ {t} : Untouched(r, u)' = Untouched(r, u)
  BY DEF Untouched
<1>5. Untried(r)'
  BY <1>1, <1>2, <1>3, <1>4 DEF Untried, Closes, SaysRefused
<1>6. Accounted(r)'
  BY <1>1, <1>2, <1>3 DEF Accounted, Closes
<1> QED
  BY <1>5, <1>6

\* The close of one position, from the read to the verdict.
LEMMA CountedClose ==
    ASSUME TypeOK, NEW r \in Requests, Untried(r), Accounted(r), Work(r),
           pc[r] \in {"read", "send", "confirm"}
    PROVE  (Untried(r) /\ Accounted(r))'
<1> DEFINE t == ticket[r]
<1>1. t \in Tickets /\ outcome[r][t] = "none"
  BY DEF TypeOK, Untried, Closes
<1>2. pc[r] # "confirm" => Untouched(r, t)
  BY <1>1 DEF Untried
<1>3. ASSUME NEW x, Execute(r, t, x)
      PROVE  \A u \in Tickets \ {t} : deal'[r][u] = deal[r][u]
  BY <1>1, <1>3, ExecuteEffect
<1>4. CASE ReadPosition(r)
  <2>1. UNCHANGED <<due, deal, body, ticket, loop>>
    BY <1>4 DEF ReadPosition, book
  <2>2. CASE Goto(r, "send") /\ outcome' = outcome
    <3>1. pc'[r] = "send" /\ pc[r] = "read"
      BY <1>4, <2>2 DEF ReadPosition, Goto, TypeOK
    <3>2. Untried(r)'
      BY <1>1, <2>1, <2>2, <3>1 DEF Untried, Untouched, Closes, SaysRefused, body, loop
    <3>3. Accounted(r)'
      BY <1>1, <2>1, <2>2, <3>1 DEF Accounted, Closes, body, loop
    <3> QED
      BY <3>2, <3>3
  <2>3. CASE Conclude(r, IF kind[r] = "all" THEN "unknown_outcome" ELSE "invalid")
    <3>1. Untouched(r, t)'
      BY <1>2, <1>4, <2>1 DEF ReadPosition, Untouched
    <3> QED
      BY <2>1, <2>3, <3>1, CountedConclude DEF Outcomes, Sources
  <2> QED
    BY <1>4, <2>2, <2>3 DEF ReadPosition
<1>5. CASE SendExecuted(r)
  <2>1. PICK x \in 1..Requested(r) : Execute(r, t, x)
    BY <1>5 DEF SendExecuted
  <2>2. Conclude(r, "order_send") /\ UNCHANGED <<due, body, ticket, loop>>
    BY <1>5 DEF SendExecuted
  <2> QED
    BY <1>3, <2>1, <2>2, CountedConclude DEF Outcomes, Sources
<1>6. CASE SendAcknowledged(r)
  <2>1. /\ UNCHANGED <<deal, body, ticket, loop, outcome>>
        /\ pc[r] = "send" /\ pc'[r] = "confirm"
        /\ \A u \in Tickets : due'[r][u] = IF u = t THEN Requested(r) ELSE due[r][u]
    BY <1>1, <1>6 DEF SendAcknowledged, Goto, TypeOK
  <2>2. Untried(r)'
    BY <1>1, <2>1 DEF Untried, Untouched, Closes, SaysRefused, body, loop
  <2>3. Accounted(r)'
    BY <1>1, <2>1 DEF Accounted, Closes, body, loop
  <2> QED
    BY <2>2, <2>3
<1>7. CASE SendRefused(r)
  <2>1. PICK code \in Codes :
          /\ Conclude(r, VerdictOn(r, code))
          /\ \/ UNCHANGED <<volume, deal, newest>>
             \/ ~ServerRefused(code) /\ Execute(r, t, Requested(r))
    BY <1>7 DEF SendRefused
  <2>2. UNCHANGED <<due, body, ticket, loop>> /\ pc[r] = "send"
    BY <1>7 DEF SendRefused
  <2>3. \A u \in Tickets \ {t} : UNCHANGED <<deal[r][u], due[r][u]>>
    BY <1>3, <2>1, <2>2
  <2>4. VerdictOn(r, code) \in {"retryable", "mt5_rejected"} => Untouched(r, t)'
    BY <1>2, <2>1, <2>2, VerdictTyped DEF Untouched
  <2> QED
    BY <2>1, <2>2, <2>3, <2>4, VerdictTyped, CountedConclude DEF Outcomes
<1>8. CASE SendUnanswered(r)
  <2>1. UNCHANGED <<due, body, ticket, loop>>
    BY <1>8 DEF SendUnanswered
  <2>2. \A u \in Tickets \ {t} : UNCHANGED <<deal[r][u], due[r][u]>>
    BY <1>3, <1>8, <2>1 DEF SendUnanswered
  <2> QED
    BY <1>8, <2>1, <2>2, CountedConclude DEF SendUnanswered, Outcomes, Sources
<1>9. CASE SendRaised(r)
  <2>1. /\ UNCHANGED <<book, body, ticket, loop>>
        /\ pc'[r] = "answered" /\ pc[r] = "send"
        /\ \A u \in Tickets : outcome'[r][u] = "error"
    BY <1>9 DEF SendRaised, Goto, TypeOK
  <2>2. Untried(r)'
    BY <2>1 DEF Untried, Closes, SaysRefused
  <2> QED
    BY <2>1, <2>2 DEF Accounted
<1>10. CASE ConfirmFound(r) \/ ConfirmTimedOut(r)
  <2>1. /\ UNCHANGED <<due, deal, body, ticket, loop>>
        /\ Conclude(r, "deal") \/ Conclude(r, "unresolved")
    BY <1>10 DEF ConfirmFound, ConfirmTimedOut, book
  <2> QED
    BY <2>1, CountedConclude DEF Outcomes, Sources
<1> QED
  BY <1>4, <1>5, <1>6, <1>7, <1>8, <1>9, <1>10
  DEF Work, PositionsTotal, PositionsGet, NextRow

LEMMA CountedStep == TypeOK /\ Counted /\ [Next]_vars => Counted'
<1> SUFFICES ASSUME TypeOK, Counted, [Next]_vars, NEW q \in Requests
             PROVE  (Untried(q) /\ Accounted(q))'
  BY DEF Counted
<1>1. Untried(q) /\ Accounted(q)
  BY DEF Counted
<1>2. CASE UNCHANGED vars
  BY <1>1, <1>2, CountedFrame DEF Same, vars, book, body, loop
<1>3. CASE Server
  BY <1>1, <1>3, CountedServer DEF Server
<1>4. ASSUME NEW r \in Requests, Begin(r) \/ Work(r) \/ Forget(r)
      PROVE  (Untried(q) /\ Accounted(q))'
  <2>1. CASE q # r
    BY <1>1, <1>4, <2>1, OthersAlone, CountedFrame
  <2>2. CASE q = r /\ Begin(r)
    BY <1>1, <2>2, CountedBegin
  <2>3. CASE q = r /\ Forget(r)
    BY <2>3, CountedForget
  <2>4. CASE q = r /\ Work(r)
    <3>1. \/ PositionsTotal(r) \/ PositionsGet(r) \/ NextRow(r)
          \/ pc[r] \in {"read", "send", "confirm"}
      BY <2>4 DEF Work, ReadPosition, SendExecuted, SendAcknowledged, SendRefused,
                  SendUnanswered, SendRaised, ConfirmFound, ConfirmTimedOut
    <3> QED
      BY <1>1, <2>4, <3>1, CountedRows, CountedClose
  <2> QED
    BY <1>4, <2>1, <2>2, <2>3, <2>4
<1> QED
  BY <1>2, <1>3, <1>4 DEF Next

\* What the responses say of each position is right at every moment.
THEOREM CountedInvariant == Spec => [](TypeOK /\ Counted)
  BY TypeCorrect, CountedInit, CountedStep, PTL DEF Spec

-----------------------------------------------------------------------------
(* What remains open, while nothing opens.                                 *)

\* While its close waits for the deal, the volume read bounds what is open.
Bounded(r) ==
    LET t == ticket[r]
    IN  /\ pc[r] \in {"send", "confirm"} => seen[r] >= volume[t]
        /\ pc[r] = "confirm" =>
              /\ result[r].lots \in {0, Requested(r)}
              /\ due[r][t] \in {0, Requested(r)}
              /\ due[r][t] # 0 => deal[r][t] = 0
              /\ deal[r][t] # 0 =>
                    /\ volume[t] + deal[r][t] <= seen[r]
                    /\ deal[r][t] = Requested(r) \/ volume[t] = 0
        /\ pc[r] # "answered" \/ kind[r] = "all" => remaining[r] = NoVolume
        /\ pc[r] = "answered" /\ remaining[r] # NoVolume /\ KnowsVolume(r) =>
              \/ remaining[r] >= volume[t]
              \/ outcome[r][t] \notin {"order_send", "deal"}
              \/ outcome[r][t] = "deal" /\ ~result[r].named

AllBounded == \A r \in Requests : Bounded(r)

LEMMA BoundedFrame ==
    ASSUME TypeOK, TypeOK', [Next]_vars, NEW q \in Requests, Bounded(q),
           Same(q), deal'[q] = deal[q], due'[q] = due[q]
    PROVE  Bounded(q)'
<1>1. /\ ticket[q] \in Tickets /\ ticket'[q] = ticket[q]
      /\ volume[ticket[q]] \in Nat /\ volume'[ticket[q]] \in Nat
      /\ seen[q] \in Nat /\ deal[q][ticket[q]] \in Nat
      /\ remaining[q] \in Nat \cup {NoVolume}
  BY ClosingAssumption DEF TypeOK, Same
<1>2. volume'[ticket[q]] <= volume[ticket[q]]
  BY <1>1, VolumeShrinks
<1>3. Requested(q)' = Requested(q)
  BY DEF Requested, Same
<1> QED
  BY <1>1, <1>2, <1>3, ClosingAssumption DEF Bounded, KnowsVolume, Same

LEMMA BoundedInit == Init => AllBounded
<1> SUFFICES ASSUME Init, NEW r \in Requests PROVE Bounded(r)
  BY DEF AllBounded
<1>1. pc[r] = "idle" /\ kind[r] = "none" /\ remaining[r] = NoVolume
  BY DEF Init
<1> QED
  BY <1>1 DEF Bounded

LEMMA BoundedBegin ==
    ASSUME TypeOK, NEW r \in Requests, Bounded(r), Begin(r)
    PROVE  Bounded(r)'
<1>1. /\ pc[r] = "idle" /\ volume' = volume /\ remaining'[r] = remaining[r]
  BY DEF Begin, BeginClose, BeginPartial, BeginAll, book
<1>2. remaining[r] = NoVolume
  BY <1>1 DEF Bounded
<1>3. pc'[r] \in {"read", "total"}
  BY DEF Begin, BeginClose, BeginPartial, BeginAll, Goto, TypeOK
<1> QED
  BY <1>1, <1>2, <1>3 DEF Bounded

LEMMA BoundedForget ==
    ASSUME TypeOK, NEW r \in Requests, Forget(r)
    PROVE  Bounded(r)'
<1>1. pc'[r] = "idle" /\ kind'[r] = "none" /\ remaining'[r] = NoVolume
  BY DEF Forget, Goto, TypeOK
<1> QED
  BY <1>1 DEF Bounded

\* An acknowledged close is executed after its request was told so or while
\* it is being confirmed, and never for more than was asked or is open.
LEMMA BoundedServer ==
    ASSUME TypeOK, TypeOK', AllBounded, NEW r \in Requests, NEW t \in Tickets, DealLands(r, t),
           NEW q \in Requests
    PROVE  Bounded(q)'
<1> DEFINE x == IF due[r][t] < volume[t] THEN due[r][t] ELSE volume[t]
<1>1. Same(q) /\ UNCHANGED <<pc, body, ticket, loop, seen, result, outcome, remaining>>
  BY DEF Same, DealLands, body, loop
<1>2. [Next]_vars
  BY DEF Next, Server
<1>3. CASE q # r
  <2>1. deal'[q] = deal[q] /\ due'[q] = due[q]
    BY <1>3 DEF DealLands, Execute, TypeOK
  <2> QED
    BY <1>1, <1>2, <2>1, BoundedFrame DEF AllBounded
<1>4. CASE q = r
  <2>1. due[r][t] # 0 /\ \A u \in Tickets : due'[r][u] = IF u = t THEN 0 ELSE due[r][u]
    BY DEF DealLands, TypeOK
  <2>2. x \in Nat /\ x <= volume[t]
    BY ClosingAssumption DEF TypeOK
  <2>3. \/ volume' = volume /\ deal' = deal
        \/ /\ volume'[t] = volume[t] - x
           /\ \A u \in Tickets : deal'[r][u] = IF u = t THEN x ELSE deal[r][u]
    BY ExecuteEffect DEF DealLands
  <2>4. /\ ticket[r] \in Tickets /\ ticket'[r] = ticket[r]
        /\ \A u \in Tickets : volume[u] \in Nat /\ volume'[u] \in Nat
        /\ seen[r] \in Nat
        /\ \A u \in Tickets : deal[r][u] \in Nat /\ due[r][u] \in Nat
        /\ remaining[r] \in Nat \cup {NoVolume}
    BY <1>1, ClosingAssumption DEF TypeOK
  <2>5. volume'[ticket[r]] <= volume[ticket[r]]
    BY <1>2, <2>4, VolumeShrinks
  <2>6. Requested(r)' = Requested(r) /\ Requested(r) \in Nat
    BY <1>1, RequestedTyped, ClosingAssumption DEF Requested, body
  <2>7. Bounded(r)
    BY DEF AllBounded
  <2>8. CASE ticket[r] = t /\ pc[r] = "confirm"
    <3>1. due[r][t] = Requested(r) /\ deal[r][t] = 0 /\ seen[r] >= volume[t]
      BY <2>1, <2>7, <2>8 DEF Bounded
    <3>2. deal'[r][t] # 0 =>
            /\ volume'[t] + deal'[r][t] <= seen[r]
            /\ deal'[r][t] = Requested(r) \/ volume'[t] = 0
      BY <2>2, <2>3, <2>4, <2>6, <3>1
    <3> HIDE DEF x
    <3> QED
      BY <1>1, <1>4, <2>1, <2>4, <2>5, <2>6, <2>7, <2>8, <3>2 DEF Bounded, Same
  <2>9. CASE pc[r] # "confirm"
    BY <1>1, <1>4, <2>4, <2>5, <2>7, <2>9, ClosingAssumption DEF Bounded, KnowsVolume, Same
  <2>10. CASE ticket[r] # t
    <3>1. deal'[r][ticket[r]] = deal[r][ticket[r]] /\ due'[r][ticket[r]] = due[r][ticket[r]]
      BY <2>1, <2>3, <2>4, <2>10
    <3> HIDE DEF x
    <3> QED
      BY <1>1, <1>4, <2>4, <2>5, <2>6, <2>7, <3>1, ClosingAssumption DEF Bounded, KnowsVolume, Same
  <2> QED
    BY <1>4, <2>8, <2>9, <2>10
<1> QED
  BY <1>3, <1>4

LEMMA BoundedRows ==
    ASSUME TypeOK, NEW r \in Requests, Untried(r), Bounded(r),
           PositionsTotal(r) \/ PositionsGet(r) \/ NextRow(r)
    PROVE  Bounded(r)'
<1>1. /\ UNCHANGED <<kind, remaining>>
      /\ kind[r] = "all" /\ remaining[r] = NoVolume
  BY DEF PositionsTotal, PositionsGet, NextRow, body, Untried, Bounded
<1>2. pc'[r] \in {"rows", "next", "read", "answered"}
  BY DEF PositionsTotal, PositionsGet, NextRow, Goto, TypeOK
<1> QED
  BY <1>1, <1>2 DEF Bounded

\* Settling the position under way: the volume reported covers what is open.
LEMMA BoundedConclude ==
    ASSUME TypeOK, NEW r \in Requests, NEW verdict, Conclude(r, verdict),
           UNCHANGED <<body, ticket, result>>,
           kind[r] = "all" => remaining'[r] = NoVolume,
           \/ remaining'[r] = NoVolume
           \/ ~KnowsVolume(r)'
           \/ remaining'[r] >= volume'[ticket[r]]
           \/ verdict \notin {"order_send", "deal"}
           \/ verdict = "deal" /\ ~result[r].named
    PROVE  Bounded(r)'
<1>1. /\ pc'[r] = IF kind[r] = "all" THEN "next" ELSE "answered"
      /\ \A u \in Tickets : outcome'[r][u] = IF u = ticket[r] THEN verdict ELSE outcome[r][u]
  BY ConcludeEffect
<1>2. ticket[r] \in Tickets /\ ticket'[r] = ticket[r] /\ kind'[r] = kind[r]
  BY DEF TypeOK, body
<1> QED
  BY <1>1, <1>2 DEF Bounded

LEMMA BoundedClose ==
    ASSUME TypeOK, NEW r \in Requests, Untried(r), Bounded(r), Work(r),
           pc[r] \in {"read", "send", "confirm"}
    PROVE  Bounded(r)'
<1> DEFINE t == ticket[r]
<1>1. /\ t \in Tickets /\ kind[r] \in {"none", "close", "partial", "all"}
      /\ remaining[r] = NoVolume
  BY DEF TypeOK, Bounded
<1>2. /\ volume[t] \in Nat /\ seen[r] \in Nat /\ asked[r] \in Nat \cup {NoVolume}
      /\ (kind[r] = "partial" => asked[r] \in Nat) /\ Requested(r) \in Nat /\ deal[r][t] \in Nat /\ result[r].lots \in Nat
  BY <1>1, ClosingAssumption DEF TypeOK, Requested, Result
<1>3. CASE ReadPosition(r)
  <2>1. UNCHANGED <<volume, body, ticket, result, remaining>>
    BY <1>3 DEF ReadPosition, book
  <2>2. CASE seen' = [seen EXCEPT ![r] = volume[t]] /\ Goto(r, "send")
    <3>1. seen'[r] = volume[t] /\ pc'[r] = "send" /\ pc[r] = "read"
      BY <1>3, <2>2 DEF ReadPosition, Goto, TypeOK
    <3> QED
      BY <1>1, <1>2, <2>1, <3>1 DEF Bounded, body
  <2>3. CASE Conclude(r, IF kind[r] = "all" THEN "unknown_outcome" ELSE "invalid")
    BY <1>1, <2>1, <2>3, BoundedConclude
  <2> QED
    BY <1>3, <2>2, <2>3 DEF ReadPosition
<1>4. CASE SendExecuted(r)
  <2>1. PICK x \in 1..Requested(r) :
          /\ x <= volume[t]
          /\ Execute(r, t, x)
          /\ remaining' = [remaining EXCEPT ![r] = RemainingAfter(r, x, x < Requested(r))]
    BY <1>4 DEF SendExecuted
  <2>2. x \in Nat \ {0} /\ volume'[t] = volume[t] - x
    BY <1>1, <1>2, <2>1, ExecuteEffect
  <2>3. remaining'[r] = RemainingAfter(r, x, x < Requested(r))
    BY <2>1 DEF TypeOK
  <2>4. seen[r] >= volume[t]
    BY <1>1, <1>4 DEF SendExecuted, Bounded
  <2>5. remaining'[r] = NoVolume \/ ~KnowsVolume(r)' \/ remaining'[r] >= volume'[t]
    <3>1. KnowsVolume(r)' = KnowsVolume(r)
      BY <1>4 DEF SendExecuted, KnowsVolume, body
    <3>2. CASE kind[r] = "partial"
      BY <1>2, <2>2, <2>3, <2>4, <3>2 DEF RemainingAfter, Filled, Minus
    <3>3. CASE kind[r] = "close" /\ KnowsVolume(r)
      BY <1>2, <2>2, <2>3, <2>4, <3>3 DEF RemainingAfter, Minus, KnowsVolume
    <3> QED
      BY <1>1, <2>3, <3>1, <3>2, <3>3 DEF RemainingAfter
  <2>6. kind[r] = "all" => remaining'[r] = NoVolume
    BY <2>3 DEF RemainingAfter
  <2>7. Conclude(r, "order_send") /\ UNCHANGED <<body, ticket, result>>
    BY <1>4 DEF SendExecuted
  <2> QED
    BY <2>5, <2>6, <2>7, BoundedConclude
<1>5. CASE SendAcknowledged(r)
  <2>1. /\ UNCHANGED <<volume, deal, body, ticket, seen, remaining>>
        /\ pc[r] = "send" /\ pc'[r] = "confirm"
        /\ due'[r][t] = Requested(r)
    BY <1>1, <1>5 DEF SendAcknowledged, Goto, TypeOK
  <2>2. result'[r].lots \in {0, Requested(r)}
    BY <1>5 DEF SendAcknowledged, TypeOK
  <2>3. Requested(r)' = Requested(r)
    BY <2>1 DEF Requested, body
  <2>4. deal[r][t] = 0
    BY <1>1, <2>1 DEF Untried, Untouched, Closes
  <2> QED
    BY <1>1, <1>2, <2>1, <2>2, <2>3, <2>4 DEF Bounded, body
<1>6. CASE SendRefused(r)
  <2>1. PICK code \in Codes : Conclude(r, VerdictOn(r, code))
    BY <1>6 DEF SendRefused
  <2>2. UNCHANGED <<body, ticket, result, remaining>>
    BY <1>6 DEF SendRefused
  <2> QED
    BY <1>1, <2>1, <2>2, BoundedConclude
<1>7. CASE SendUnanswered(r)
  <2>1. UNCHANGED <<body, ticket, result, remaining>>
    BY <1>7 DEF SendUnanswered
  <2> QED
    BY <1>1, <1>7, <2>1, BoundedConclude DEF SendUnanswered
<1>8. CASE SendRaised(r)
  <2>1. /\ UNCHANGED <<body, ticket, remaining>> /\ pc'[r] = "answered"
    BY <1>8 DEF SendRaised, Goto, TypeOK
  <2> QED
    BY <1>1, <2>1 DEF Bounded
<1>9. CASE ConfirmFound(r)
  <2> DEFINE lots == IF result[r].lots > 0 THEN result[r].lots ELSE ClosingDeal(r)
  <2>1. /\ UNCHANGED <<volume, body, ticket, result>>
        /\ Conclude(r, "deal") /\ pc[r] = "confirm" /\ ClosingDeal(r) > 0
        /\ remaining'[r] = RemainingAfter(r, lots, FALSE)
    BY <1>9 DEF ConfirmFound, TypeOK, book
  <2>2. kind[r] = "all" => remaining'[r] = NoVolume
    BY <2>1 DEF RemainingAfter
  <2>3. ASSUME result[r].named, kind[r] = "partial"
        PROVE  remaining'[r] >= volume'[t]
    <3>1. /\ deal[r][t] > 0 /\ volume[t] + deal[r][t] <= seen[r]
          /\ deal[r][t] = asked[r] \/ volume[t] = 0
          /\ result[r].lots \in {0, asked[r]}
      BY <1>1, <1>2, <2>1, <2>3 DEF ClosingDeal, Bounded, Requested
    <3>2. lots \in {deal[r][t], asked[r]} /\ lots > 0
      BY <1>2, <2>1, <2>3, <3>1 DEF ClosingDeal
    <3>3. remaining'[r] = Minus(seen[r], lots)
      BY <2>1, <2>3, <3>2 DEF RemainingAfter, Filled
    <3>4. volume'[t] = volume[t]
      BY <2>1
    <3>5. volume[t] + lots <= seen[r] \/ volume[t] = 0
      BY <1>2, <3>1, <3>2
    <3>6. volume[t] \in Nat /\ seen[r] \in Nat /\ lots \in Nat
      BY <1>2, <2>3, <3>2
    <3> HIDE DEF lots
    <3> QED
      BY <3>3, <3>4, <3>5, <3>6 DEF Minus
  <2>4. kind[r] # "partial" => remaining'[r] = NoVolume
    BY <2>1 DEF RemainingAfter
  <2> QED
    BY <2>1, <2>2, <2>3, <2>4, BoundedConclude
<1>10. CASE ConfirmTimedOut(r)
  <2>1. /\ UNCHANGED <<body, ticket, result>>
        /\ Conclude(r, "unresolved")
        /\ remaining'[r] = RemainingAfter(r, result[r].lots, FALSE)
    BY <1>10 DEF ConfirmTimedOut, TypeOK
  <2>2. kind[r] = "all" => remaining'[r] = NoVolume
    BY <2>1 DEF RemainingAfter
  <2> QED
    BY <2>1, <2>2, BoundedConclude
<1> QED
  BY <1>3, <1>4, <1>5, <1>6, <1>7, <1>8, <1>9, <1>10
  DEF Work, PositionsTotal, PositionsGet, NextRow

LEMMA BoundedStep == TypeOK /\ Counted /\ AllBounded /\ [Next]_vars => AllBounded'
<1> SUFFICES ASSUME TypeOK, Counted, AllBounded, [Next]_vars, NEW q \in Requests
             PROVE  Bounded(q)'
  BY DEF AllBounded
<1>1. TypeOK' /\ Untried(q) /\ Bounded(q)
  BY TypeStep DEF Counted, AllBounded
<1>2. CASE UNCHANGED vars
  BY <1>1, <1>2, BoundedFrame DEF Same, vars, book, body, loop
<1>3. CASE Server
  BY <1>1, <1>3, BoundedServer DEF Server
<1>4. ASSUME NEW r \in Requests, Begin(r) \/ Work(r) \/ Forget(r)
      PROVE  Bounded(q)'
  <2>1. CASE q # r
    BY <1>1, <1>4, <2>1, OthersAlone, BoundedFrame
  <2>2. CASE q = r /\ Begin(r)
    BY <1>1, <2>2, BoundedBegin
  <2>3. CASE q = r /\ Forget(r)
    BY <2>3, BoundedForget
  <2>4. CASE q = r /\ Work(r)
    <3>1. \/ PositionsTotal(r) \/ PositionsGet(r) \/ NextRow(r)
          \/ pc[r] \in {"read", "send", "confirm"}
      BY <2>4 DEF Work, ReadPosition, SendExecuted, SendAcknowledged, SendRefused,
                  SendUnanswered, SendRaised, ConfirmFound, ConfirmTimedOut
    <3> QED
      BY <1>1, <2>4, <3>1, BoundedRows, BoundedClose
  <2> QED
    BY <1>4, <2>1, <2>2, <2>3, <2>4
<1> QED
  BY <1>2, <1>3, <1>4 DEF Next

\* The bookkeeping of every request is right at every moment.
THEOREM BoundedInvariant == Spec => []AllBounded
  BY CountedInvariant, BoundedInit, BoundedStep, PTL DEF Spec

LEMMA RefusalsCounted == Counted => RefusedMeansUntouched
<1> SUFFICES ASSUME Counted, NEW r \in Requests, NEW t \in Tickets,
                    SaysRefused(r, t)
             PROVE  ~Executed(r, t) /\ due[r][t] = 0
  BY DEF RefusedMeansUntouched
<1>1. Untouched(r, t)
  BY DEF Counted, Untried
<1> QED
  BY <1>1 DEF Untouched, Executed

LEMMA RowsCounted == TypeOK /\ Counted => EveryRowReported
<1> SUFFICES ASSUME TypeOK, Counted, NEW r \in Requests,
                    pc[r] = "answered", kind[r] = "all"
             PROVE  \/ {t \in Tickets : outcome[r][t] # "none"} = rows[r]
                    \/ \A t \in Tickets : outcome[r][t] = "error"
  BY DEF EveryRowReported
<1>1. \/ \A t \in Tickets : outcome[r][t] # "none" <=> t \in rows[r]
      \/ \A t \in Tickets : outcome[r][t] = "error"
  BY DEF Counted, Accounted
<1>2. rows[r] \subseteq Tickets
  BY DEF TypeOK
<1> QED
  BY <1>1, <1>2

\* What /close_position and /position_close_partial answer as refused was
\* neither closed nor will be.
THEOREM RefusalsAreTrue == Spec => []RefusedMeansUntouched
  BY RefusalsCounted, CountedInvariant, PTL

\* However many requests close the position at once, a remaining_volume that
\* rests on the volume read, or on no less, covers what is open.
THEOREM RemainingCoversOpen == Spec => []RemainingNotUnderstated
<1>1. AllBounded => RemainingNotUnderstated
  BY DEF AllBounded, Bounded, RemainingNotUnderstated
<1> QED
  BY <1>1, BoundedInvariant, PTL

\* No row of close_all is dropped from its response or reported twice.
THEOREM RowsAreReported == Spec => []EveryRowReported
  BY RowsCounted, CountedInvariant, PTL

-----------------------------------------------------------------------------
(* How long a close request may run.                                       *)

Running(r) == pc[r] \notin {"idle", "answered"}

\* The steps r may still take before it is answered.
StepsToAnswer(r) ==
    LET todoSteps == 4 * Cardinality(todo[r])
    IN  CASE pc[r] = "total" -> 4 * Cardinality(Tickets) + 3
          [] pc[r] = "rows" -> 4 * Cardinality(Tickets) + 2
          [] pc[r] = "read" -> todoSteps + 4
          [] pc[r] = "send" -> todoSteps + 3
          [] pc[r] = "confirm" -> todoSteps + 2
          [] pc[r] = "next" -> todoSteps + 1
          [] OTHER -> 0

AnswerBounded ==
    \A r \in Requests :
        /\ StepsToAnswer(r) \in 0..(4 * Cardinality(Tickets) + 4)
        /\ StepsToAnswer(r) = 0 <=> ~Running(r)

\* No other request, deal or order puts an answer off.
AnswersComeNearer ==
    \A r \in Requests : Running(r) =>
        /\ StepsToAnswer(r)' <= StepsToAnswer(r)
        /\ Work(r) => StepsToAnswer(r)' < StepsToAnswer(r)

LEMMA TodoFinite ==
    ASSUME IsFiniteSet(Tickets), NEW S \in SUBSET Tickets
    PROVE  /\ Cardinality(S) \in 0..Cardinality(Tickets)
           /\ \A t \in S : Cardinality(S \ {t}) = Cardinality(S) - 1
<1>1. IsFiniteSet(S) /\ Cardinality(S) <= Cardinality(Tickets)
  BY FS_Subset
<1>2. Cardinality(S) \in Nat /\ Cardinality(Tickets) \in Nat
  BY <1>1, FS_CardinalityType
<1>3. \A t \in S : Cardinality(S \ {t}) = Cardinality(S) - 1
  BY <1>1, FS_RemoveElement
<1> QED
  BY <1>1, <1>2, <1>3

LEMMA AnswerBoundedTyped ==
    ASSUME IsFiniteSet(Tickets)
    PROVE  TypeOK => AnswerBounded
<1> SUFFICES ASSUME TypeOK, NEW r \in Requests
             PROVE  /\ StepsToAnswer(r) \in 0..(4 * Cardinality(Tickets) + 4)
                    /\ StepsToAnswer(r) = 0 <=> ~Running(r)
  BY DEF AnswerBounded
<1>1. Cardinality(todo[r]) \in 0..Cardinality(Tickets) /\ Cardinality(Tickets) \in Nat
  BY TodoFinite, FS_CardinalityType DEF TypeOK
<1>2. pc[r] \in Pcs
  BY DEF TypeOK
<1> QED
  BY <1>1, <1>2 DEF StepsToAnswer, Running, Pcs

\* The request's own steps.
LEMMA AnswerStep ==
    ASSUME IsFiniteSet(Tickets), TypeOK, NEW r \in Requests, Work(r)
    PROVE  StepsToAnswer(r)' < StepsToAnswer(r)
<1>1. Cardinality(todo[r]) \in 0..Cardinality(Tickets) /\ Cardinality(Tickets) \in Nat
  BY TodoFinite, FS_CardinalityType DEF TypeOK
<1>2. ASSUME NEW verdict, Conclude(r, verdict)
      PROVE  pc'[r] \in {"next", "answered"}
  BY <1>2, ConcludeEffect
<1>3. CASE PositionsTotal(r)
  <2>1. pc[r] = "total" /\ pc'[r] \in {"rows", "answered"}
    BY <1>3 DEF PositionsTotal, Goto, TypeOK
  <2> QED
    BY <1>1, <2>1 DEF StepsToAnswer
<1>4. CASE PositionsGet(r)
  <2>1. /\ pc[r] = "rows"
        /\ \/ pc'[r] = "answered"
           \/ pc'[r] = "next" /\ todo'[r] \in SUBSET Tickets
    BY <1>4 DEF PositionsGet, Goto, TypeOK, Open
  <2>2. CASE pc'[r] = "answered"
    BY <1>1, <2>1, <2>2 DEF StepsToAnswer
  <2>3. CASE pc'[r] = "next" /\ todo'[r] \in SUBSET Tickets
    <3>1. Cardinality(todo'[r]) \in 0..Cardinality(Tickets)
      BY <2>3, TodoFinite
    <3>2. StepsToAnswer(r)' = 4 * Cardinality(todo'[r]) + 1
      BY <2>3 DEF StepsToAnswer
    <3>3. StepsToAnswer(r) = 4 * Cardinality(Tickets) + 2
      BY <2>1 DEF StepsToAnswer
    <3> QED
      BY <1>1, <3>1, <3>2, <3>3
  <2> QED
    BY <2>1, <2>2, <2>3
<1>5. CASE NextRow(r)
  <2>1. /\ pc[r] = "next"
        /\ \/ pc'[r] = "answered"
           \/ pc'[r] = "read" /\ \E t \in todo[r] : todo'[r] = todo[r] \ {t}
    BY <1>5 DEF NextRow, Goto, TypeOK
  <2>2. CASE pc'[r] = "answered"
    BY <1>1, <2>1, <2>2 DEF StepsToAnswer
  <2>3. CASE pc'[r] = "read" /\ \E t \in todo[r] : todo'[r] = todo[r] \ {t}
    <3>1. Cardinality(todo'[r]) = Cardinality(todo[r]) - 1
      BY <2>3, TodoFinite DEF TypeOK
    <3> QED
      BY <1>1, <2>1, <2>3, <3>1 DEF StepsToAnswer
  <2> QED
    BY <2>1, <2>2, <2>3
<1>6. CASE ReadPosition(r)
  <2>1. pc[r] = "read" /\ pc'[r] \in {"send", "next", "answered"} /\ todo'[r] = todo[r]
    BY <1>2, <1>6 DEF ReadPosition, Goto, TypeOK, loop
  <2> QED
    BY <1>1, <2>1 DEF StepsToAnswer
<1>7. CASE \/ SendExecuted(r) \/ SendAcknowledged(r) \/ SendRefused(r)
           \/ SendUnanswered(r) \/ SendRaised(r)
  <2>1. pc[r] = "send" /\ pc'[r] \in {"confirm", "next", "answered"}
    BY <1>2, <1>7
    DEF SendExecuted, SendAcknowledged, SendRefused, SendUnanswered, SendRaised, Goto, TypeOK
  <2>2. todo'[r] = todo[r]
    BY <1>7
    DEF SendExecuted, SendAcknowledged, SendRefused, SendUnanswered, SendRaised, loop
  <2> QED
    BY <1>1, <2>1, <2>2 DEF StepsToAnswer
<1>8. CASE ConfirmFound(r) \/ ConfirmTimedOut(r)
  <2>1. pc[r] = "confirm" /\ pc'[r] \in {"next", "answered"}
    BY <1>2, <1>8 DEF ConfirmFound, ConfirmTimedOut
  <2>2. todo'[r] = todo[r]
    BY <1>8 DEF ConfirmFound, ConfirmTimedOut, loop
  <2> QED
    BY <1>1, <2>1, <2>2 DEF StepsToAnswer
<1> QED
  BY <1>3, <1>4, <1>5, <1>6, <1>7, <1>8 DEF Work

\* Nobody else's step touches it.
LEMMA NearerStep ==
    ASSUME IsFiniteSet(Tickets), TypeOK, TypeOK', [Next]_vars
    PROVE  AnswersComeNearer
<1> SUFFICES ASSUME NEW r \in Requests, Running(r)
             PROVE  /\ StepsToAnswer(r)' <= StepsToAnswer(r)
                    /\ Work(r) => StepsToAnswer(r)' < StepsToAnswer(r)
  BY DEF AnswersComeNearer
<1>1. StepsToAnswer(r) \in Int /\ (Work(r) => StepsToAnswer(r)' \in Int)
  <2>1. StepsToAnswer(r) \in Int
    BY AnswerBoundedTyped, FS_CardinalityType DEF AnswerBounded
  <2>2. StepsToAnswer(r)' \in Int
    <3>1. Cardinality(todo'[r]) \in Int /\ Cardinality(Tickets) \in Int
      BY TodoFinite, FS_CardinalityType DEF TypeOK
    <3> QED
      BY <3>1 DEF StepsToAnswer
  <2> QED
    BY <2>1, <2>2
<1>2. CASE Work(r)
  BY <1>1, <1>2, AnswerStep
<1>3. CASE ~Work(r)
  <2>1. pc'[r] = pc[r] /\ todo'[r] = todo[r]
    <3>1. CASE UNCHANGED vars
      BY <3>1 DEF vars, loop
    <3>2. CASE Server
      BY <3>2 DEF Server, DealLands, loop
    <3>3. ASSUME NEW q \in Requests, Begin(q) \/ Work(q) \/ Forget(q)
          PROVE  pc'[r] = pc[r] /\ todo'[r] = todo[r]
      <4>1. q # r
        BY <1>3, <3>3 DEF Begin, BeginClose, BeginPartial, BeginAll, Forget, Running
      <4> QED
        BY <3>3, <4>1, OthersAlone DEF Same
    <3> QED
      BY <3>1, <3>2, <3>3 DEF Next
  <2>2. StepsToAnswer(r)' = StepsToAnswer(r)
    BY <2>1 DEF StepsToAnswer
  <2> QED
    BY <1>1, <1>3, <2>2
<1> QED
  BY <1>2, <1>3

\* A close request is answered within 4 steps of its own for each position
\* and 4 more, whatever the deals and the other requests do (what
\* RequestsAnswered needs beside fairness).
THEOREM AnswerWithinBound ==
    ASSUME IsFiniteSet(Tickets)
    PROVE  Spec => []AnswerBounded /\ [][AnswersComeNearer]_vars
<1>1. TypeOK /\ TypeOK' /\ [Next]_vars => [AnswersComeNearer]_vars
  BY NearerStep
<1> QED
  BY <1>1, AnswerBoundedTyped, TypeCorrect, PTL DEF Spec

-----------------------------------------------------------------------------
(* The kill switch: types.                                                 *)

\* A position opens with a legal volume.
LEMMA OpenPositionType ==
    ASSUME TypeOK, opened \in SUBSET Tickets, NEW t \in Tickets, OpenPosition(t),
           UNCHANGED <<pc, body, ticket, loop, seen, result, outcome, remaining>>
    PROVE  TypeOK' /\ opened' \in SUBSET Tickets
<1>1. Lots \in 0..Lots
  BY ClosingAssumption
<1>2. volume' \in [Tickets -> 0..Lots]
  BY <1>1 DEF OpenPosition, TypeOK
<1> QED
  BY <1>2 DEF OpenPosition, TypeOK, body, loop

\* Steps of Closing and of the requests keep its types.
LEMMA ClosingType ==
    ASSUME TypeOK, [Next]_vars \/ UNCHANGED closing
    PROVE  TypeOK'
<1>1. UNCHANGED closing => UNCHANGED vars
  BY DEF closing, vars, book, body, loop
<1> QED
  BY <1>1, TypeStep

LEMMA HaltInitType == HaltInit => HaltTypeOK
<1> SUFFICES ASSUME HaltInit PROVE HaltTypeOK
  OBVIOUS
<1>1. TypeOK
  BY InitType DEF HaltInit
<1>2. killed \in BOOLEAN
  BY DEF HaltInit
<1> QED
  BY <1>1, <1>2 DEF HaltInit, HaltTypeOK, Open

LEMMA HaltTypeStep == HaltTypeOK /\ [HaltNext]_haltVars => HaltTypeOK'
<1> SUFFICES ASSUME HaltTypeOK, [HaltNext]_haltVars PROVE HaltTypeOK'
  OBVIOUS
<1> USE DEF HaltTypeOK, flattening
<1>1. ASSUME NEW o \in Traders, AdmitOrder(o) PROVE HaltTypeOK'
  BY <1>1, ClosingType DEF AdmitOrder
<1>2. ASSUME NEW o \in Traders, SendOrder(o) PROVE HaltTypeOK'
  <2>1. /\ stage' \in [Traders -> {"idle", "admitted"}]
        /\ UNCHANGED <<killed, flatten, toRemove>>
    BY <1>2 DEF SendOrder
  <2>2. TypeOK' /\ opened' \in SUBSET Tickets /\ resting' \in SUBSET Orders
    <3>1. UNCHANGED <<book, opened>> => TypeOK' /\ opened' \in SUBSET Tickets
      BY <1>2, ClosingType DEF SendOrder, closing
    <3> QED
      BY <1>2, <3>1, OpenPositionType DEF SendOrder
  <2> QED
    BY <2>1, <2>2
<1>3. ASSUME NEW p \in Orders, CancelOrder(p) PROVE HaltTypeOK'
  BY <1>3, ClosingType DEF CancelOrder
<1>4. ASSUME NEW r \in Requests, AdmitClose(r) PROVE HaltTypeOK'
  BY <1>4, BeginType DEF AdmitClose
<1>5. ASSUME NEW r \in Requests, ContinueClose(r) PROVE HaltTypeOK'
  BY <1>5, WorkType DEF ContinueClose
<1>6. ASSUME NEW r \in Requests, Answered(r) PROVE HaltTypeOK'
  BY <1>6, ForgetType DEF Answered
<1>7. ASSUME NEW r \in Requests, KillAndFlatten(r) PROVE HaltTypeOK'
  BY <1>7, ClosingType DEF KillAndFlatten
<1>8. ASSUME NEW r \in Requests, OrdersGet(r) PROVE HaltTypeOK'
  BY <1>8, ClosingType DEF OrdersGet
<1>9. ASSUME NEW r \in Requests, RemoveOrder(r) PROVE HaltTypeOK'
  BY <1>9, ClosingType DEF RemoveOrder
<1>10. ASSUME NEW r \in Requests, CloseEverything(r) PROVE HaltTypeOK'
  BY <1>10, BeginType DEF CloseEverything, Begin
<1>11. ASSUME NEW p \in Orders, NEW t \in Tickets, Trigger(p, t) PROVE HaltTypeOK'
  BY <1>11, OpenPositionType DEF Trigger
<1>12. CASE Kill \/ Release
  BY <1>12, ClosingType DEF Kill, Release
<1>13. CASE LateDeal
  BY <1>13, ServerType DEF LateDeal
<1>14. CASE UNCHANGED haltVars
  BY <1>14, ClosingType DEF haltVars
<1> QED
  BY <1>1, <1>2, <1>3, <1>4, <1>5, <1>6, <1>7, <1>8, <1>9, <1>10, <1>11, <1>12, <1>13, <1>14
  DEF HaltNext, OrderStep, FlattenStep

\* No position opens twice or with an illegal volume, under any interleaving
\* of orders, closes, kills and releases.
THEOREM HaltTypeCorrect == HaltSpec => []HaltTypeOK
  BY HaltInitType, HaltTypeStep, PTL DEF HaltSpec

-----------------------------------------------------------------------------
(* The close requests, while orders open positions.                        *)

\* A position that opens is on no request's account.
LEMMA OpeningUncounted ==
    ASSUME Counted, UNCHANGED <<due, deal>>,
           UNCHANGED <<pc, body, ticket, loop, seen, result, outcome, remaining>>
    PROVE  Counted'
<1>1. \A q \in Requests : Same(q) /\ deal'[q] = deal[q] /\ due'[q] = due[q]
  BY DEF Same, body, loop
<1> QED
  BY <1>1, CountedFrame DEF Counted

\* Beside the steps of Closing, only the trade server's openings touch what
\* the close requests read.
LEMMA HaltSteps ==
    ASSUME [HaltNext]_haltVars
    PROVE  \/ Next
           \/ UNCHANGED closing
           \/ /\ UNCHANGED <<due, deal>>
              /\ UNCHANGED <<pc, body, ticket, loop, seen, result, outcome, remaining>>
<1>1. \A o \in Traders : SendOrder(o) =>
         /\ UNCHANGED <<due, deal>>
         /\ UNCHANGED <<pc, body, ticket, loop, seen, result, outcome, remaining>>
  BY DEF SendOrder, OpenPosition, book
<1>2. \A p \in Orders, t \in Tickets : Trigger(p, t) =>
         /\ UNCHANGED <<due, deal>>
         /\ UNCHANGED <<pc, body, ticket, loop, seen, result, outcome, remaining>>
  BY DEF Trigger, OpenPosition
<1>3. \A r \in Requests :
        AdmitClose(r) \/ ContinueClose(r) \/ Answered(r) \/ CloseEverything(r) => Next
  BY DEF AdmitClose, ContinueClose, Answered, CloseEverything, Next, Begin
<1>4. \A r \in Requests :
        OrdersGet(r) \/ RemoveOrder(r) \/ KillAndFlatten(r) => UNCHANGED closing
  BY DEF OrdersGet, RemoveOrder, KillAndFlatten
<1>5. /\ \A o \in Traders : AdmitOrder(o) => UNCHANGED closing
      /\ \A p \in Orders : CancelOrder(p) => UNCHANGED closing
      /\ Kill \/ Release \/ UNCHANGED haltVars => UNCHANGED closing
  BY DEF AdmitOrder, CancelOrder, Kill, Release, haltVars
<1>6. LateDeal => Next
  BY DEF LateDeal, Next
<1> QED
  BY <1>1, <1>2, <1>3, <1>4, <1>5, <1>6 DEF HaltNext, OrderStep, FlattenStep

LEMMA HaltCountedStep == TypeOK /\ Counted /\ [HaltNext]_haltVars => Counted'
<1> SUFFICES ASSUME TypeOK, Counted, [HaltNext]_haltVars PROVE Counted'
  OBVIOUS
<1>1. CASE Next
  BY <1>1, CountedStep
<1>2. CASE UNCHANGED closing
  BY <1>2, OpeningUncounted DEF closing, book
<1> QED
  BY <1>1, <1>2, HaltSteps, OpeningUncounted

\* Orders that open positions beside them disturb no request's account.
THEOREM HaltCounted == HaltSpec => []Counted
<1>1. HaltInit => Counted
  BY CountedInit DEF HaltInit
<1>2. HaltTypeOK => TypeOK
  BY DEF HaltTypeOK
<1> QED
  BY <1>1, <1>2, HaltTypeCorrect, HaltCountedStep, PTL DEF HaltSpec

\* close_all, the flatten of a kill included, accounts for every position it
\* read, whatever opens meanwhile.
THEOREM RowsReportedBesideOrders == HaltSpec => []EveryRowReported
<1>1. HaltTypeOK => TypeOK
  BY DEF HaltTypeOK
<1> QED
  BY <1>1, HaltTypeCorrect, HaltCounted, RowsCounted, PTL

\* What either route for one position answers as refused was not closed and
\* will not be, whatever orders open and kills flatten meanwhile.
THEOREM RefusalsTrueBesideOrders == HaltSpec => []RefusedMeansUntouched
  BY RefusalsCounted, HaltCounted, PTL

\* A close confirmed by the named order is priced by its own deal while the
\* orders of other requests make deals of their own.
THEOREM PricedBesideOrders == HaltSpec => PricedByOwnDeal
<1>1. HaltTypeOK /\ [HaltNext]_haltVars => [PricedNow]_vars
  <2> SUFFICES ASSUME HaltTypeOK, [HaltNext]_haltVars PROVE PricedNow \/ UNCHANGED vars
    OBVIOUS
  <2>1. TypeOK
    BY DEF HaltTypeOK
  <2>2. CASE Next
    BY <2>1, <2>2, PricedStep
  <2>3. CASE outcome' = outcome
    BY <2>3 DEF PricedNow
  <2> QED
    BY <2>2, <2>3, HaltSteps DEF closing
<1> QED
  BY <1>1, HaltTypeCorrect, PTL DEF HaltSpec, PricedByOwnDeal, PricedNow

\* An order or a kill puts no answer off either: the closing half of a flatten
\* ends within the same bound.
THEOREM AnswerWithinBoundBesideOrders ==
    ASSUME IsFiniteSet(Tickets)
    PROVE  HaltSpec => []AnswerBounded /\ [][AnswersComeNearer]_vars
<1>1. HaltTypeOK => TypeOK /\ AnswerBounded
  BY AnswerBoundedTyped DEF HaltTypeOK
<1>2. HaltTypeOK /\ HaltTypeOK' /\ [HaltNext]_haltVars => [AnswersComeNearer]_vars
  <2> SUFFICES ASSUME HaltTypeOK, HaltTypeOK', [HaltNext]_haltVars, ~UNCHANGED vars
               PROVE  AnswersComeNearer
    OBVIOUS
  <2>1. TypeOK /\ TypeOK'
    BY DEF HaltTypeOK
  <2>2. CASE Next
    BY <2>1, <2>2, NearerStep
  <2>3. CASE ~Next
    <3>1. UNCHANGED <<pc, todo>>
      BY <2>3, HaltSteps DEF closing, loop
    <3>2. \A r \in Requests : ~Work(r)
      BY <2>3 DEF Next
    <3>3. \A r \in Requests : StepsToAnswer(r)' = StepsToAnswer(r)
      BY <3>1 DEF StepsToAnswer
    <3>4. \A r \in Requests : StepsToAnswer(r) \in Int
      BY <2>1, AnswerBoundedTyped, FS_CardinalityType DEF AnswerBounded
    <3> QED
      BY <3>2, <3>3, <3>4 DEF AnswersComeNearer
  <2> QED
    BY <2>2, <2>3
<1> QED
  BY <1>1, <1>2, HaltTypeCorrect, PTL DEF HaltSpec

-----------------------------------------------------------------------------
(* The switch.                                                             *)

\* Closing never opens anything.
LEMMA ClosingShrinksOpen ==
    ASSUME TypeOK, [Next]_vars \/ UNCHANGED closing
    PROVE  Open' \subseteq Open
<1>1. UNCHANGED closing => UNCHANGED vars
  BY DEF closing, vars, book, body, loop
<1> SUFFICES ASSUME NEW t \in Tickets, volume'[t] > 0 PROVE volume[t] > 0
  BY DEF Open
<1>2. volume[t] \in Nat /\ volume'[t] \in Nat
  BY <1>1, TypeStep, ClosingAssumption DEF TypeOK
<1> QED
  BY <1>1, <1>2, VolumeShrinks

\* What a step may do to the exposure once the orders let in before the
\* switch are through.
Shrinks ==
    killed /\ Quiet =>
        /\ Quiet'
        /\ resting' \subseteq resting
        /\ Open' \subseteq Open \/ resting' # resting

LEMMA HaltShrinkStep == HaltTypeOK /\ [HaltNext]_haltVars => Shrinks
<1> SUFFICES ASSUME HaltTypeOK, [HaltNext]_haltVars, killed, Quiet
             PROVE  /\ stage' = stage
                    /\ resting' \subseteq resting
                    /\ Open' \subseteq Open \/ resting' # resting
  BY DEF Quiet, Shrinks
<1> USE DEF HaltTypeOK
<1>1. \A o \in Traders : ~AdmitOrder(o) /\ ~SendOrder(o)
  BY DEF AdmitOrder, SendOrder, Quiet
<1>2. stage' = stage
  BY <1>1
  DEF HaltNext, OrderStep, FlattenStep, CancelOrder, AdmitClose, ContinueClose, Answered,
      KillAndFlatten, OrdersGet, RemoveOrder, CloseEverything, Trigger, Kill, Release,
      LateDeal, haltVars
<1>3. ASSUME NEW p \in Orders, NEW t \in Tickets, Trigger(p, t)
      PROVE  resting' \subseteq resting /\ resting' # resting
  BY <1>3 DEF Trigger
<1>4. ASSUME ~\E p \in Orders, t \in Tickets : Trigger(p, t)
      PROVE  resting' \subseteq resting /\ ([Next]_vars \/ UNCHANGED closing)
  <2>1. \A r \in Requests : OrdersGet(r) \/ RemoveOrder(r) \/ KillAndFlatten(r)
                              => resting' \subseteq resting /\ UNCHANGED closing
    BY DEF OrdersGet, RemoveOrder, KillAndFlatten
  <2>2. \A r \in Requests : AdmitClose(r) \/ ContinueClose(r) \/ Answered(r) \/ CloseEverything(r)
                              => resting' = resting /\ Next
    BY DEF AdmitClose, ContinueClose, Answered, CloseEverything, Next, Begin
  <2>3. \A p \in Orders : CancelOrder(p) => resting' \subseteq resting /\ UNCHANGED closing
    BY DEF CancelOrder
  <2>4. Kill \/ Release \/ UNCHANGED haltVars => resting' = resting /\ UNCHANGED closing
    BY DEF Kill, Release, haltVars
  <2>5. LateDeal => resting' = resting /\ Next
    BY DEF LateDeal, Next
  <2> QED
    BY <1>1, <1>4, <2>1, <2>2, <2>3, <2>4, <2>5 DEF HaltNext, OrderStep, FlattenStep
<1> QED
  BY <1>2, <1>3, <1>4, ClosingShrinksOpen

\* Once the switch is on and the orders let in before are through, exposure
\* grows only by a pending order that leaves the book.
THEOREM HaltShrinks == HaltSpec => HaltShrinksExposure
<1>1. HaltTypeOK /\ [HaltNext]_haltVars => Shrinks
  BY HaltShrinkStep
<1> QED
  BY <1>1, HaltTypeCorrect, PTL DEF HaltSpec, HaltShrinksExposure, Shrinks

\* Nothing is open, and nothing is left that could open a position.
Flat == killed /\ Quiet /\ resting = {} /\ Open = {}

\* An account that a kill made flat, with no order request past the gate and
\* no pending order left, stays flat until the switch is released.
THEOREM FlatUntilRelease == HaltSpec => [][Flat => Flat' \/ ~killed']_haltVars
<1>1. HaltTypeOK /\ [HaltNext]_haltVars => (Flat => Flat' \/ ~killed')
  <2> SUFFICES ASSUME HaltTypeOK, [HaltNext]_haltVars, Flat, killed' PROVE Flat'
    OBVIOUS
  <2>1. Quiet' /\ resting' \subseteq resting /\ (Open' \subseteq Open \/ resting' # resting)
    BY HaltShrinkStep DEF Shrinks, Flat
  <2>2. resting = {} /\ Open = {}
    BY DEF Flat
  <2>3. resting' = {}
    BY <2>1, <2>2
  <2>4. Open' = {}
    BY <2>1, <2>2, <2>3
  <2> QED
    BY <2>1, <2>3, <2>4 DEF Flat
<1> QED
  BY <1>1, HaltTypeCorrect, PTL DEF HaltSpec
=============================================================================
