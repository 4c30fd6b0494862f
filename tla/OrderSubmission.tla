--------------------------- MODULE OrderSubmission ---------------------------
(***************************************************************************)
(* POST /order (send_market_order_endpoint in app/routes/order.py): the    *)
(* request threads that reserve a client key, validate, send the order to  *)
(* the trade server and store or drop the reservation by what it replied,  *)
(* together with the trade server and clients that repeat their requests.  *)
(***************************************************************************)
EXTENDS IdempotencyStore, Retcodes

CONSTANTS
    Workers,        \* request threads
    NoKey,          \* a request without client_order_id or Idempotency-Key
    Codes,          \* bound: the retcodes the trade server may answer
    NoReply,        \* order_send returned None
    Raised,         \* order_send raised
    SlowRequests,   \* a request may outlive the TTL of its reservation
    Restarts        \* the process may be killed and restarted

ASSUME RequestAssumption ==
    /\ NoKey \notin Keys
    /\ Codes \subseteq Nat
    /\ NoReply \notin Codes \cup {Raised}
    /\ Raised \notin Codes
    /\ SlowRequests \in BOOLEAN
    /\ Restarts \in BOOLEAN

VARIABLES
    entries,    \* idempotency_store._entries
    pc,         \* where each worker is in the handler
    key,        \* idempotency_key of its request
    intent,     \* what its request asks for
    result,     \* what order_send gave it
    reply,      \* the answer it returned last
    sent,       \* what the trade server did with its request
    placed      \* orders placed per key since the key was last forgotten

request == <<key, intent>>
server == <<sent, placed>>
vars == <<entries, pc, request, result, reply, server>>

Results == Codes \cup {NoReply, Raised}

Replies == {"none", "ok", "retryable", "mt5_rejected", "unknown_outcome", "invalid", "error",
            "conflict", "in_progress"}

\* Bound: orders of a key are counted up to two.
CountTo(n) == IF n < 2 THEN n + 1 ELSE 2

TypeOK ==
    /\ entries \in [Keys -> Entry \cup {Absent}]
    /\ pc \in [Workers -> {"idle", "check", "send", "answer", "release"}]
    /\ key \in [Workers -> Keys \cup {NoKey}]
    /\ intent \in [Workers -> Intents]
    /\ result \in [Workers -> Results]
    /\ reply \in [Workers -> Replies]
    /\ sent \in [Workers -> {"nothing", "placed", "refused"}]
    /\ placed \in [Keys -> 0..2]

-----------------------------------------------------------------------------

Init ==
    /\ entries = [k \in Keys |-> Absent]
    /\ pc = [w \in Workers |-> "idle"]
    /\ key = [w \in Workers |-> NoKey]
    /\ intent \in [Workers -> Intents]
    /\ result = [w \in Workers |-> NoReply]
    /\ reply = [w \in Workers |-> "none"]
    /\ sent = [w \in Workers |-> "nothing"]
    /\ placed = [k \in Keys |-> 0]

Goto(w, label) == pc' = [pc EXCEPT ![w] = label]
Return(w, answer) == reply' = [reply EXCEPT ![w] = answer]

\* reservation_owned, until the handler ends.
Owns(w, k) == key[w] = k /\ pc[w] \in {"check", "send", "answer", "release"}

\* A request arrives with a key; begin() decides.  Malformed bodies and keys
\* are answered before this and change nothing.
Receive(w, k, f) ==
    /\ pc[w] = "idle"
    /\ key' = [key EXCEPT ![w] = k]
    /\ intent' = [intent EXCEPT ![w] = f]
    /\ result' = [result EXCEPT ![w] = NoReply]
    /\ sent' = [sent EXCEPT ![w] = "nothing"]
    /\ placed' = [j \in Keys |-> IF Expired(entries, j) THEN 0 ELSE placed[j]]
    /\ LET live == Purged(entries)
           decision == Decision(live, k, f)
       IN  \/ /\ decision = "new"
              /\ entries' = Reserved(live, k, f)
              /\ Return(w, "none")
              /\ Goto(w, "check")
           \/ /\ decision \in {"conflict", "in_progress"}
              /\ entries' = live
              /\ Return(w, decision)
              /\ UNCHANGED pc
           \/ /\ decision = "replay"
              /\ entries' = live
              /\ Return(w, live[k].response)
              /\ UNCHANGED pc

ReceiveUnkeyed(w, f) ==
    /\ pc[w] = "idle"
    /\ key' = [key EXCEPT ![w] = NoKey]
    /\ intent' = [intent EXCEPT ![w] = f]
    /\ result' = [result EXCEPT ![w] = NoReply]
    /\ sent' = [sent EXCEPT ![w] = "nothing"]
    /\ Return(w, "none")
    /\ Goto(w, "check")
    /\ UNCHANGED <<entries, placed>>

\* Field, symbol, volume, price, protection, filling and expiration checks
\* and order_check: every failure returns 400, an exception 500.
PreTrade(w) ==
    /\ pc[w] = "check"
    /\ \/ Goto(w, "send") /\ UNCHANGED reply
       \/ \E answer \in {"invalid", "error"} : Goto(w, "release") /\ Return(w, answer)
    /\ UNCHANGED <<entries, request, result, server>>

\* order_send.  The server may have executed an order it does not answer for.
OrderSend(w) ==
    /\ pc[w] = "send"
    /\ \E r \in Codes \cup {NoReply, Raised}, done \in BOOLEAN :
          /\ r \in Codes /\ ServerPlaced(r) => done
          /\ r = Raised \/ (r \in Codes /\ ServerRefused(r)) => ~done
          /\ result' = [result EXCEPT ![w] = r]
          /\ sent' = [sent EXCEPT ![w] = IF done THEN "placed" ELSE "refused"]
          /\ placed' = IF done /\ key[w] # NoKey
                       THEN [placed EXCEPT ![key[w]] = CountTo(@)] ELSE placed
    /\ Goto(w, "answer")
    /\ UNCHANGED <<entries, request, reply>>

\* The payload for each outcome, and whether it is stored for repeats.
AnswerTo(r) ==
    IF r = NoReply THEN "unknown_outcome"
    ELSE IF r = Raised THEN "error" ELSE AnswerFor(r)

RememberedSuccessOnly(r) == r \in Codes /\ ClassifyRetcode(r) = "success"
Remembered(r) == r = NoReply \/ (r \in Codes /\ ClassifyRetcode(r) \in {"success", "ambiguous"})

\* reservation_completed: the finally clause then leaves the entry alone.
AnswerAndComplete(w) ==
    /\ pc[w] = "answer"
    /\ Remembered(result[w])
    /\ Return(w, AnswerTo(result[w]))
    /\ entries' = IF key[w] = NoKey THEN entries
                  ELSE Completed(entries, key[w], intent[w], AnswerTo(result[w]))
    /\ Goto(w, "idle")
    /\ UNCHANGED <<request, result, server>>

AnswerAndAbandon(w) ==
    /\ pc[w] = "answer"
    /\ ~Remembered(result[w])
    /\ Return(w, AnswerTo(result[w]))
    /\ Goto(w, "release")
    /\ UNCHANGED <<entries, request, result, server>>

\* The finally clause.
Release(w) ==
    /\ pc[w] = "release"
    /\ entries' = IF key[w] = NoKey THEN entries ELSE Abandoned(entries, key[w], intent[w])
    /\ Goto(w, "idle")
    /\ UNCHANGED <<request, result, reply, server>>

-----------------------------------------------------------------------------

\* Unless SlowRequests, a request ends before its reservation is TTL old.
Tick ==
    /\ \E k \in Keys : Present(entries, k) /\ entries[k].left > 0
    /\ SlowRequests \/ \A w \in Workers, k \in Keys :
            Owns(w, k) /\ Present(entries, k) => entries[k].left > 1
    /\ entries' = Aged(entries)
    /\ UNCHANGED <<pc, request, result, reply, server>>

\* s6 restarts the service: the store lives in the process, the orders do not.
Restart ==
    /\ Restarts
    /\ entries' = [k \in Keys |-> Absent]
    /\ pc' = [w \in Workers |-> "idle"]
    /\ key' = [w \in Workers |-> NoKey]
    /\ result' = [w \in Workers |-> NoReply]
    /\ reply' = [w \in Workers |-> "none"]
    /\ sent' = [w \in Workers |-> "nothing"]
    /\ UNCHANGED <<intent, placed>>

Work(w) ==
    \/ PreTrade(w) \/ OrderSend(w)
    \/ AnswerAndComplete(w) \/ AnswerAndAbandon(w) \/ Release(w)

Next ==
    \/ \E w \in Workers, f \in Intents :
          ReceiveUnkeyed(w, f) \/ \E k \in Keys : Receive(w, k, f)
    \/ \E w \in Workers : Work(w)
    \/ Tick
    \/ Restart

Spec == Init /\ [][Next]_vars

\* A request that has begun runs on.
FairSpec == Spec /\ \A w \in Workers : WF_vars(Work(w))

-----------------------------------------------------------------------------
(* Safety.                                                                 *)

\* Two requests never hold the same key, and the holder of a key finds its
\* own pending reservation in the store.
SingleOwner ==
    \A w \in Workers, k \in Keys : Owns(w, k) =>
        /\ IsPending(entries, k) /\ entries[k].fingerprint = intent[w]
        /\ \A v \in Workers : Owns(v, k) => v = w

\* At most one order is placed under a key while it is remembered.
AtMostOneOrder == \A k \in Keys : placed[k] <= 1

\* A placed order is never forgotten before the TTL: its key is held by the
\* request that placed it or answers repeats.
PlacedIsRemembered ==
    \A k \in Keys : placed[k] > 0 => Present(entries, k) /\ (IsPending(entries, k) =>
        \E w \in Workers : Owns(w, k) /\ pc[w] = "answer" /\ Remembered(result[w]))

\* A client is never told its order was refused when it may have been
\* placed, nor that it was placed when it was not: the rest is "unknown".
AnswersAreHonest ==
    \A w \in Workers :
        /\ reply[w] \in {"retryable", "mt5_rejected", "invalid"} => sent[w] # "placed"
        /\ reply[w] = "ok" /\ sent[w] # "nothing" => sent[w] = "placed"

\* A repeated request is answered with the outcome of a request that asked
\* for the same, even when reservations expire under slow requests.
ReplaysOwnIntent ==
    [][\A w \in Workers, k \in Keys, f \in Intents :
        Receive(w, k, f) /\ reply'[w] \in Responses => entries[k].by = f]_vars

\* A reservation that has not expired stands until a request of its own intent
\* ends, in its handler or with the process: no other request takes the key
\* over, purges it or releases it, however late it comes.
ReservationStands ==
    [][\A k \in Keys, f \in Intents :
        /\ IsPending(entries, k) /\ entries[k].fingerprint = f /\ ~Expired(entries, k)
        /\ ~(Present(entries', k) /\ entries'[k].fingerprint = f)
        => \E w \in Workers : Owns(w, k) /\ intent[w] = f /\ ~Owns(w, k)']_vars

\* What a client sees is OncePerKey.
AnswerOf(k) ==
    IF Present(entries, k) /\ ~IsPending(entries, k) THEN entries[k].response ELSE "none"

Once == INSTANCE OncePerKey
            WITH NoAnswer <- "none", answer <- [k \in Keys |-> AnswerOf(k)]

ImplementsOncePerKey == Once!Spec

(* Liveness.                                                               *)

\* No reservation is left pending: it is answered, dropped, or gives way to
\* another intent once it has expired.
ReservationsResolve ==
    \A k \in Keys, f \in Intents :
        LET Held == IsPending(entries, k) /\ entries[k].fingerprint = f
        IN  Held ~> ~Held
=============================================================================
