------------------------ MODULE OrderSubmissionProofs ------------------------
(***************************************************************************)
(* POST /order with a key, for any number of workers, keys and intents and *)
(* any set of retcodes.  Whatever the speed of requests and however often  *)
(* the process restarts, answers are honest, a replay is the answer to the *)
(* same intent, an unexpired reservation gives way only to the end of a    *)
(* request of its own intent, and none is orphaned.  While no request      *)
(* outlives its reservation, a key has one owner; while the process is not *)
(* restarted either, at most one order is placed as long as the key is     *)
(* remembered, and the first answer stays the answer.                      *)
(***************************************************************************)
EXTENDS OrderSubmission, TLAPS

\* No request outlives its reservation, and the process is not restarted.
Steady == ~SlowRequests /\ ~Restarts

Store == [Keys -> Entry \cup {Absent}]

-----------------------------------------------------------------------------
(* The operations of the store.                                            *)

\* What purging leaves is an entry that was there, with time left.
LEMMA PurgedStore ==
    ASSUME NEW e \in Store
    PROVE  /\ Purged(e) \in Store
           /\ \A k \in Keys : Present(Purged(e), k) <=> Present(e, k) /\ ~Expired(e, k)
           /\ \A k \in Keys : Present(Purged(e), k) => Purged(e)[k] = e[k]
           /\ \A k \in Keys : Present(Purged(e), k) => e[k].left > 0
  BY AbsentAssumption, TTLAssumption DEF Store, Purged, Present, Expired, Entry

\* A reservation is pending, fresh and of the caller's intent.
LEMMA ReservedStore ==
    ASSUME NEW e \in Store, NEW k \in Keys, NEW f \in Intents
    PROVE  /\ Reserved(e, k, f) \in Store
           /\ IsPending(Reserved(e, k, f), k)
           /\ Reserved(e, k, f)[k].fingerprint = f
           /\ Reserved(e, k, f)[k].left = TTL
           /\ \A j \in Keys \ {k} : Reserved(e, k, f)[j] = e[j]
<1> DEFINE new == [fingerprint |-> f, left |-> TTL, response |-> "pending", by |-> f]
<1>1. new \in Entry /\ new # Absent
  BY AbsentAssumption, TTLAssumption DEF Entry
<1> QED
  BY <1>1, TTLAssumption DEF Store, Reserved, Present, IsPending

\* Completing a pending entry of the same intent stores the response and
\* nothing else.
LEMMA CompletedStore ==
    ASSUME NEW e \in Store, NEW k \in Keys, NEW f \in Intents, NEW r \in Responses,
           Present(e, k), e[k].fingerprint = f
    PROVE  /\ Completed(e, k, f, r) \in Store
           /\ Present(Completed(e, k, f, r), k)
           /\ ~IsPending(Completed(e, k, f, r), k)
           /\ Completed(e, k, f, r)[k].response = r
           /\ \A j \in Keys \ {k} : Completed(e, k, f, r)[j] = e[j]
<1> DEFINE new == [e[k] EXCEPT !.response = r, !.by = f]
<1>1. e[k] \in Entry
  BY DEF Store, Present
<1>2. new \in Entry /\ new.response = r /\ r # "pending"
  BY <1>1 DEF Entry, Responses
<1>3. new # Absent
  BY <1>2, AbsentAssumption
<1>4. Completed(e, k, f, r) = [e EXCEPT ![k] = new]
  BY DEF Completed, Store
<1> QED
  BY <1>2, <1>3, <1>4 DEF Store, Present, IsPending

\* Abandoning drops a pending entry of the same intent and nothing else.
LEMMA AbandonedStore ==
    ASSUME NEW e \in Store, NEW k \in Keys, NEW f \in Intents
    PROVE  /\ Abandoned(e, k, f) \in Store
           /\ \A j \in Keys \ {k} : Abandoned(e, k, f)[j] = e[j]
           /\ IsPending(e, k) /\ e[k].fingerprint = f => ~Present(Abandoned(e, k, f), k)
           /\ ~IsPending(e, k) => Abandoned(e, k, f) = e
  BY DEF Store, Abandoned, Present

\* Time changes only the time left.
LEMMA AgedStore ==
    ASSUME NEW e \in Store
    PROVE  /\ Aged(e) \in Store
           /\ \A k \in Keys : Present(Aged(e), k) <=> Present(e, k)
           /\ \A k \in Keys : IsPending(Aged(e), k) <=> IsPending(e, k)
           /\ \A k \in Keys : Present(e, k) =>
                /\ Aged(e)[k].fingerprint = e[k].fingerprint
                /\ Aged(e)[k].response = e[k].response
                /\ e[k].left > 1 => Aged(e)[k].left > 0
<1>1. ASSUME NEW k \in Keys, Present(e, k)
      PROVE  /\ Aged(e)[k] \in Entry
             /\ Aged(e)[k].fingerprint = e[k].fingerprint
             /\ Aged(e)[k].response = e[k].response
             /\ e[k].left > 1 => Aged(e)[k].left > 0
  <2>1. e[k] \in Entry
    BY <1>1 DEF Store, Present
  <2> QED
    BY <1>1, <2>1, TTLAssumption DEF Aged, Entry
<1>2. ASSUME NEW k \in Keys, ~Present(e, k) PROVE Aged(e)[k] = Absent
  BY <1>2 DEF Aged, Present
<1>3. Aged(e) \in Store
  BY <1>1, <1>2 DEF Aged, Store
<1> QED
  BY <1>1, <1>2, <1>3, AbsentAssumption DEF Present, IsPending

\* A code classified as a refusal is one the server refuses with, and a code
\* classified as a success one it places the order with.
LEMMA ClassesMatchServer ==
    ASSUME NEW code
    PROVE  /\ ClassifyRetcode(code) = "success" => ServerPlaced(code)
           /\ ClassifyRetcode(code) \in {"retryable", "permanent"} => ServerRefused(code)
           /\ ClassifyRetcode(code) \in {"success", "retryable", "permanent", "ambiguous"}
  BY DEF ClassifyRetcode, ServerPlaced, ServerRefused

-----------------------------------------------------------------------------
(* With slow requests and restarts too.                                    *)

USE DEF Goto, Return, request, server

\* A response is signed by a request of the intent that reserved the key.
Signed == \A k \in Keys : Present(entries, k) => entries[k].by = entries[k].fingerprint

\* A step that leaves the store alone, but for purging and ageing.
SameOrGone == \A k \in Keys : Present(entries', k) =>
    /\ Present(entries, k)
    /\ entries'[k].by = entries[k].by /\ entries'[k].fingerprint = entries[k].fingerprint

LEMMA StillSigned == ASSUME Signed, SameOrGone PROVE Signed'
  BY DEF Signed, SameOrGone

LEMMA AgedSigned ==
    ASSUME NEW e \in Store, NEW k \in Keys, Present(e, k)
    PROVE  Aged(e)[k].by = e[k].by /\ Aged(e)[k].fingerprint = e[k].fingerprint
<1>1. e[k] \in Entry
  BY DEF Store, Present
<1> QED
  BY <1>1 DEF Aged, Entry

\* A completion by a late request finds its entry, another's, or none.
LEMMA LateCompletion ==
    ASSUME NEW e \in Store, NEW k \in Keys, NEW f \in Intents, NEW r \in Responses
    PROVE  LET after == Completed(e, k, f, r)
           IN  /\ after \in Store
               /\ \A j \in Keys : after[j] # e[j] => after[j].by = f /\ after[j].fingerprint = f
<1>1. CASE Present(e, k) /\ e[k].fingerprint = f
  <2> DEFINE new == [e[k] EXCEPT !.response = r, !.by = f]
  <2>1. e[k] \in Entry
    BY <1>1 DEF Store, Present
  <2>2. new.by = f /\ new.fingerprint = f
    BY <1>1, <2>1 DEF Entry
  <2>3. Completed(e, k, f, r) = [e EXCEPT ![k] = new]
    BY <1>1 DEF Completed, Store
  <2> HIDE DEF new
  <2> QED
    BY <1>1, <2>2, <2>3, CompletedStore DEF Store
<1>2. CASE ~(Present(e, k) /\ e[k].fingerprint = f)
  BY <1>2 DEF Completed
<1> QED
  BY <1>1, <1>2

LateInv == TypeOK /\ Signed

LEMMA ReceiveLate ==
    ASSUME LateInv, NEW w \in Workers, NEW k \in Keys, NEW f \in Intents, Receive(w, k, f)
    PROVE  LateInv'
<1> DEFINE live == Purged(entries)
<1>1. entries \in Store
  BY DEF LateInv, TypeOK, Store
<1>2. /\ live \in Store
      /\ \A j \in Keys : Present(live, j) => Present(entries, j) /\ live[j] = entries[j]
  BY <1>1, PurgedStore
<1>3. CASE Decision(live, k, f) = "new"
  <2>1. entries' = Reserved(live, k, f) /\ pc' = [pc EXCEPT ![w] = "check"]
        /\ reply' = [reply EXCEPT ![w] = "none"]
    BY <1>3 DEF Receive
  <2>2. /\ entries' \in Store
        /\ \A j \in Keys \ {k} : entries'[j] = live[j]
    BY <1>2, <2>1, ReservedStore
  <2>3. entries'[k].by = f /\ entries'[k].fingerprint = f
    BY <1>2, <2>1 DEF Reserved, Store
  <2>4. TypeOK'
    BY <2>1, <2>2 DEF LateInv, Receive, TypeOK, Store, Results, Replies
  <2>5. Signed'
    BY <1>2, <2>2, <2>3 DEF LateInv, Signed, Present
  <2> QED
    BY <2>4, <2>5 DEF LateInv
<1>4. CASE Decision(live, k, f) # "new"
  <2>1. entries' = live /\ UNCHANGED pc /\ Present(live, k)
    BY <1>4 DEF Receive, Decision
  <2>2. live[k].response \in Responses \cup {"pending"}
    BY <1>2, <2>1 DEF Store, Present, Entry
  <2>3. /\ reply' = [reply EXCEPT ![w] = reply'[w]]
        /\ reply'[w] \in {"conflict", "in_progress"} \cup Responses
    <3>1. Decision(live, k, f) = "replay" => live[k].response # "pending"
      BY <2>1 DEF Decision, IsPending
    <3> QED
      BY <1>4, <2>2, <3>1 DEF LateInv, Receive, TypeOK
  <2>4. TypeOK'
    BY <1>2, <2>1, <2>3 DEF LateInv, Receive, TypeOK, Store, Results, Replies, Responses
  <2>5. SameOrGone
    BY <1>2, <2>1 DEF SameOrGone
  <2> QED
    BY <2>4, <2>5, StillSigned DEF LateInv
<1> QED
  BY <1>3, <1>4

LEMMA WorkLate ==
    ASSUME LateInv, NEW w \in Workers, Work(w)
    PROVE  LateInv'
<1>1. entries \in Store
  BY DEF LateInv, TypeOK, Store
<1>2. CASE PreTrade(w) \/ AnswerAndAbandon(w)
  <2>1. UNCHANGED entries
    BY <1>2 DEF PreTrade, AnswerAndAbandon
  <2>2. CASE PreTrade(w)
    BY <2>1, <2>2 DEF LateInv, Signed, Present, PreTrade, TypeOK, Replies
  <2>3. CASE AnswerAndAbandon(w)
    <3>1. AnswerTo(result[w]) \in Replies
      BY DEF AnswerTo, AnswerFor, Replies
    <3> QED
      BY <2>1, <2>3, <3>1 DEF LateInv, Signed, Present, AnswerAndAbandon, TypeOK
  <2> QED
    BY <1>2, <2>2, <2>3
<1>3. CASE OrderSend(w)
  <2>1. UNCHANGED entries /\ TypeOK'
    BY <1>3 DEF LateInv, OrderSend, TypeOK, Results, CountTo
  <2> QED
    BY <2>1 DEF LateInv, Signed, Present
<1>4. CASE AnswerAndComplete(w)
  <2> DEFINE answer == AnswerTo(result[w])
  <2>1. answer \in Responses
    BY <1>4, RequestAssumption, ClassesMatchServer
       DEF AnswerAndComplete, Remembered, AnswerTo, AnswerFor, Responses, LateInv, TypeOK, Results
  <2>2. CASE key[w] = NoKey
    BY <1>4, <2>1, <2>2
       DEF AnswerAndComplete, LateInv, Signed, Present, TypeOK, Responses, Replies
  <2>3. CASE key[w] # NoKey
    <3>1. key[w] \in Keys /\ intent[w] \in Intents
      BY <2>3 DEF LateInv, TypeOK
    <3>2. entries' = Completed(entries, key[w], intent[w], answer)
      BY <1>4, <2>3 DEF AnswerAndComplete
    <3>3. /\ entries' \in Store
          /\ \A j \in Keys : entries'[j] # entries[j] =>
                entries'[j].by = intent[w] /\ entries'[j].fingerprint = intent[w]
      BY <1>1, <2>1, <3>1, <3>2, LateCompletion
    <3>4. TypeOK'
      BY <1>4, <2>1, <3>3 DEF AnswerAndComplete, LateInv, TypeOK, Store, Responses, Replies
    <3>5. Signed'
      BY <3>3 DEF LateInv, Signed, Present
    <3> QED
      BY <3>4, <3>5 DEF LateInv
  <2> QED
    BY <2>2, <2>3
<1>5. CASE Release(w)
  <2>1. /\ entries' \in Store
        /\ \A k \in Keys : entries'[k] \in {entries[k], Absent}
    BY <1>1, <1>5, AbandonedStore DEF Release, Abandoned, Store, LateInv, TypeOK
  <2>2. TypeOK'
    BY <1>5, <2>1 DEF Release, LateInv, TypeOK, Store
  <2>3. SameOrGone
    BY <2>1 DEF SameOrGone, Present
  <2> QED
    BY <2>2, <2>3, StillSigned DEF LateInv
<1> QED
  BY <1>2, <1>3, <1>4, <1>5 DEF Work

\* No assumption on the speed of requests, nor on restarts.
THEOREM LateInvariance == Spec => []LateInv
<1>1. Init => LateInv
  BY RequestAssumption DEF Init, LateInv, Signed, Present, TypeOK, Results, Replies
<1>2. ASSUME LateInv, [Next]_vars PROVE LateInv'
  <2>1. CASE UNCHANGED vars
    BY <1>2, <2>1 DEF vars, LateInv, TypeOK, Signed, Present
  <2>2. ASSUME NEW w \in Workers, NEW f \in Intents, ReceiveUnkeyed(w, f) PROVE LateInv'
    BY <1>2, <2>2 DEF ReceiveUnkeyed, LateInv, Signed, Present, TypeOK, Results, Replies
  <2>3. CASE Tick
    <3>1. entries \in Store /\ entries' = Aged(entries)
          /\ UNCHANGED <<pc, key, intent, result, reply, sent, placed>>
      BY <1>2, <2>3 DEF Tick, LateInv, TypeOK, Store
    <3>2. TypeOK'
      BY <1>2, <3>1, AgedStore DEF LateInv, TypeOK, Store
    <3>3. SameOrGone
      BY <3>1, AgedStore, AgedSigned DEF SameOrGone
    <3> QED
      BY <1>2, <3>2, <3>3, StillSigned DEF LateInv
  <2>4. CASE Restart
    BY <1>2, <2>4, RequestAssumption
       DEF Restart, LateInv, TypeOK, Signed, Present, Results, Replies
  <2> QED
    BY <1>2, <2>1, <2>2, <2>3, <2>4, ReceiveLate, WorkLate DEF Next
<1> QED
  BY <1>1, <1>2, PTL DEF Spec

\* Every variable keeps its type.
THEOREM TypeCorrect == Spec => []TypeOK
  BY LateInvariance, PTL DEF LateInv

\* A replay is the answer to a request of the same intent, whatever expired.
THEOREM ReplaysAreOwn == Spec => ReplaysOwnIntent
<1>1. ASSUME LateInv, NEW w \in Workers, NEW k \in Keys, NEW f \in Intents,
             Receive(w, k, f), reply'[w] \in Responses
      PROVE  entries[k].by = f
  <2> DEFINE live == Purged(entries)
  <2>1. entries \in Store
    BY <1>1 DEF LateInv, TypeOK, Store
  <2>2. Decision(live, k, f) = "replay"
    BY <1>1 DEF LateInv, TypeOK, Receive, Decision, Responses
  <2>3. Present(live, k) /\ live[k].fingerprint = f
    BY <2>2 DEF Decision
  <2>4. Present(entries, k) /\ live[k] = entries[k]
    BY <2>1, <2>3, PurgedStore
  <2> QED
    BY <1>1, <2>3, <2>4 DEF LateInv, Signed
<1>2. LateInv /\ [Next]_vars =>
        [\A w \in Workers, k \in Keys, f \in Intents :
            Receive(w, k, f) /\ reply'[w] \in Responses => entries[k].by = f]_vars
  BY <1>1
<1> QED
  BY <1>2, LateInvariance, PTL DEF Spec, ReplaysOwnIntent

-----------------------------------------------------------------------------
(* What a client is told, and who holds a key, at any speed and with       *)
(* restarts.                                                               *)

\* What the reply of the server says of the order, until it is answered.
ReplyTrue ==
    \A w \in Workers : pc[w] = "answer" =>
        /\ result[w] \in Codes /\ ServerPlaced(result[w]) => sent[w] = "placed"
        /\ result[w] = Raised => sent[w] = "refused"
        /\ result[w] \in Codes /\ ServerRefused(result[w]) => sent[w] = "refused"

\* A request that has not sent its order has not answered "ok".
NotSentYet ==
    \A w \in Workers :
        /\ pc[w] \in {"check", "send"} => sent[w] = "nothing" /\ reply[w] = "none"
        /\ pc[w] = "answer" => reply[w] = "none"

HonestInv == ReplyTrue /\ NotSentYet /\ AnswersAreHonest

\* Whoever left a key pending is still in the handler, for the intent the
\* reservation was made for.
PendingHeld ==
    \A k \in Keys : IsPending(entries, k) =>
        \E w \in Workers : Owns(w, k) /\ intent[w] = entries[k].fingerprint

\* What begin() does to the store and says.
LEMMA ReceiveOutcome ==
    ASSUME TypeOK, NEW w \in Workers, NEW k \in Keys, NEW f \in Intents, Receive(w, k, f)
    PROVE  /\ \/ /\ pc' = [pc EXCEPT ![w] = "check"] /\ reply'[w] = "none"
                 /\ IsPending(entries', k) /\ entries'[k].fingerprint = f
              \/ /\ UNCHANGED pc
                 /\ reply'[w] \in {"conflict", "in_progress", "ok", "unknown_outcome"}
                 /\ Present(entries', k) => entries'[k] = entries[k]
           /\ \A j \in Keys \ {k} : Present(entries', j) => entries'[j] = entries[j]
           /\ pc[w] = "idle" /\ sent' = [sent EXCEPT ![w] = "nothing"]
           /\ key' = [key EXCEPT ![w] = k] /\ intent' = [intent EXCEPT ![w] = f]
           /\ \A v \in Workers \ {w} : reply'[v] = reply[v]
           /\ result' = [result EXCEPT ![w] = NoReply]
<1> DEFINE live == Purged(entries)
<1>1. entries \in Store
  BY DEF TypeOK, Store
<1>2. /\ live \in Store
      /\ \A j \in Keys : Present(live, j) => Present(entries, j) /\ live[j] = entries[j]
  BY <1>1, PurgedStore
<1>3. /\ pc[w] = "idle" /\ sent' = [sent EXCEPT ![w] = "nothing"]
      /\ key' = [key EXCEPT ![w] = k] /\ intent' = [intent EXCEPT ![w] = f]
      /\ \A v \in Workers \ {w} : reply'[v] = reply[v]
      /\ result' = [result EXCEPT ![w] = NoReply]
  BY DEF Receive, TypeOK
<1>4. CASE Decision(live, k, f) = "new"
  <2>1. entries' = Reserved(live, k, f) /\ pc' = [pc EXCEPT ![w] = "check"]
        /\ reply'[w] = "none"
    BY <1>4 DEF Receive, TypeOK
  <2>2. /\ IsPending(entries', k) /\ entries'[k].fingerprint = f
        /\ \A j \in Keys \ {k} : entries'[j] = live[j]
    BY <1>2, <2>1, ReservedStore
  <2>3. \A j \in Keys \ {k} : Present(entries', j) => entries'[j] = entries[j]
    BY <1>2, <2>2 DEF Present
  <2> QED
    BY <1>3, <2>1, <2>2, <2>3
<1>5. CASE Decision(live, k, f) # "new"
  <2>1. entries' = live /\ UNCHANGED pc /\ Present(live, k)
    BY <1>5 DEF Receive, Decision
  <2>2. live[k].response \in Responses \cup {"pending"}
    BY <1>2, <2>1 DEF Store, Present, Entry
  <2>3. reply'[w] \in {"conflict", "in_progress", "ok", "unknown_outcome"}
    <3>1. Decision(live, k, f) = "replay" => live[k].response # "pending"
      BY <2>1 DEF Decision, IsPending
    <3> QED
      BY <1>5, <2>2, <3>1 DEF Receive, TypeOK, Responses
  <2> QED
    BY <1>2, <1>3, <2>1, <2>3
<1> QED
  BY <1>4, <1>5

LEMMA AnswerIsHonest ==
    ASSUME TypeOK, ReplyTrue, NEW w \in Workers, pc[w] = "answer"
    PROVE  /\ AnswerTo(result[w]) \in {"retryable", "mt5_rejected"} => sent[w] # "placed"
           /\ AnswerTo(result[w]) = "ok" => sent[w] = "placed"
           /\ AnswerTo(result[w]) # "invalid"
  BY RequestAssumption, ClassesMatchServer
     DEF AnswerTo, AnswerFor, ReplyTrue, TypeOK, Results

LEMMA NextHonest == TypeOK /\ HonestInv /\ [Next]_vars => HonestInv'
<1> SUFFICES ASSUME TypeOK, HonestInv, [Next]_vars PROVE HonestInv'
  OBVIOUS
<1> USE DEF HonestInv
<1>1. ASSUME NEW w \in Workers, NEW k \in Keys, NEW f \in Intents, Receive(w, k, f)
      PROVE  HonestInv'
  BY <1>1, ReceiveOutcome DEF ReplyTrue, NotSentYet, AnswersAreHonest, TypeOK
<1>2. ASSUME NEW w \in Workers, NEW f \in Intents, ReceiveUnkeyed(w, f)
      PROVE  HonestInv'
  BY <1>2 DEF ReceiveUnkeyed, ReplyTrue, NotSentYet, AnswersAreHonest, TypeOK
<1>3. ASSUME NEW w \in Workers, PreTrade(w)
      PROVE  HonestInv'
  BY <1>3 DEF PreTrade, ReplyTrue, NotSentYet, AnswersAreHonest, TypeOK
<1>4. ASSUME NEW w \in Workers, OrderSend(w)
      PROVE  HonestInv'
  BY <1>4, RequestAssumption DEF OrderSend, ReplyTrue, NotSentYet, AnswersAreHonest, TypeOK
<1>5. ASSUME NEW w \in Workers, AnswerAndComplete(w) \/ AnswerAndAbandon(w)
      PROVE  HonestInv'
  <2>1. /\ pc[w] = "answer" /\ reply' = [reply EXCEPT ![w] = AnswerTo(result[w])]
        /\ \E label \in {"idle", "release"} : pc' = [pc EXCEPT ![w] = label]
        /\ UNCHANGED <<result, sent>>
    BY <1>5 DEF AnswerAndComplete, AnswerAndAbandon
  <2>2. AnswersAreHonest'
    BY <2>1, AnswerIsHonest DEF AnswersAreHonest, TypeOK
  <2> QED
    BY <2>1, <2>2 DEF ReplyTrue, NotSentYet, TypeOK
<1>6. ASSUME NEW w \in Workers, Release(w)
      PROVE  HonestInv'
  BY <1>6 DEF Release, ReplyTrue, NotSentYet, AnswersAreHonest, TypeOK
<1>7. CASE Tick \/ UNCHANGED vars
  BY <1>7 DEF Tick, vars, ReplyTrue, NotSentYet, AnswersAreHonest
<1>8. CASE Restart
  BY <1>8 DEF Restart, ReplyTrue, NotSentYet, AnswersAreHonest
<1> QED
  BY <1>1, <1>2, <1>3, <1>4, <1>5, <1>6, <1>7, <1>8 DEF Next, Work

\* No answer claims an outcome the trade server did not have.
THEOREM Honesty == Spec => []AnswersAreHonest
<1>1. Init => HonestInv
  BY DEF Init, HonestInv, ReplyTrue, NotSentYet, AnswersAreHonest
<1>2. HonestInv => AnswersAreHonest
  BY DEF HonestInv
<1> QED
  BY <1>1, <1>2, NextHonest, TypeCorrect, PTL DEF Spec

\* A step that keeps the keys and intents of those in the handler, and
\* makes no key pending.
LEMMA StillHeld ==
    ASSUME TypeOK, PendingHeld, NEW w \in Workers,
           \A v \in Workers \ {w} :
              pc'[v] = pc[v] /\ key'[v] = key[v] /\ intent'[v] = intent[v],
           \A k \in Keys : IsPending(entries', k) =>
              /\ IsPending(entries, k) /\ entries'[k].fingerprint = entries[k].fingerprint
              /\ \/ Owns(w, k) => Owns(w, k)' /\ intent'[w] = intent[w]
                 \/ entries[k].fingerprint # intent[w]
    PROVE  PendingHeld'
<1> SUFFICES ASSUME NEW k \in Keys, IsPending(entries', k)
             PROVE  \E v \in Workers : Owns(v, k)' /\ intent'[v] = entries'[k].fingerprint
  BY DEF PendingHeld
<1>1. PICK v \in Workers : Owns(v, k) /\ intent[v] = entries[k].fingerprint
  BY DEF PendingHeld
<1>2. CASE v = w
  BY <1>1, <1>2
<1>3. CASE v # w
  BY <1>1, <1>3 DEF Owns
<1> QED
  BY <1>2, <1>3

LEMMA NextHeld == TypeOK /\ PendingHeld /\ [Next]_vars => PendingHeld'
<1> SUFFICES ASSUME TypeOK, PendingHeld, [Next]_vars PROVE PendingHeld'
  OBVIOUS
<1>0. entries \in Store
  BY DEF TypeOK, Store
<1>1. ASSUME NEW w \in Workers, NEW k \in Keys, NEW f \in Intents, Receive(w, k, f)
      PROVE  PendingHeld'
  <2>1. /\ pc[w] = "idle" /\ key' = [key EXCEPT ![w] = k]
        /\ intent' = [intent EXCEPT ![w] = f]
    BY <1>1, ReceiveOutcome
  <2>2. CASE /\ pc' = [pc EXCEPT ![w] = "check"] /\ IsPending(entries', k)
             /\ entries'[k].fingerprint = f
             /\ \A j \in Keys \ {k} : Present(entries', j) => entries'[j] = entries[j]
    <3> SUFFICES ASSUME NEW j \in Keys, IsPending(entries', j)
                 PROVE  \E v \in Workers : Owns(v, j)' /\ intent'[v] = entries'[j].fingerprint
      BY DEF PendingHeld
    <3>1. CASE j = k
      BY <2>1, <2>2, <3>1 DEF Owns, TypeOK
    <3>2. CASE j # k
      <4>1. IsPending(entries, j) /\ entries'[j] = entries[j]
        BY <2>2, <3>2 DEF IsPending, Present
      <4>2. PICK v \in Workers : Owns(v, j) /\ intent[v] = entries[j].fingerprint
        BY <4>1 DEF PendingHeld
      <4>3. v # w
        BY <2>1, <4>2 DEF Owns
      <4> QED
        BY <2>1, <2>2, <4>1, <4>2, <4>3 DEF Owns, TypeOK
    <3> QED
      BY <3>1, <3>2
  <2>3. CASE /\ UNCHANGED pc
             /\ \A j \in Keys : Present(entries', j) => entries'[j] = entries[j]
    <3>1. \A v \in Workers \ {w} :
             pc'[v] = pc[v] /\ key'[v] = key[v] /\ intent'[v] = intent[v]
      BY <2>1, <2>3 DEF TypeOK
    <3>2. \A j \in Keys : IsPending(entries', j) =>
             IsPending(entries, j) /\ entries'[j] = entries[j] /\ ~Owns(w, j)
      BY <2>1, <2>3 DEF IsPending, Present, Owns
    <3> QED
      BY <3>1, <3>2, StillHeld
  <2> QED
    BY <1>1, <2>2, <2>3, ReceiveOutcome
<1>2. ASSUME NEW w \in Workers, NEW f \in Intents, ReceiveUnkeyed(w, f)
      PROVE  PendingHeld'
  <2>1. /\ \A v \in Workers \ {w} :
              pc'[v] = pc[v] /\ key'[v] = key[v] /\ intent'[v] = intent[v]
        /\ UNCHANGED entries /\ \A k \in Keys : ~Owns(w, k)
    BY <1>2 DEF ReceiveUnkeyed, Owns, TypeOK
  <2> QED
    BY <2>1, StillHeld
<1>3. ASSUME NEW w \in Workers, PreTrade(w) \/ OrderSend(w) \/ AnswerAndAbandon(w)
      PROVE  PendingHeld'
  <2>1. /\ UNCHANGED <<entries, key, intent>> /\ \A v \in Workers \ {w} : pc'[v] = pc[v]
        /\ \A k \in Keys : Owns(w, k) => Owns(w, k)'
    BY <1>3 DEF PreTrade, OrderSend, AnswerAndAbandon, Owns, TypeOK
  <2> QED
    BY <2>1, StillHeld
<1>4. ASSUME NEW w \in Workers, AnswerAndComplete(w)
      PROVE  PendingHeld'
  <2> DEFINE answer == AnswerTo(result[w])
  <2>1. UNCHANGED <<key, intent>> /\ \A v \in Workers \ {w} : pc'[v] = pc[v]
    BY <1>4 DEF AnswerAndComplete, TypeOK
  <2>2. answer \in Responses
    BY <1>4, RequestAssumption, ClassesMatchServer
       DEF AnswerAndComplete, Remembered, AnswerTo, AnswerFor, Responses, TypeOK, Results
  <2>3. \A k \in Keys : IsPending(entries', k) =>
           entries'[k] = entries[k] /\ (Owns(w, k) => entries[k].fingerprint # intent[w])
    <3>1. CASE key[w] = NoKey
      BY <1>4, <3>1, RequestAssumption DEF AnswerAndComplete, Owns
    <3>2. CASE key[w] # NoKey
      <4>1. key[w] \in Keys /\ intent[w] \in Intents
            /\ entries' = Completed(entries, key[w], intent[w], answer)
        BY <1>4, <3>2 DEF AnswerAndComplete, TypeOK
      <4>2. CASE Present(entries, key[w]) /\ entries[key[w]].fingerprint = intent[w]
        BY <1>0, <2>2, <4>1, <4>2, CompletedStore DEF Owns
      <4>3. CASE ~(Present(entries, key[w]) /\ entries[key[w]].fingerprint = intent[w])
        BY <4>1, <4>3 DEF Completed, Owns, IsPending
      <4> QED
        BY <4>2, <4>3
    <3> QED
      BY <3>1, <3>2
  <2>4. \A k \in Keys : IsPending(entries', k) => IsPending(entries, k)
    BY <2>3 DEF IsPending, Present
  <2> QED
    BY <2>1, <2>3, <2>4, StillHeld
<1>5. ASSUME NEW w \in Workers, Release(w)
      PROVE  PendingHeld'
  <2>1. UNCHANGED <<key, intent>> /\ \A v \in Workers \ {w} : pc'[v] = pc[v]
    BY <1>5 DEF Release, TypeOK
  <2>2. \A k \in Keys : IsPending(entries', k) =>
           entries'[k] = entries[k] /\ (Owns(w, k) => entries[k].fingerprint # intent[w])
    <3>1. CASE key[w] = NoKey
      BY <1>5, <3>1, RequestAssumption DEF Release, Owns
    <3>2. CASE key[w] # NoKey
      <4>1. key[w] \in Keys /\ entries' = Abandoned(entries, key[w], intent[w])
        BY <1>5, <3>2 DEF Release, TypeOK
      <4>2. CASE IsPending(entries, key[w]) /\ entries[key[w]].fingerprint = intent[w]
        <5>1. entries' = [entries EXCEPT ![key[w]] = Absent]
          BY <4>1, <4>2 DEF Abandoned
        <5> QED
          BY <1>0, <4>1, <5>1 DEF Store, IsPending, Present, Owns
      <4>3. CASE ~(IsPending(entries, key[w]) /\ entries[key[w]].fingerprint = intent[w])
        BY <4>1, <4>3 DEF Abandoned, Owns
      <4> QED
        BY <4>2, <4>3
    <3> QED
      BY <3>1, <3>2
  <2>3. \A k \in Keys : IsPending(entries', k) => IsPending(entries, k)
    BY <2>2 DEF IsPending, Present
  <2> QED
    BY <2>1, <2>2, <2>3, StillHeld
<1>6. CASE Tick
  <2>1. entries' = Aged(entries) /\ UNCHANGED <<pc, key, intent>>
    BY <1>6 DEF Tick
  <2>2. \A k \in Keys : IsPending(entries', k) =>
           IsPending(entries, k) /\ entries'[k].fingerprint = entries[k].fingerprint
    BY <1>0, <2>1, AgedStore DEF IsPending
  <2> QED
    BY <2>1, <2>2 DEF PendingHeld, Owns
<1>7. CASE Restart
  BY <1>7 DEF Restart, PendingHeld, IsPending, Present
<1>8. CASE UNCHANGED vars
  BY <1>8 DEF vars, PendingHeld, IsPending, Present, Owns
<1> QED
  BY <1>1, <1>2, <1>3, <1>4, <1>5, <1>6, <1>7, <1>8 DEF Next, Work

\* No reservation is ever orphaned: while it is pending, a request of its
\* intent is in the handler and will answer or drop it.
THEOREM NoOrphans == Spec => []PendingHeld
<1>1. Init => PendingHeld
  BY DEF Init, PendingHeld, IsPending, Present
<1> QED
  BY <1>1, NextHeld, TypeCorrect, PTL DEF Spec

\* A step that leaves a live reservation where it is, or a request of its own
\* intent leaves the handler.
Stands(k) ==
    \/ Present(entries', k) /\ entries'[k].fingerprint = entries[k].fingerprint
    \/ \E w \in Workers : Owns(w, k) /\ intent[w] = entries[k].fingerprint /\ ~Owns(w, k)'

\* Receiving purges only what has expired, and reserves only what is absent.
LEMMA ReceiveStands ==
    ASSUME TypeOK, NEW w \in Workers, NEW j \in Keys, NEW f \in Intents, Receive(w, j, f),
           NEW k \in Keys, Present(entries, k), ~Expired(entries, k)
    PROVE  Stands(k)
<1> DEFINE live == Purged(entries)
<1>1. entries \in Store
  BY DEF TypeOK, Store
<1>2. live \in Store /\ Present(live, k) /\ live[k] = entries[k]
  BY <1>1, PurgedStore
<1>3. CASE Decision(live, j, f) = "new"
  <2>1. entries' = Reserved(live, j, f) /\ ~Present(live, j)
    BY <1>3 DEF Receive, Decision
  <2>2. entries'[k] = live[k]
    BY <1>2, <2>1, ReservedStore
  <2> QED
    BY <1>2, <2>2 DEF Stands, Present
<1>4. CASE Decision(live, j, f) # "new"
  <2>1. entries' = live
    BY <1>4 DEF Receive
  <2> QED
    BY <1>2, <2>1 DEF Stands
<1> QED
  BY <1>3, <1>4

\* A request that answers or gives up changes its own reservation only, and
\* is then out of the handler.
LEMMA EndStands ==
    ASSUME TypeOK, NEW w \in Workers, AnswerAndComplete(w) \/ Release(w),
           NEW k \in Keys, Present(entries, k)
    PROVE  Stands(k)
<1>1. entries'[k] # entries[k] => key[w] = k /\ intent[w] = entries[k].fingerprint
  <2>1. CASE key[w] = NoKey
    BY <2>1 DEF AnswerAndComplete, Release
  <2>2. CASE key[w] # NoKey
    <3>1. CASE AnswerAndComplete(w)
      BY <2>2, <3>1 DEF AnswerAndComplete, Completed, TypeOK
    <3>2. CASE Release(w)
      BY <2>2, <3>2 DEF Release, Abandoned, TypeOK
    <3> QED
      BY <3>1, <3>2
  <2> QED
    BY <2>1, <2>2
<1>2. key[w] = k => Owns(w, k) /\ ~Owns(w, k)'
  BY DEF AnswerAndComplete, Release, Owns, TypeOK
<1>3. CASE entries'[k] = entries[k]
  BY <1>3 DEF Stands, Present
<1>4. CASE entries'[k] # entries[k]
  BY <1>1, <1>2, <1>4 DEF Stands
<1> QED
  BY <1>3, <1>4

\* An unexpired reservation ends with a request of its own intent and with
\* nothing else: not with another intent's request, however late its release
\* comes, and on a restart because its owner ended there too.
THEOREM ReservationsStand == Spec => ReservationStands
<1>1. ASSUME TypeOK, PendingHeld, [Next]_vars,
             NEW k \in Keys, IsPending(entries, k), ~Expired(entries, k)
      PROVE  Stands(k)
  <2>1. entries \in Store /\ Present(entries, k)
    BY <1>1 DEF TypeOK, Store, IsPending
  <2>2. CASE UNCHANGED entries
    BY <2>1, <2>2 DEF Stands, Present
  <2>3. ASSUME NEW w \in Workers, NEW f \in Intents, ReceiveUnkeyed(w, f) PROVE Stands(k)
    BY <2>2, <2>3 DEF ReceiveUnkeyed
  <2>4. ASSUME NEW w \in Workers, NEW f \in Intents, NEW j \in Keys, Receive(w, j, f)
        PROVE  Stands(k)
    BY <1>1, <2>1, <2>4, ReceiveStands
  <2>5. ASSUME NEW w \in Workers, Work(w) PROVE Stands(k)
    <3>1. CASE PreTrade(w) \/ OrderSend(w) \/ AnswerAndAbandon(w)
      BY <2>2, <3>1 DEF PreTrade, OrderSend, AnswerAndAbandon
    <3>2. CASE AnswerAndComplete(w) \/ Release(w)
      BY <1>1, <2>1, <3>2, EndStands
    <3> QED
      BY <2>5, <3>1, <3>2 DEF Work
  <2>6. CASE Tick
    <3>1. entries' = Aged(entries)
      BY <2>6 DEF Tick
    <3> QED
      BY <2>1, <3>1, AgedStore DEF Stands
  <2>7. CASE Restart
    <3>1. PICK w \in Workers : Owns(w, k) /\ intent[w] = entries[k].fingerprint
      BY <1>1 DEF PendingHeld
    <3>2. ~Owns(w, k)'
      BY <2>7 DEF Restart, Owns
    <3> QED
      BY <3>1, <3>2 DEF Stands
  <2>8. CASE UNCHANGED vars
    BY <2>2, <2>8 DEF vars
  <2> QED
    BY <1>1, <2>3, <2>4, <2>5, <2>6, <2>7, <2>8 DEF Next
<1>2. TypeOK /\ PendingHeld /\ [Next]_vars =>
        [\A k \in Keys, f \in Intents :
            /\ IsPending(entries, k) /\ entries[k].fingerprint = f /\ ~Expired(entries, k)
            /\ ~(Present(entries', k) /\ entries'[k].fingerprint = f)
            => \E w \in Workers : Owns(w, k) /\ intent[w] = f /\ ~Owns(w, k)']_vars
  BY <1>1 DEF Stands
<1> QED
  BY <1>2, NoOrphans, TypeCorrect, PTL DEF Spec, ReservationStands

-----------------------------------------------------------------------------
(* While no request outlives its reservation.                              *)

\* The reservation of a request in flight has time left.
OwnedFresh == \A w \in Workers, k \in Keys : Owns(w, k) => entries[k].left > 0

\* Nothing was placed under a key that is free, or held by a request that
\* has not sent its order or was refused.
NothingPlaced ==
    \A k \in Keys :
        /\ ~Present(entries, k) => placed[k] = 0
        /\ \A w \in Workers : Owns(w, k) /\ pc[w] # "answer" => placed[k] = 0

\* What is known of the order between the reply of the server and the
\* answer to the client.
ReplyKnown ==
    \A w \in Workers : pc[w] = "answer" =>
        /\ result[w] \in Codes /\ ServerPlaced(result[w]) => sent[w] = "placed"
        /\ result[w] = Raised => sent[w] = "refused"
        /\ result[w] \in Codes /\ ServerRefused(result[w]) => sent[w] = "refused"
        /\ key[w] # NoKey => placed[key[w]] = IF sent[w] = "placed" THEN 1 ELSE 0

\* What holds of reservations while no request outlives its own, and what
\* holds of orders while the process is not restarted either.
OwnerInv == TypeOK /\ SingleOwner /\ OwnedFresh
PlacedInv == NothingPlaced /\ ReplyKnown /\ AtMostOneOrder

IInv == OwnerInv /\ PlacedInv

\* With nobody in the handler and nothing stored.
LEMMA InitIInv == Init => IInv
<1> SUFFICES ASSUME Init PROVE IInv
  OBVIOUS
<1> USE RequestAssumption DEF Init
<1>1. TypeOK
  BY DEF TypeOK, Results, Replies
<1>2. \A w \in Workers, k \in Keys : ~Owns(w, k)
  BY DEF Owns
<1>3. SingleOwner /\ OwnedFresh /\ NothingPlaced
  BY <1>2 DEF SingleOwner, OwnedFresh, NothingPlaced, Present, IsPending
<1>4. ReplyKnown /\ AtMostOneOrder
  BY DEF ReplyKnown, AtMostOneOrder
<1> QED
  BY <1>1, <1>3, <1>4 DEF IInv, OwnerInv, PlacedInv

\* A request arrives with a key.
LEMMA ReceiveStep ==
    ASSUME OwnerInv, NEW w \in Workers, NEW k \in Keys, NEW f \in Intents, Receive(w, k, f)
    PROVE  OwnerInv' /\ (PlacedInv => PlacedInv')
<1> USE RequestAssumption, AbsentAssumption DEF OwnerInv, PlacedInv
<1> DEFINE live == Purged(entries)
<1>0. entries \in Store
  BY DEF TypeOK, Store
<1>1. /\ live \in Store
      /\ \A j \in Keys : Present(live, j) <=> Present(entries, j) /\ ~Expired(entries, j)
      /\ \A j \in Keys : Present(live, j) => live[j] = entries[j]
      /\ \A j \in Keys : Present(live, j) => entries[j].left > 0
  BY <1>0, PurgedStore
<1>2. \A v \in Workers, j \in Keys : Owns(v, j) => Present(live, j) /\ live[j] = entries[j]
  BY <1>1 DEF SingleOwner, OwnedFresh, IsPending, Expired
<1>3. \A j \in Keys : placed'[j] = IF Expired(entries, j) THEN 0 ELSE placed[j]
  BY DEF Receive
<1>5. PlacedInv => \A j \in Keys : ~Present(live, j) => placed'[j] = 0
  BY <1>1, <1>3 DEF NothingPlaced
<1>6. \A v \in Workers, j \in Keys : Owns(v, j) => ~Expired(entries, j)
  BY <1>2, <1>1
<1>7. CASE Decision(live, k, f) = "new"
  <2>1. ~Present(live, k)
    BY <1>7 DEF Decision
  <2>2. /\ entries' = Reserved(live, k, f)
        /\ pc' = [pc EXCEPT ![w] = "check"]
        /\ reply' = [reply EXCEPT ![w] = "none"]
    BY <1>7 DEF Receive
  <2>3. /\ entries' \in Store
        /\ IsPending(entries', k)
        /\ entries'[k].fingerprint = f
        /\ entries'[k].left = TTL
        /\ \A j \in Keys \ {k} : entries'[j] = live[j]
    BY <1>1, <2>2, ReservedStore
  <2>4. /\ Owns(w, k)' /\ \A j \in Keys : Owns(w, j)' => j = k
        /\ \A v \in Workers \ {w}, j \in Keys : Owns(v, j)' <=> Owns(v, j)
        /\ \A v \in Workers : ~Owns(v, k)
    BY <2>1, <2>2, <1>2 DEF Owns, Receive, TypeOK
  <2>5. TypeOK'
    BY <2>2, <2>3 DEF TypeOK, Receive, Store, Results, Replies
  <2>6. SingleOwner'
    BY <2>2, <2>3, <2>4, <1>2 DEF SingleOwner, Receive, TypeOK, IsPending, Present
  <2>7. OwnedFresh'
    BY <2>3, <2>4, <1>2, TTLAssumption DEF OwnedFresh
  <2>8. PlacedInv => NothingPlaced'
    BY <2>1, <2>2, <2>3, <2>4, <1>3, <1>5, <1>6 DEF NothingPlaced, Present, IsPending, TypeOK
  <2>9. PlacedInv => ReplyKnown'
    BY <2>2, <1>3, <1>6 DEF ReplyKnown, Receive, TypeOK, Owns
  <2>10. PlacedInv => AtMostOneOrder'
    BY <2>2, <1>3 DEF AtMostOneOrder, Receive, TypeOK
  <2> QED
    BY <2>5, <2>6, <2>7, <2>8, <2>9, <2>10
<1>8. CASE Decision(live, k, f) # "new"
  <2>1. entries' = live /\ UNCHANGED pc /\ Present(live, k)
    BY <1>8 DEF Receive, Decision
  <2>2. reply' = [reply EXCEPT ![w] = reply'[w]]
        /\ reply'[w] \in {"conflict", "in_progress"} \cup Responses
    <3>1. live[k] \in Entry
      BY <2>1, <1>1 DEF Store, Present
    <3>2. CASE Decision(live, k, f) = "replay"
      <4>1. live[k].response \in Responses
        BY <3>1, <3>2, <2>1 DEF Decision, IsPending, Entry
      <4> QED
        BY <4>1, <3>2, <1>8 DEF Receive, TypeOK
    <3> QED
      BY <3>2, <1>8 DEF Receive, TypeOK
  <2>3. \A v \in Workers, j \in Keys : Owns(v, j)' <=> Owns(v, j)
    BY <2>1 DEF Owns, Receive, TypeOK
  <2>4. TypeOK'
    BY <2>1, <2>2, <1>1 DEF TypeOK, Receive, Store, Results, Replies, Responses
  <2>5. SingleOwner' /\ OwnedFresh'
    BY <2>1, <2>3, <1>2 DEF SingleOwner, OwnedFresh, Receive, TypeOK, IsPending, Present, Owns
  <2>6. PlacedInv => NothingPlaced'
    BY <2>1, <2>3, <1>3, <1>5 DEF NothingPlaced
  <2>7. PlacedInv => ReplyKnown'
    BY <2>1, <2>2, <1>3, <1>6 DEF ReplyKnown, Receive, TypeOK, Owns
  <2>8. PlacedInv => AtMostOneOrder'
    BY <2>2, <1>3 DEF AtMostOneOrder, Receive, TypeOK
  <2> QED
    BY <2>4, <2>5, <2>6, <2>7, <2>8
<1> QED
  BY <1>7, <1>8

\* A request without a key never touches the store.
LEMMA UnkeyedStep ==
    ASSUME OwnerInv, NEW w \in Workers, NEW f \in Intents, ReceiveUnkeyed(w, f)
    PROVE  OwnerInv' /\ (PlacedInv => PlacedInv')
<1> USE RequestAssumption DEF OwnerInv, PlacedInv, ReceiveUnkeyed
<1>1. TypeOK'
  BY DEF TypeOK, Results, Replies
<1>2. \A v \in Workers, k \in Keys : Owns(v, k)' <=> Owns(v, k)
  BY DEF Owns, TypeOK
<1>3. \A v \in Workers, k \in Keys : Owns(v, k) => v # w
  BY DEF Owns
<1>4. SingleOwner' /\ OwnedFresh'
  BY <1>2, <1>3 DEF SingleOwner, OwnedFresh, TypeOK
<1>5. PlacedInv => NothingPlaced'
  BY <1>2, <1>3 DEF NothingPlaced, TypeOK
<1>6. PlacedInv => ReplyKnown' /\ AtMostOneOrder'
  BY DEF ReplyKnown, AtMostOneOrder, TypeOK
<1> QED
  BY <1>1, <1>4, <1>5, <1>6

\* Validation, the check with the broker, and their refusals.
LEMMA PreTradeStep ==
    ASSUME OwnerInv, NEW w \in Workers, PreTrade(w)
    PROVE  OwnerInv' /\ (PlacedInv => PlacedInv')
<1> USE RequestAssumption DEF OwnerInv, PlacedInv, PreTrade
<1>1. TypeOK'
  BY DEF TypeOK, Results, Replies
<1>2. \A v \in Workers, k \in Keys : Owns(v, k)' <=> Owns(v, k)
  BY DEF Owns, TypeOK
<1>3. SingleOwner' /\ OwnedFresh'
  BY <1>2 DEF SingleOwner, OwnedFresh, TypeOK
<1>4. PlacedInv => NothingPlaced'
  BY <1>2 DEF NothingPlaced, TypeOK
<1>5. PlacedInv => ReplyKnown' /\ AtMostOneOrder'
  BY DEF ReplyKnown, AtMostOneOrder, TypeOK
<1> QED
  BY <1>1, <1>3, <1>4, <1>5

\* The order goes to the server: the key was unused until now.
LEMMA OrderSendStep ==
    ASSUME OwnerInv, NEW w \in Workers, OrderSend(w)
    PROVE  OwnerInv' /\ (PlacedInv => PlacedInv')
<1> USE RequestAssumption DEF OwnerInv, PlacedInv
<1>1. PICK r \in Codes \cup {NoReply, Raised}, done \in BOOLEAN :
         /\ r \in Codes /\ ServerPlaced(r) => done
         /\ r = Raised \/ (r \in Codes /\ ServerRefused(r)) => ~done
         /\ result' = [result EXCEPT ![w] = r]
         /\ sent' = [sent EXCEPT ![w] = IF done THEN "placed" ELSE "refused"]
         /\ placed' = IF done /\ key[w] # NoKey
                      THEN [placed EXCEPT ![key[w]] = CountTo(@)] ELSE placed
  BY DEF OrderSend
<1>2. /\ pc[w] = "send" /\ pc' = [pc EXCEPT ![w] = "answer"]
      /\ UNCHANGED <<entries, key, intent, reply>>
  BY DEF OrderSend
<1>3. \A v \in Workers, k \in Keys : Owns(v, k)' <=> Owns(v, k)
  BY <1>2 DEF Owns, TypeOK
<1>4. ASSUME key[w] # NoKey
      PROVE  /\ key[w] \in Keys /\ Owns(w, key[w]) /\ Present(entries, key[w])
             /\ PlacedInv => placed[key[w]] = 0
  BY <1>2, <1>4 DEF Owns, TypeOK, NothingPlaced, SingleOwner, IsPending
<1>5. ASSUME PlacedInv
      PROVE  \A k \in Keys : placed'[k] = IF done /\ k = key[w] THEN 1 ELSE placed[k]
  BY <1>1, <1>4, <1>5 DEF TypeOK, CountTo
<1>6. TypeOK'
  <2>1. placed' \in [Keys -> 0..2]
    BY <1>1, <1>4 DEF TypeOK, CountTo
  <2> QED
    BY <1>1, <1>2, <2>1 DEF TypeOK, Results
<1>7. SingleOwner' /\ OwnedFresh'
  BY <1>2, <1>3 DEF SingleOwner, OwnedFresh
<1>8. ASSUME PlacedInv PROVE NothingPlaced'
  <2>1. ASSUME NEW k \in Keys, ~Present(entries, k) PROVE placed'[k] = 0
    BY <2>1, <1>4, <1>5, <1>8 DEF NothingPlaced, TypeOK
  <2>2. ASSUME NEW k \in Keys, NEW v \in Workers, Owns(v, k), pc'[v] # "answer"
        PROVE  placed'[k] = 0
    <3>1. v # w /\ pc[v] # "answer"
      BY <2>2, <1>2 DEF TypeOK
    <3>2. k # key[w]
      BY <3>1, <2>2, <1>4 DEF SingleOwner
    <3> QED
      BY <3>1, <3>2, <2>2, <1>5, <1>8 DEF NothingPlaced
  <2> QED
    BY <2>1, <2>2, <1>2, <1>3 DEF NothingPlaced
<1>9. ASSUME PlacedInv PROVE ReplyKnown'
  <2>1. ASSUME NEW v \in Workers \ {w}, pc[v] = "answer", key[v] # NoKey
        PROVE  placed'[key[v]] = placed[key[v]]
    <3>1. key[v] \in Keys /\ Owns(v, key[v])
      BY <2>1 DEF Owns, TypeOK
    <3>2. key[v] # key[w]
      BY <3>1, <1>4, <2>1 DEF SingleOwner
    <3> QED
      BY <3>1, <3>2, <1>5, <1>9
  <2> QED
    BY <2>1, <1>1, <1>2, <1>4, <1>5, <1>9 DEF ReplyKnown, TypeOK
<1>10. ASSUME PlacedInv PROVE AtMostOneOrder'
  BY <1>5, <1>10 DEF AtMostOneOrder, TypeOK
<1> QED
  BY <1>6, <1>7, <1>8, <1>9, <1>10

\* The outcome is stored for repeats and returned.
LEMMA CompleteStep ==
    ASSUME OwnerInv, NEW w \in Workers, AnswerAndComplete(w)
    PROVE  OwnerInv' /\ (PlacedInv => PlacedInv')
<1> USE RequestAssumption DEF OwnerInv, PlacedInv
<1> DEFINE answer == AnswerTo(result[w])
<1>1. /\ pc[w] = "answer" /\ pc' = [pc EXCEPT ![w] = "idle"]
      /\ reply' = [reply EXCEPT ![w] = answer]
      /\ UNCHANGED <<key, intent, result, sent, placed>>
  BY DEF AnswerAndComplete
<1>2. answer \in Responses
  BY <1>1, ClassesMatchServer
  DEF AnswerAndComplete, Remembered, AnswerTo, AnswerFor, Responses, TypeOK, Results
<1>3. \A v \in Workers, k \in Keys : Owns(v, k)' <=> v # w /\ Owns(v, k)
  BY <1>1 DEF Owns, TypeOK
<1>4. \A k \in Keys : ~Owns(w, k) => entries'[k] = entries[k]
  <2>1. ASSUME key[w] # NoKey PROVE \A k \in Keys \ {key[w]} : entries'[k] = entries[k]
    BY <2>1 DEF AnswerAndComplete, Completed, TypeOK
  <2> QED
    BY <1>1, <2>1 DEF AnswerAndComplete, Owns, TypeOK
<1>5. ASSUME NEW k \in Keys, Owns(w, k)
      PROVE  /\ entries' \in Store
             /\ Present(entries', k) /\ ~IsPending(entries', k)
  <2>1. key[w] = k /\ Present(entries, k) /\ entries[k].fingerprint = intent[w]
    BY <1>5 DEF Owns, SingleOwner, IsPending
  <2>2. entries' = Completed(entries, k, intent[w], answer)
    BY <2>1 DEF AnswerAndComplete
  <2> QED
    BY <1>2, <2>1, <2>2, CompletedStore DEF TypeOK, Store
<1>6. TypeOK'
  <2>1. entries' \in Store
    <3>1. CASE key[w] = NoKey
      BY <3>1 DEF AnswerAndComplete, TypeOK, Store
    <3>2. CASE key[w] # NoKey
      BY <3>2, <1>1, <1>5 DEF Owns, TypeOK
    <3> QED
      BY <3>1, <3>2
  <2> QED
    BY <1>1, <1>2, <2>1 DEF TypeOK, Store, Responses, Replies
<1>7. SingleOwner' /\ OwnedFresh'
  <2>1. ASSUME NEW v \in Workers, NEW k \in Keys, Owns(v, k)'
        PROVE  entries'[k] = entries[k] /\ Owns(v, k)
    BY <2>1, <1>3, <1>4 DEF SingleOwner
  <2> QED
    BY <1>1, <1>3, <2>1 DEF SingleOwner, OwnedFresh, IsPending, Present
<1>8. PlacedInv => NothingPlaced'
  <2>1. ASSUME NEW k \in Keys, ~Present(entries', k) PROVE ~Present(entries, k)
    BY <2>1, <1>4, <1>5 DEF Present
  <2> QED
    BY <2>1, <1>1, <1>3 DEF NothingPlaced, TypeOK
<1>9. PlacedInv => ReplyKnown' /\ AtMostOneOrder'
  BY <1>1 DEF ReplyKnown, AtMostOneOrder, TypeOK
<1> QED
  BY <1>6, <1>7, <1>8, <1>9

\* A refused order is answered; its reservation will be dropped.
LEMMA AbandonStep ==
    ASSUME OwnerInv, NEW w \in Workers, AnswerAndAbandon(w)
    PROVE  OwnerInv' /\ (PlacedInv => PlacedInv')
<1> USE RequestAssumption DEF OwnerInv, PlacedInv
<1> DEFINE answer == AnswerTo(result[w])
<1>1. /\ pc[w] = "answer" /\ pc' = [pc EXCEPT ![w] = "release"]
      /\ reply' = [reply EXCEPT ![w] = answer]
      /\ UNCHANGED <<entries, key, intent, result, sent, placed>>
  BY DEF AnswerAndAbandon
<1>2. answer \in {"error", "retryable", "mt5_rejected"}
  BY <1>1, ClassesMatchServer
  DEF AnswerAndAbandon, Remembered, AnswerTo, AnswerFor, TypeOK, Results
<1>3. \A v \in Workers, k \in Keys : Owns(v, k)' <=> Owns(v, k)
  BY <1>1 DEF Owns, TypeOK
<1>4. TypeOK'
  BY <1>1, <1>2 DEF TypeOK, Replies
<1>5. SingleOwner' /\ OwnedFresh'
  BY <1>1, <1>3 DEF SingleOwner, OwnedFresh
<1>6. ASSUME PlacedInv PROVE NothingPlaced'
  <2>1. sent[w] = "refused"
    BY <1>1, <1>6, ClassesMatchServer
    DEF AnswerAndAbandon, Remembered, ReplyKnown, TypeOK, Results
  <2>2. \A k \in Keys : Owns(w, k) => placed[k] = 0
    BY <1>1, <1>6, <2>1 DEF ReplyKnown, Owns
  <2> QED
    BY <1>1, <1>3, <1>6, <2>2 DEF NothingPlaced, TypeOK
<1>7. PlacedInv => ReplyKnown' /\ AtMostOneOrder'
  BY <1>1 DEF ReplyKnown, AtMostOneOrder, TypeOK
<1> QED
  BY <1>4, <1>5, <1>6, <1>7

\* The finally clause frees the key of a request that placed nothing.
LEMMA ReleaseStep ==
    ASSUME OwnerInv, NEW w \in Workers, Release(w)
    PROVE  OwnerInv' /\ (PlacedInv => PlacedInv')
<1> USE RequestAssumption DEF OwnerInv, PlacedInv
<1>1. /\ pc[w] = "release" /\ pc' = [pc EXCEPT ![w] = "idle"]
      /\ UNCHANGED <<key, intent, result, reply, sent, placed>>
  BY DEF Release
<1>2. \A v \in Workers, k \in Keys : Owns(v, k)' <=> v # w /\ Owns(v, k)
  BY <1>1 DEF Owns, TypeOK
<1>3. \A k \in Keys : ~Owns(w, k) => entries'[k] = entries[k]
  <2>1. ASSUME key[w] # NoKey PROVE \A k \in Keys \ {key[w]} : entries'[k] = entries[k]
    BY <2>1, AbandonedStore DEF Release, TypeOK, Store
  <2> QED
    BY <1>1, <2>1 DEF Release, Owns, TypeOK
<1>4. ASSUME NEW k \in Keys, Owns(w, k) PROVE ~Present(entries', k) /\ (PlacedInv => placed[k] = 0)
  <2>1. key[w] = k /\ IsPending(entries, k) /\ entries[k].fingerprint = intent[w]
    BY <1>4 DEF Owns, SingleOwner
  <2>2. entries' = Abandoned(entries, k, intent[w])
    BY <2>1 DEF Release
  <2> QED
    BY <1>1, <1>4, <2>1, <2>2, AbandonedStore DEF NothingPlaced, TypeOK, Store
<1>5. TypeOK'
  <2>1. entries' \in Store
    BY AbandonedStore DEF Release, TypeOK, Store
  <2> QED
    BY <1>1, <2>1 DEF TypeOK, Store
<1>6. SingleOwner' /\ OwnedFresh'
  <2>1. ASSUME NEW v \in Workers, NEW k \in Keys, Owns(v, k)'
        PROVE  entries'[k] = entries[k] /\ Owns(v, k)
    BY <2>1, <1>2, <1>3 DEF SingleOwner
  <2> QED
    BY <1>1, <1>2, <2>1 DEF SingleOwner, OwnedFresh, IsPending, Present
<1>7. PlacedInv => NothingPlaced'
  BY <1>1, <1>2, <1>3, <1>4 DEF NothingPlaced, Present, TypeOK
<1>8. PlacedInv => ReplyKnown' /\ AtMostOneOrder'
  BY <1>1 DEF ReplyKnown, AtMostOneOrder, TypeOK
<1> QED
  BY <1>5, <1>6, <1>7, <1>8

\* Time passes, but not past the end of a reservation in flight.
LEMMA TickStep ==
    ASSUME OwnerInv, Tick, ~SlowRequests
    PROVE  OwnerInv' /\ (PlacedInv => PlacedInv')
<1> USE RequestAssumption DEF OwnerInv, PlacedInv
<1>1. entries \in Store /\ entries' = Aged(entries)
      /\ UNCHANGED <<pc, key, intent, result, reply, sent, placed>>
  BY DEF Tick, TypeOK, Store
<1>2. \A v \in Workers, k \in Keys : Owns(v, k)' <=> Owns(v, k)
  BY <1>1 DEF Owns
<1>3. \A v \in Workers, k \in Keys : Owns(v, k) => Present(entries, k) /\ entries[k].left > 1
  BY DEF Tick, SingleOwner, IsPending
<1>4. TypeOK'
  BY <1>1, AgedStore DEF TypeOK, Store
<1>5. SingleOwner' /\ OwnedFresh'
  BY <1>1, <1>2, <1>3, AgedStore DEF SingleOwner, OwnedFresh
<1>6. PlacedInv => NothingPlaced' /\ ReplyKnown' /\ AtMostOneOrder'
  BY <1>1, <1>2, AgedStore DEF NothingPlaced, ReplyKnown, AtMostOneOrder
<1> QED
  BY <1>4, <1>5, <1>6

\* The process starts again with an empty store and nobody in the handler.
LEMMA RestartStep ==
    ASSUME OwnerInv, Restart
    PROVE  OwnerInv'
  BY RequestAssumption
     DEF OwnerInv, Restart, TypeOK, SingleOwner, OwnedFresh, Owns, Results, Replies

LEMMA NextOwner ==
    ASSUME OwnerInv, [Next]_vars, ~SlowRequests
    PROVE  OwnerInv' /\ (PlacedInv /\ ~Restarts => PlacedInv')
<1>1. CASE UNCHANGED vars
  BY <1>1 DEF vars, OwnerInv, PlacedInv, TypeOK, SingleOwner, OwnedFresh, NothingPlaced,
     ReplyKnown, AtMostOneOrder, Owns, Present, IsPending
<1>2. CASE Restart
  BY <1>2, RestartStep DEF Restart
<1>3. CASE Next /\ ~Restart
  BY <1>3, ReceiveStep, UnkeyedStep, PreTradeStep, OrderSendStep, CompleteStep,
     AbandonStep, ReleaseStep, TickStep
  DEF Next, Work
<1> QED
  BY <1>1, <1>2, <1>3

\* Restarts lose the reservations together with the requests that held them:
\* a key is never held by two requests, before a restart or after it.
THEOREM OneOwner == ASSUME ~SlowRequests PROVE Spec => []SingleOwner
<1>1. Init => OwnerInv
  BY InitIInv DEF IInv
<1>2. OwnerInv /\ [Next]_vars => OwnerInv'
  BY NextOwner
<1>3. OwnerInv => SingleOwner
  BY DEF OwnerInv
<1> QED
  BY <1>1, <1>2, <1>3, PTL DEF Spec

\* The invariant holds in every state of a steady process.
THEOREM Invariance == ASSUME Steady PROVE Spec => []IInv
<1>1. IInv /\ [Next]_vars => IInv'
  BY NextOwner DEF IInv, Steady
<1> QED
  BY <1>1, InitIInv, PTL DEF Spec

\* Repeating a key never places a second order while it is remembered.
THEOREM NoSecondOrder == ASSUME Steady PROVE Spec => []AtMostOneOrder
<1>1. IInv => AtMostOneOrder
  BY DEF IInv, PlacedInv
<1> QED
  BY <1>1, Invariance, PTL

\* A placed order is held by its request or answered for until the TTL.
THEOREM NotForgotten == ASSUME Steady PROVE Spec => []PlacedIsRemembered
<1>1. ASSUME IInv, PendingHeld PROVE PlacedIsRemembered
  <2> USE DEF IInv, OwnerInv, PlacedInv
  <2> SUFFICES ASSUME NEW k \in Keys, placed[k] > 0
               PROVE  Present(entries, k) /\ (IsPending(entries, k) =>
                        \E w \in Workers : Owns(w, k) /\ pc[w] = "answer" /\ Remembered(result[w]))
    BY DEF PlacedIsRemembered
  <2>1. Present(entries, k)
    BY <1>1 DEF NothingPlaced, TypeOK
  <2>2. ASSUME NEW w \in Workers, Owns(w, k) PROVE pc[w] = "answer" /\ Remembered(result[w])
    <3>1. pc[w] = "answer" /\ key[w] = k /\ k # NoKey
      BY <1>1, <2>2, RequestAssumption DEF NothingPlaced, Owns, TypeOK
    <3>2. sent[w] = "placed"
      BY <1>1, <3>1 DEF ReplyKnown
    <3> QED
      BY <1>1, <3>1, <3>2, ClassesMatchServer DEF ReplyKnown, Remembered, TypeOK, Results
  <2> QED
    BY <1>1, <2>1, <2>2 DEF PendingHeld
<1> QED
  BY <1>1, Invariance, NoOrphans, PTL

-----------------------------------------------------------------------------
(* Refinement of OncePerKey.                                               *)

\* The answer of a key depends on its own entry only.
LEMMA AnswerOfSame ==
    ASSUME NEW k \in Keys, entries'[k] = entries[k]
    PROVE  AnswerOf(k)' = AnswerOf(k)
  BY DEF AnswerOf, Present, IsPending

\* A step of a steady process is a step of OncePerKey, or invisible to it.
LEMMA OnceStep ==
    ASSUME IInv, [Next]_vars, Steady
    PROVE  [Once!Next]_(Once!onceVars)
<1> USE RequestAssumption, AbsentAssumption DEF IInv, OwnerInv, PlacedInv, Once!onceVars
<1> DEFINE Same == UNCHANGED placed /\ \A k \in Keys : AnswerOf(k)' = AnswerOf(k)
<1>1. Same => [Once!Next]_(Once!onceVars)
  OBVIOUS
<1>2. ASSUME NEW w \in Workers, NEW k \in Keys, NEW f \in Intents, Receive(w, k, f)
      PROVE  Once!Next
  <2> DEFINE live == Purged(entries)
             gone == {j \in Keys : Expired(entries, j)}
  <2>1. entries \in Store
    BY DEF TypeOK, Store
  <2>2. /\ live \in Store
        /\ \A j \in Keys : Present(live, j) <=> Present(entries, j) /\ j \notin gone
        /\ \A j \in Keys : Present(live, j) => live[j] = entries[j]
    BY <2>1, PurgedStore
  <2>3. \/ entries' = live
        \/ entries' = Reserved(live, k, f) /\ ~Present(live, k)
    BY <1>2 DEF Receive, Decision
  <2>4. ASSUME NEW j \in Keys
        PROVE  AnswerOf(j)' = IF j \in gone THEN "none" ELSE AnswerOf(j)
    <3>1. CASE entries'[j] = live[j]
      BY <3>1, <2>2 DEF AnswerOf, Present, IsPending
    <3>2. CASE j = k /\ entries' = Reserved(live, k, f) /\ ~Present(live, k)
      <4>1. IsPending(entries', k)
        BY <3>2, <2>2, ReservedStore
      <4> QED
        BY <4>1, <3>2, <2>2 DEF AnswerOf
    <3> QED
      BY <3>1, <3>2, <2>2, <2>3, ReservedStore
  <2>5. placed' = [j \in Keys |-> IF j \in gone THEN 0 ELSE placed[j]]
    BY <1>2 DEF Receive
  <2>6. Once!Forget(gone)
    BY <2>4, <2>5 DEF Once!Forget
  <2> QED
    BY <2>6 DEF Once!Next
<1>3. ASSUME NEW w \in Workers, NEW f \in Intents, ReceiveUnkeyed(w, f) PROVE Same
  BY <1>3, AnswerOfSame DEF ReceiveUnkeyed
<1>4. ASSUME NEW w \in Workers, PreTrade(w) \/ AnswerAndAbandon(w) PROVE Same
  BY <1>4, AnswerOfSame DEF PreTrade, AnswerAndAbandon
<1>5. ASSUME NEW w \in Workers, OrderSend(w) PROVE Same \/ Once!Next
  <2>1. \A k \in Keys : AnswerOf(k)' = AnswerOf(k)
    BY <1>5, AnswerOfSame DEF OrderSend
  <2>2. CASE UNCHANGED placed
    BY <2>1, <2>2
  <2>3. CASE placed' # placed
    <3>1. key[w] \in Keys /\ placed' = [placed EXCEPT ![key[w]] = CountTo(@)]
      BY <1>5, <2>3 DEF OrderSend, TypeOK
    <3>2. Owns(w, key[w]) /\ pc[w] = "send"
      BY <1>5, <3>1 DEF OrderSend, Owns
    <3>3. placed[key[w]] = 0 /\ AnswerOf(key[w]) = "none"
      BY <3>1, <3>2 DEF NothingPlaced, SingleOwner, AnswerOf
    <3>4. placed' = [placed EXCEPT ![key[w]] = 1]
      BY <3>1, <3>3 DEF CountTo, TypeOK
    <3>5. Once!Place(key[w])
      BY <2>1, <3>1, <3>3, <3>4 DEF Once!Place
    <3> QED
      BY <3>1, <3>5 DEF Once!Next
  <2> QED
    BY <2>2, <2>3
<1>6. ASSUME NEW w \in Workers, AnswerAndComplete(w) PROVE Same \/ Once!Next
  <2>1. CASE key[w] = NoKey
    BY <1>6, <2>1, AnswerOfSame DEF AnswerAndComplete
  <2>2. CASE key[w] # NoKey
    <3> DEFINE k == key[w]
               r == AnswerTo(result[w])
    <3>1. k \in Keys /\ Owns(w, k)
      BY <1>6, <2>2 DEF AnswerAndComplete, Owns, TypeOK
    <3>2. IsPending(entries, k) /\ entries[k].fingerprint = intent[w] /\ AnswerOf(k) = "none"
      BY <3>1 DEF SingleOwner, AnswerOf
    <3>3. r \in Responses /\ (r = "ok" => placed[k] = 1)
      BY <1>6, <2>2, ClassesMatchServer
      DEF AnswerAndComplete, Remembered, AnswerTo, AnswerFor, Responses, ReplyKnown, TypeOK, Results
    <3>4. entries' = Completed(entries, k, intent[w], r) /\ UNCHANGED placed
      BY <1>6, <2>2 DEF AnswerAndComplete
    <3>5. /\ Present(entries', k) /\ ~IsPending(entries', k) /\ entries'[k].response = r
          /\ \A j \in Keys \ {k} : entries'[j] = entries[j]
      BY <3>1, <3>2, <3>3, <3>4, CompletedStore DEF TypeOK, Store, IsPending
    <3>6. \A j \in Keys : AnswerOf(j)' = IF j = k THEN r ELSE AnswerOf(j)
      BY <3>5, AnswerOfSame DEF AnswerOf
    <3>7. [j \in Keys |-> AnswerOf(j)]' = [[j \in Keys |-> AnswerOf(j)] EXCEPT ![k] = r]
      BY <3>1, <3>6
    <3>8. Once!Answer(k)
      BY <3>1, <3>2, <3>3, <3>4, <3>7 DEF Once!Answer, Responses
    <3> QED
      BY <3>1, <3>8 DEF Once!Next
  <2> QED
    BY <2>1, <2>2
<1>7. ASSUME NEW w \in Workers, Release(w) PROVE Same
  <2>1. CASE key[w] = NoKey
    BY <1>7, <2>1, AnswerOfSame DEF Release
  <2>2. CASE key[w] # NoKey
    <3>1. key[w] \in Keys /\ Owns(w, key[w])
      BY <1>7, <2>2 DEF Release, Owns, TypeOK
    <3>2. IsPending(entries, key[w]) /\ entries[key[w]].fingerprint = intent[w]
      BY <3>1 DEF SingleOwner
    <3>3. /\ ~Present(entries', key[w])
          /\ \A j \in Keys \ {key[w]} : entries'[j] = entries[j]
      BY <1>7, <2>2, <3>1, <3>2, AbandonedStore DEF Release, TypeOK, Store
    <3>4. AnswerOf(key[w])' = "none" /\ AnswerOf(key[w]) = "none"
      BY <1>7, <3>2, <3>3 DEF AnswerOf, Release
    <3> QED
      BY <1>7, <3>3, <3>4, AnswerOfSame DEF Release
  <2> QED
    BY <2>1, <2>2
<1>8. CASE Tick
  <2>1. entries \in Store /\ entries' = Aged(entries) /\ UNCHANGED placed
    BY <1>8 DEF Tick, TypeOK, Store
  <2>2. \A k \in Keys : AnswerOf(k)' = AnswerOf(k)
    BY <2>1, AgedStore DEF AnswerOf
  <2> QED
    BY <2>1, <2>2
<1>9. CASE UNCHANGED vars
  BY <1>9, AnswerOfSame DEF vars
<1> QED
  BY <1>1, <1>2, <1>3, <1>4, <1>5, <1>6, <1>7, <1>8, <1>9 DEF Next, Work, Restart, Steady

\* Repeated requests see what OncePerKey promises.
THEOREM OncePerKeyImplemented == ASSUME Steady PROVE Spec => ImplementsOncePerKey
<1>1. Init => Once!Init
  BY DEF Init, Once!Init, AnswerOf, Present
<1>2. IInv /\ [Next]_vars => [Once!Next]_(Once!onceVars)
  BY OnceStep
<1> QED
  BY <1>1, <1>2, Invariance, PTL DEF Spec, ImplementsOncePerKey, Once!Spec

\* The first answer stored under a key is the answer of every repeat until the
\* key is forgotten.
FirstAnswerStays ==
    [][\A k \in Keys : AnswerOf(k) # "none" => AnswerOf(k)' \in {AnswerOf(k), "none"}]_vars

\* No order is placed under a key that already has its answer.
NoOrderAfterAnswer ==
    [][\A k \in Keys : AnswerOf(k) # "none" => placed'[k] <= placed[k]]_vars

\* What OncePerKey promises of every two steps: repeats agree with the first
\* answer, and nothing is sent to the market after it.
THEOREM RepeatsAgree == ASSUME Steady PROVE Spec => FirstAnswerStays /\ NoOrderAfterAnswer
<1>1. ASSUME IInv, [Next]_vars, NEW k \in Keys, AnswerOf(k) # "none"
      PROVE  AnswerOf(k)' \in {AnswerOf(k), "none"} /\ placed'[k] <= placed[k]
  <2> DEFINE answers == [j \in Keys |-> AnswerOf(j)]
  <2>1. answers[k] = AnswerOf(k) /\ answers'[k] = AnswerOf(k)'
    OBVIOUS
  <2>2. placed \in [Keys -> 0..2]
    BY <1>1 DEF IInv, OwnerInv, TypeOK
  <2>3. [Once!Next]_(Once!onceVars)
    BY <1>1, OnceStep
  <2>4. CASE UNCHANGED Once!onceVars
    BY <2>1, <2>2, <2>4 DEF Once!onceVars
  <2>5. CASE Once!Next
    <3>1. ASSUME NEW j \in Keys, Once!Place(j)
          PROVE  AnswerOf(k)' = AnswerOf(k) /\ placed'[k] <= placed[k]
      <4>1. j # k /\ answers' = answers /\ placed' = [placed EXCEPT ![j] = 1]
        BY <1>1, <2>1, <3>1 DEF Once!Place
      <4> QED
        BY <2>1, <2>2, <4>1
    <3>3. ASSUME NEW j \in Keys, Once!Answer(j)
          PROVE  AnswerOf(k)' = AnswerOf(k) /\ placed'[k] <= placed[k]
      <4>1. /\ j # k /\ placed' = placed
            /\ \/ answers' = [answers EXCEPT ![j] = "ok"]
               \/ answers' = [answers EXCEPT ![j] = "unknown_outcome"]
        BY <1>1, <2>1, <3>3 DEF Once!Answer
      <4>2. answers'[k] = answers[k]
        BY <4>1
      <4> QED
        BY <2>1, <2>2, <4>1, <4>2
    <3>2. CASE \E S \in SUBSET Keys : Once!Forget(S)
      BY <2>1, <2>2, <3>2 DEF Once!Forget
    <3> QED
      BY <2>5, <3>1, <3>2, <3>3 DEF Once!Next
  <2> QED
    BY <2>3, <2>4, <2>5
<1>2. IInv /\ [Next]_vars =>
        /\ [\A k \in Keys : AnswerOf(k) # "none" => AnswerOf(k)' \in {AnswerOf(k), "none"}]_vars
        /\ [\A k \in Keys : AnswerOf(k) # "none" => placed'[k] <= placed[k]]_vars
  BY <1>1
<1> QED
  BY <1>2, Invariance, PTL DEF Spec, FirstAnswerStays, NoOrderAfterAnswer
====
