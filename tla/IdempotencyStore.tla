-------------------------- MODULE IdempotencyStore --------------------------
(***************************************************************************)
(* app/idempotency.py: the TTL cache that reserves a client key before the *)
(* order is sent.  Each operation runs under the store's lock, so it is a  *)
(* function of the entries; the modules that use the store keep the        *)
(* entries in a variable.  created_at is kept as the time left until the   *)
(* entry is TTL old.                                                       *)
(***************************************************************************)
EXTENDS Integers

CONSTANTS
    Keys,       \* client order ids
    Intents,    \* order parameters, as request_fingerprint tells them apart
    TTL,        \* MT5_IDEMPOTENCY_TTL
    Absent      \* no entry

ASSUME TTLAssumption == TTL \in Nat \ {0}

\* What complete() stores: a success payload or an unknown outcome.
Responses == {"ok", "unknown_outcome"}

\* "by" is the intent of the request that stored the response.
Entry ==
    [fingerprint : Intents, left : 0..TTL, response : Responses \cup {"pending"}, by : Intents]

ASSUME AbsentAssumption == Absent \notin Entry

Present(entries, k) == entries[k] # Absent

IsPending(entries, k) == Present(entries, k) /\ entries[k].response = "pending"

Expired(entries, k) == Present(entries, k) /\ entries[k].left = 0

\* _purge_expired, called by begin; it does not spare reservations in flight.
Purged(entries) == [k \in Keys |-> IF Expired(entries, k) THEN Absent ELSE entries[k]]

Reserved(entries, k, f) ==
    [entries EXCEPT ![k] = [fingerprint |-> f, left |-> TTL, response |-> "pending", by |-> f]]

\* What begin decides on the purged entries.
DecisionIgnoringPending(entries, k, f) ==
    IF ~Present(entries, k) \/ IsPending(entries, k) THEN "new"
    ELSE IF entries[k].fingerprint # f THEN "conflict" ELSE "replay"
Decision(entries, k, f) ==
    IF ~Present(entries, k) THEN "new"
    ELSE IF entries[k].fingerprint # f THEN "conflict"
    ELSE IF IsPending(entries, k) THEN "in_progress" ELSE "replay"

\* complete(): records the response unless the entry is gone or another intent's.
CompletedAnyIntent(entries, k, f, r) ==
    IF Present(entries, k)
    THEN [entries EXCEPT ![k].response = r, ![k].by = f] ELSE entries
Completed(entries, k, f, r) ==
    IF Present(entries, k) /\ entries[k].fingerprint = f
    THEN [entries EXCEPT ![k].response = r, ![k].by = f] ELSE entries

\* abandon(): drops the reservation while it has no response.
AbandonedAnyIntent(entries, k, f) ==
    IF IsPending(entries, k) THEN [entries EXCEPT ![k] = Absent] ELSE entries
AbandonedNever(entries, k, f) == entries
Abandoned(entries, k, f) ==
    IF IsPending(entries, k) /\ entries[k].fingerprint = f
    THEN [entries EXCEPT ![k] = Absent] ELSE entries

\* Time passes for every entry.
Aged(entries) ==
    [k \in Keys |-> IF Present(entries, k) /\ entries[k].left > 0
                    THEN [entries[k] EXCEPT !.left = @ - 1] ELSE entries[k]]
=============================================================================
