----------------------------- MODULE ServerTime -----------------------------
(***************************************************************************)
(* The broker clock offset of app/time_utils.py: derived from live quotes  *)
(* by the refresher thread, by a reconnecting request thread and by GTD    *)
(* orders (app/order_time.py), and used to convert the expiration of GTD   *)
(* orders.  It is kept in five module globals without a lock, so every     *)
(* access of one is a step.  The name of the quoting symbol is left out;   *)
(* so is an explicit zone or offset, which bypasses all of this.           *)
(*                                                                         *)
(* Age is counted in ticks, of which a derivation or a conversion takes    *)
(* none.                                                                   *)
(***************************************************************************)
EXTENDS Integers

CONSTANTS
    Refreshers,     \* threads that run _refresh_server_offset
    Orders,         \* threads that run apply_expiration for a GTD order
    Unknown,        \* None
    Hour,           \* _HOUR
    Tolerance,      \* _FRESHNESS_TOLERANCE_SECONDS
    MinOffset,      \* _MIN_OFFSET_SECONDS
    MaxOffset,      \* _MAX_OFFSET_SECONDS
    MaxAge,         \* MT5_TIME_MAX_OFFSET_AGE_SECONDS
    Confirmations,  \* MT5_TIME_OFFSET_CONFIRMATIONS, at least 1
    ServerOffsets,  \* offsets the server's clock may have, DST and not
    Lags            \* bound: how late a quote that moved may be

ASSUME ClockAssumption ==
    /\ Hour \in Nat \ {0}
    /\ Tolerance \in Nat /\ 2 * Tolerance < Hour
    /\ MinOffset \in Int /\ MaxOffset \in Int
    /\ MaxAge \in Nat
    /\ Confirmations \in Nat \ {0}
    /\ Lags \subseteq Int
    /\ Unknown \notin Int
    /\ Refreshers \cap Orders = {}

ASSUME OffsetAssumption ==
    ServerOffsets \subseteq {o \in MinOffset..MaxOffset : o % Hour = 0}

VARIABLES
    offset,         \* _derived_offset_seconds
    age,            \* time since _derived_at
    pending,        \* _pending_offset_seconds
    count,          \* _pending_count
    pc,             \* where each thread is
    got,            \* the offset its quote implies
    loaded,         \* the count it loaded in order to increment it
    truth,          \* the offset of the server's clock
    feed,           \* what quotes that move are worth
    lastRead,       \* time since a quote implied an offset
    streak,         \* the offset the last quotes implied, and how many did
    overlapped      \* two derivations have overlapped

cache == <<offset, age>>
candidate == <<pending, count>>
world == <<truth, feed>>
history == <<lastRead, streak, overlapped>>
vars == <<cache, candidate, pc, got, loaded, world, history>>

Threads == Refreshers \cup Orders

Offsets == {o \in MinOffset..MaxOffset : o % Hour = 0}

\* Bound: readings are counted, and time told, up to one more than matters.
CountCap == Confirmations + 1
Ages == 0..(MaxAge + 1)

Storing == {"set_pending", "set_count", "set_offset", "set_at"}
Deriving == {"compare", "match", "load", "increment", "replace", "restart", "check"} \cup Storing

TypeOK ==
    /\ offset \in Offsets \cup {Unknown}
    /\ age \in Ages \cup {Unknown}
    /\ pending \in Offsets \cup {Unknown}
    /\ count \in 0..CountCap
    /\ pc \in [Threads -> Deriving \cup {"idle", "quote", "age", "use"}]
    /\ got \in [Threads -> Offsets \cup {Unknown}]
    /\ loaded \in [Threads -> 0..CountCap]
    /\ truth \in ServerOffsets
    /\ feed \in {"live", "lagging", "frozen"}
    /\ lastRead \in [Offsets -> Ages]
    /\ streak \in [of : Offsets \cup {Unknown}, n : 0..Confirmations]
    /\ overlapped \in BOOLEAN

Init ==
    /\ offset = Unknown
    /\ age = Unknown
    /\ pending = Unknown
    /\ count = 0
    /\ pc = [p \in Threads |-> "idle"]
    /\ got = [p \in Threads |-> Unknown]
    /\ loaded = [p \in Threads |-> 0]
    /\ truth \in ServerOffsets
    /\ feed \in {"live", "lagging", "frozen"}
    /\ lastRead = [o \in Offsets |-> MaxAge + 1]
    /\ streak = [of |-> Unknown, n |-> 0]
    /\ overlapped = FALSE

Goto(p, label) == pc' = [pc EXCEPT ![p] = label]

UpTo(n, cap) == IF n < cap THEN n ELSE cap

-----------------------------------------------------------------------------
(* derive_offset_from_server_epoch.                                        *)

\* The whole hours nearest to delta.  (Python rounds halves to even; halves
\* are never within the tolerance.)
Rounded(delta) == Hour * ((2 * delta + Hour) \div (2 * Hour))

Near(a, b) == a - b <= Tolerance /\ b - a <= Tolerance

DeriveOffset(delta) ==
    IF Near(delta, Rounded(delta)) /\ Rounded(delta) \in MinOffset..MaxOffset
    THEN Rounded(delta) ELSE Unknown

-----------------------------------------------------------------------------
(* derive_from_tick and set_derived_offset.                                *)

\* What follows a derivation: a GTD order goes on to convert.
After(p) == IF p \in Orders THEN "age" ELSE "idle"

\* Time is a quote that moved, and now - the end of the wait for it.
ReadQuote(p) ==
    /\ pc[p] = IF p \in Orders THEN "quote" ELSE "idle"
    /\ feed # "frozen"
    /\ \E lag \in Lags :
          /\ feed = "live" => Near(lag, 0)
          /\ LET o == DeriveOffset(truth - lag)
             IN  \/ /\ o = Unknown
                    /\ Goto(p, After(p))
                    /\ UNCHANGED <<got, history>>
                 \/ /\ o # Unknown
                    /\ got' = [got EXCEPT ![p] = o]
                    /\ Goto(p, "compare")
                    /\ lastRead' = [lastRead EXCEPT ![o] = 0]
                    /\ streak' = [of |-> o, n |-> IF streak.of = o
                                    THEN UpTo(streak.n + 1, Confirmations) ELSE 1]
                    /\ overlapped' = (overlapped \/ \E q \in Threads : pc[q] \in Deriving)
    /\ UNCHANGED <<cache, candidate, loaded, world>>

\* The first reading, and one that agrees, are stored at once.
Compare(p) ==
    /\ pc[p] = "compare"
    /\ Goto(p, IF offset \in {Unknown, got[p]} THEN "set_pending" ELSE "match")
    /\ UNCHANGED <<cache, candidate, got, loaded, world, history>>

Match(p) ==
    /\ pc[p] = "match"
    /\ Goto(p, IF pending = got[p] THEN "load" ELSE "replace")
    /\ UNCHANGED <<cache, candidate, got, loaded, world, history>>

Load(p) ==
    /\ pc[p] = "load"
    /\ loaded' = [loaded EXCEPT ![p] = count]
    /\ Goto(p, "increment")
    /\ UNCHANGED <<cache, candidate, got, world, history>>

IncrementNever(p) ==
    /\ pc[p] = "increment"
    /\ count' = 1
    /\ loaded' = [loaded EXCEPT ![p] = 0]
    /\ Goto(p, "check")
    /\ UNCHANGED <<cache, pending, got, world, history>>
Increment(p) ==
    /\ pc[p] = "increment"
    /\ count' = UpTo(loaded[p] + 1, CountCap)
    /\ loaded' = [loaded EXCEPT ![p] = 0]
    /\ Goto(p, "check")
    /\ UNCHANGED <<cache, pending, got, world, history>>

Replace(p) ==
    /\ pc[p] = "replace"
    /\ pending' = got[p]
    /\ Goto(p, "restart")
    /\ UNCHANGED <<cache, count, got, loaded, world, history>>

Restart(p) ==
    /\ pc[p] = "restart"
    /\ count' = 1
    /\ Goto(p, "check")
    /\ UNCHANGED <<cache, pending, got, loaded, world, history>>

Check(p) ==
    /\ pc[p] = "check"
    /\ Goto(p, IF count >= Confirmations THEN "set_pending" ELSE After(p))
    /\ got' = [got EXCEPT ![p] = IF count >= Confirmations THEN @ ELSE Unknown]
    /\ UNCHANGED <<cache, candidate, loaded, world, history>>

\* set_derived_offset drops the candidate first.
SetPendingKept(p) ==
    /\ pc[p] = "set_pending"
    /\ Goto(p, "set_offset")
    /\ UNCHANGED <<cache, candidate, got, loaded, world, history>>
SetPending(p) ==
    /\ pc[p] = "set_pending"
    /\ pending' = Unknown
    /\ Goto(p, "set_count")
    /\ UNCHANGED <<cache, count, got, loaded, world, history>>

SetCount(p) ==
    /\ pc[p] = "set_count"
    /\ count' = 0
    /\ Goto(p, "set_offset")
    /\ UNCHANGED <<cache, pending, got, loaded, world, history>>

\* The offset is stored before its time: between the two it has an older one.
SetOffset(p) ==
    /\ pc[p] = "set_offset"
    /\ offset' = got[p]
    /\ Goto(p, "set_at")
    /\ UNCHANGED <<age, candidate, got, loaded, world, history>>

SetAt(p) ==
    /\ pc[p] = "set_at"
    /\ age' = 0
    /\ got' = [got EXCEPT ![p] = Unknown]
    /\ Goto(p, After(p))
    /\ UNCHANGED <<offset, candidate, loaded, world, history>>

-----------------------------------------------------------------------------
(* apply_expiration.                                                       *)

TooOldNever == age = Unknown
TooOld == age = Unknown \/ age > MaxAge

\* offset_usable_for_gtd decides whether the order derives for itself.
BeginOrder(p) ==
    /\ pc[p] = "idle"
    /\ Goto(p, IF offset = Unknown \/ TooOld THEN "quote" ELSE "age")
    /\ UNCHANGED <<cache, candidate, got, loaded, world, history>>

\* No quote moved in the attempts it had.
NoQuote(p) ==
    /\ pc[p] = "quote"
    /\ Goto(p, "age")
    /\ UNCHANGED <<cache, candidate, got, loaded, world, history>>

\* utc_epoch_to_server looks at the age first and refuses, or loads the
\* offset for the conversion.
CheckAge(p) ==
    /\ pc[p] = "age"
    /\ Goto(p, IF offset = Unknown \/ TooOld THEN "idle" ELSE "use")
    /\ UNCHANGED <<cache, candidate, got, loaded, world, history>>

UseOffset(p) ==
    /\ pc[p] = "use"
    /\ Goto(p, "idle")
    /\ UNCHANGED <<cache, candidate, got, loaded, world, history>>

-----------------------------------------------------------------------------
(* Time, the server's clock and the quotes.                                *)

Older(a) == UpTo(a + 1, MaxAge + 1)

Tick ==
    /\ \A p \in Threads : pc[p] \in {"idle", "quote"}
    /\ age' = IF age = Unknown THEN Unknown ELSE Older(age)
    /\ lastRead' = [o \in Offsets |-> Older(lastRead[o])]
    /\ UNCHANGED <<offset, candidate, pc, got, loaded, world, streak, overlapped>>

ClockSwitches ==
    /\ truth' \in ServerOffsets \ {truth}
    /\ UNCHANGED <<cache, candidate, pc, got, loaded, feed, history>>

\* A market opens, closes, or replays quotes late.
FeedChanges ==
    /\ feed' \in {"live", "lagging", "frozen"} \ {feed}
    /\ UNCHANGED <<cache, candidate, pc, got, loaded, truth, history>>

-----------------------------------------------------------------------------
Store(p) == SetPending(p) \/ SetCount(p) \/ SetOffset(p) \/ SetAt(p)

Consider(p) ==
    Compare(p) \/ Match(p) \/ Load(p) \/ Increment(p) \/ Replace(p) \/ Restart(p) \/ Check(p)

Convert(p) == NoQuote(p) \/ CheckAge(p) \/ UseOffset(p)

Next ==
    \/ \E p \in Threads : ReadQuote(p) \/ Consider(p) \/ Store(p)
    \/ \E p \in Orders : BeginOrder(p) \/ Convert(p)
    \/ Tick
    \/ ClockSwitches
    \/ FeedChanges

Spec == Init /\ [][Next]_vars

\* The refresher keeps reading, and what has begun runs on.
FairSpec ==
    /\ Spec
    /\ \A p \in Refreshers : WF_vars(ReadQuote(p))
    /\ \A p \in Threads : WF_vars(Consider(p) \/ Store(p))
    /\ \A p \in Orders : WF_vars(Convert(p))

-----------------------------------------------------------------------------
(* Properties.                                                             *)

\* A GTD order is converted with an offset that a quote implied within the
\* maximal age, in spite of the unlocked stores: the offset is stored before
\* its time and loaded after it.
ConvertedWithinAge ==
    [][\A p \in Orders : UseOffset(p) => lastRead[offset] <= MaxAge]_vars

\* Unless derivations overlap, a known offset is replaced only by one that
\* the last Confirmations readings in a row imply: a one-off reading of a
\* lagging feed never gets in.
ReplacedWhenConfirmed ==
    [][~overlapped => \A p \in Threads :
        SetOffset(p) /\ offset \notin {Unknown, got[p]} =>
            streak = [of |-> got[p], n |-> Confirmations]]_vars

\* Once the server's clock has switched and quotes are live again, the cache
\* follows and stays, whatever slow readings were still being stored.
FollowsTheServer ==
    \A o \in ServerOffsets :
        <>[](truth = o /\ feed = "live") => <>[](offset = o)
=============================================================================
