--------------------------- MODULE ServerTimeProofs ---------------------------
(***************************************************************************)
(* Safety of the unlocked broker clock offset, for any number of threads   *)
(* and any settings.                                                       *)
(***************************************************************************)
EXTENDS ServerTime, TLAPS

-----------------------------------------------------------------------------
(* The arithmetic of derive_offset_from_server_epoch.                      *)

\* A whole number of hours that is less than an hour either way is none.
LEMMA NoHours ==
    ASSUME NEW n \in Int, Hour * n < Hour, Hour * (-n) < Hour
    PROVE  n = 0
<1>1. Hour \in Int /\ Hour > 0
  BY ClockAssumption
<1>2. ASSUME NEW m \in Int, m >= 1 PROVE Hour * m >= Hour
  <2>1. m - 1 >= 0 /\ Hour * m = Hour * (m - 1) + Hour
    BY <1>1, <1>2
  <2>2. Hour * (m - 1) >= 0
    BY <1>1, <2>1
  <2> QED
    BY <1>1, <2>1, <2>2
<1>3. ~(n >= 1)
  BY <1>1, <1>2
<1>4. ~(-n >= 1)
  BY <1>1, <1>2
<1> QED
  BY <1>3, <1>4

\* A multiple of an hour leaves no remainder.
LEMMA WholeHours ==
    ASSUME NEW k \in Int
    PROVE  /\ Hour * k \in Int
           /\ (Hour * k) % Hour = 0
<1>1. Hour \in Int /\ Hour > 0
  BY ClockAssumption
<1> DEFINE q == (Hour * k) \div Hour
           r == (Hour * k) % Hour
<1>2. q \in Int /\ r \in 0..(Hour - 1) /\ Hour * k = Hour * q + r
  BY <1>1
<1>3. Hour * (k - q) = r
  BY <1>1, <1>2
<1>4. Hour * (-(k - q)) = -r
  BY <1>1, <1>2, <1>3
<1>5. k - q = 0
  BY <1>1, <1>2, <1>3, <1>4, NoHours
<1> QED
  BY <1>1, <1>2, <1>3, <1>5

\* A quote's time implies a whole-hour offset of the band, or nothing.
LEMMA DerivedTyped ==
    ASSUME NEW delta \in Int
    PROVE  DeriveOffset(delta) \in Offsets \cup {Unknown}
<1> DEFINE k == (2 * delta + Hour) \div (2 * Hour)
<1>1. k \in Int
  BY ClockAssumption
<1>2. Rounded(delta) \in Int /\ Rounded(delta) % Hour = 0
  BY <1>1, WholeHours DEF Rounded
<1> QED
  BY <1>2 DEF DeriveOffset, Offsets

\* A live quote, late or early by no more than the tolerance, implies the
\* offset of the server's clock.
THEOREM LiveQuoteExact ==
    ASSUME NEW o \in ServerOffsets, NEW lag \in Int, Near(lag, 0)
    PROVE  DeriveOffset(o - lag) = o
<1>1. Hour \in Int /\ Hour > 0 /\ Tolerance \in Nat /\ 2 * Tolerance < Hour
  BY ClockAssumption
<1>2. o \in Int /\ o \in MinOffset..MaxOffset /\ o % Hour = 0
  BY OffsetAssumption, ClockAssumption
<1> DEFINE h == o \div Hour
           k == (2 * (o - lag) + Hour) \div (2 * Hour)
<1>3. h \in Int /\ o = Hour * h
  BY <1>1, <1>2
<1>4. /\ k \in Int
      /\ (2 * Hour) * k <= 2 * (o - lag) + Hour
      /\ 2 * (o - lag) + Hour < (2 * Hour) * k + 2 * Hour
  BY <1>1, <1>2
<1>5. lag <= Tolerance /\ -lag <= Tolerance
  BY <1>1 DEF Near
<1> DEFINE n == h - k
<1>6. n \in Int /\ Hour * n < Hour /\ Hour * (-n) < Hour
  <2>1. /\ Hour * n = Hour * h - Hour * k
        /\ Hour * (-n) = Hour * k - Hour * h
        /\ (2 * Hour) * k = 2 * (Hour * k)
    BY <1>1, <1>3, <1>4
  <2>2. Hour * h \in Int /\ Hour * k \in Int
    BY <1>1, <1>3, <1>4
  <2> HIDE DEF h, k
  <2>3. 2 * (o - lag - Hour * k) < Hour /\ 2 * (Hour * k - (o - lag)) <= Hour
    BY <1>1, <1>2, <1>4, <2>1, <2>2
  <2> QED
    BY <1>1, <1>2, <1>3, <1>4, <1>5, <2>1, <2>2, <2>3
<1>7. k = h
  BY <1>3, <1>4, <1>6, NoHours
<1>8. Rounded(o - lag) = o
  BY <1>3, <1>7 DEF Rounded
<1>9. Near(o - lag, o)
  BY <1>1, <1>2, <1>5 DEF Near
<1> QED
  BY <1>2, <1>8, <1>9 DEF DeriveOffset
-----------------------------------------------------------------------------
(* The inductive invariant.                                                *)

\* While a thread derives, no time passes: what it read is fresh.
ReadingsFresh ==
    \A p \in Threads : pc[p] \in Deriving => got[p] \in Offsets /\ lastRead[got[p]] = 0

\* An offset whose time is being stored is fresh, whoever stored it.
JustStored ==
    \A p \in Threads : pc[p] = "set_at" => offset \in Offsets /\ lastRead[offset] = 0

\* The recorded age of the offset never understates it.
AgeHonest == offset # Unknown /\ age # Unknown => lastRead[offset] <= age

\* An order that passed the check of the age may use whatever the offset
\* becomes until it loads it.
UsableOffset ==
    \A p \in Orders : pc[p] = "use" => offset \in Offsets /\ lastRead[offset] <= MaxAge

IInv == TypeOK /\ ReadingsFresh /\ JustStored /\ AgeHonest /\ UsableOffset

LEMMA InitIInv == Init => IInv
<1> SUFFICES ASSUME Init PROVE IInv
  OBVIOUS
<1> USE ClockAssumption DEF Init
<1>1. TypeOK
  <2>1. 0 \in 0..CountCap /\ 0 \in 0..Confirmations /\ MaxAge + 1 \in Ages
    BY DEF CountCap, Ages
  <2>2. pc \in [Threads -> Deriving \cup {"idle", "quote", "age", "use"}]
    OBVIOUS
  <2>3. streak \in [of : Offsets \cup {Unknown}, n : 0..Confirmations]
    BY <2>1
  <2> QED
    BY <2>1, <2>2, <2>3 DEF TypeOK
<1>2. \A p \in Threads : pc[p] = "idle"
  OBVIOUS
<1> QED
  BY <1>1, <1>2 DEF IInv, ReadingsFresh, JustStored, AgeHonest, UsableOffset, Deriving, Storing,
     Threads

\* Counting up to a cap stays below it.
LEMMA UpToTyped ==
    ASSUME NEW n \in Nat, NEW cap \in Nat
    PROVE  UpTo(n, cap) \in 0..cap
  BY DEF UpTo

\* Getting older keeps the order of ages.
LEMMA OlderTyped ==
    ASSUME NEW a \in Ages
    PROVE  /\ Older(a) \in Ages
           /\ \A b \in Ages : a <= b => Older(a) <= Older(b)
  BY ClockAssumption DEF Older, UpTo, Ages

LEMMA ReadQuoteStep ==
    ASSUME IInv, NEW p \in Threads, ReadQuote(p)
    PROVE  IInv'
<1> USE ClockAssumption DEF IInv, TypeOK
<1>1. PICK lag \in Lags : LET o == DeriveOffset(truth - lag)
             IN  \/ /\ o = Unknown
                    /\ Goto(p, After(p))
                    /\ UNCHANGED <<got, history>>
                 \/ /\ o # Unknown
                    /\ got' = [got EXCEPT ![p] = o]
                    /\ Goto(p, "compare")
                    /\ lastRead' = [lastRead EXCEPT ![o] = 0]
                    /\ streak' = [of |-> o, n |-> IF streak.of = o
                                    THEN UpTo(streak.n + 1, Confirmations) ELSE 1]
                    /\ overlapped' = (overlapped \/ \E q \in Threads : pc[q] \in Deriving)
  BY DEF ReadQuote
<1> DEFINE o == DeriveOffset(truth - lag)
<1>2. o \in Offsets \cup {Unknown}
  BY DerivedTyped, OffsetAssumption
<1>3. UNCHANGED <<offset, age, pending, count, loaded, truth, feed>>
  BY DEF ReadQuote, cache, candidate, world
<1>4. CASE o = Unknown
  <2>1. Goto(p, After(p)) /\ UNCHANGED <<got, lastRead, streak, overlapped>>
    BY <1>1, <1>4 DEF history
  <2>2. After(p) = "age" \/ After(p) = "idle"
    BY DEF After
  <2> QED
    BY <1>3, <2>1, <2>2 DEF Goto, ReadingsFresh, JustStored, AgeHonest, UsableOffset, Deriving, Storing,
       Threads
<1>5. CASE o # Unknown
  <2>1. /\ o \in Offsets
        /\ got' = [got EXCEPT ![p] = o]
        /\ pc' = [pc EXCEPT ![p] = "compare"]
        /\ lastRead' = [lastRead EXCEPT ![o] = 0]
    BY <1>1, <1>2, <1>5 DEF Goto
  <2>2. streak' \in [of : Offsets \cup {Unknown}, n : 0..Confirmations]
    <3> streak.n + 1 \in Nat /\ Confirmations \in Nat
      OBVIOUS
    <3>1. UpTo(streak.n + 1, Confirmations) \in 0..Confirmations
      BY UpToTyped
    <3>2. 1 \in 0..Confirmations
      OBVIOUS
    <3> QED
      BY <1>1, <1>5, <2>1, <3>1, <3>2
  <2>3. overlapped' \in BOOLEAN
    BY <1>1, <1>5
  <2>4. TypeOK'
    BY <1>3, <2>1, <2>2, <2>3 DEF Deriving, Ages
  <2>5. \A q \in Offsets : lastRead'[q] = 0 \/ lastRead'[q] = lastRead[q]
    BY <2>1
  <2>6. ReadingsFresh' /\ JustStored'
    BY <1>3, <2>1, <2>5 DEF ReadingsFresh, JustStored
  <2>7. AgeHonest' /\ UsableOffset'
    BY <1>3, <2>1, <2>5 DEF AgeHonest, UsableOffset, Threads, Ages
  <2> QED
    BY <2>4, <2>6, <2>7
<1> QED
  BY <1>4, <1>5

LEMMA ConsiderStep ==
    ASSUME IInv, NEW p \in Threads, Consider(p)
    PROVE  IInv'
<1> USE ClockAssumption DEF IInv, TypeOK, Goto, ReadingsFresh, JustStored, AgeHonest, UsableOffset,
      Deriving, Storing, cache, candidate, world, history, Threads
<1>1. CASE Compare(p)
  BY <1>1 DEF Compare
<1>2. CASE Match(p)
  BY <1>2 DEF Match
<1>3. CASE Load(p)
  BY <1>3 DEF Load
<1>4. CASE Increment(p)
  <2>1. loaded[p] + 1 \in Nat /\ CountCap \in Nat
    BY DEF CountCap
  <2>2. UpTo(loaded[p] + 1, CountCap) \in 0..CountCap
    BY <2>1, UpToTyped
  <2> QED
    BY <1>4, <2>2 DEF Increment, CountCap
<1>5. CASE Replace(p)
  BY <1>5 DEF Replace
<1>6. CASE Restart(p)
  BY <1>6 DEF Restart, CountCap
<1>7. CASE Check(p)
  BY <1>7 DEF Check, After
<1> QED
  BY <1>1, <1>2, <1>3, <1>4, <1>5, <1>6, <1>7 DEF Consider

LEMMA StoreStep ==
    ASSUME IInv, NEW p \in Threads, Store(p)
    PROVE  IInv'
<1> USE ClockAssumption DEF IInv, TypeOK, Goto, ReadingsFresh, JustStored, AgeHonest, UsableOffset,
      Deriving, Storing, cache, candidate, world, history, Threads, Ages
<1>1. CASE SetPending(p)
  BY <1>1 DEF SetPending
<1>2. CASE SetCount(p)
  BY <1>2 DEF SetCount, CountCap
<1>3. CASE SetOffset(p)
  BY <1>3 DEF SetOffset
<1>4. CASE SetAt(p)
  BY <1>4 DEF SetAt, After
<1> QED
  BY <1>1, <1>2, <1>3, <1>4 DEF Store

LEMMA OrderStep ==
    ASSUME IInv, NEW p \in Orders, BeginOrder(p) \/ Convert(p)
    PROVE  IInv'
<1> USE ClockAssumption DEF IInv, TypeOK, Goto, ReadingsFresh, JustStored, AgeHonest, UsableOffset,
      Deriving, Storing, cache, candidate, world, history, Threads, Ages
<1>1. CASE BeginOrder(p)
  BY <1>1 DEF BeginOrder
<1>2. CASE NoQuote(p)
  BY <1>2 DEF NoQuote
<1>3. CASE CheckAge(p)
  BY <1>3 DEF CheckAge, TooOld
<1>4. CASE UseOffset(p)
  BY <1>4 DEF UseOffset
<1> QED
  BY <1>1, <1>2, <1>3, <1>4 DEF Convert

LEMMA TickStep == IInv /\ Tick => IInv'
<1> SUFFICES ASSUME IInv, Tick PROVE IInv'
  OBVIOUS
<1> USE ClockAssumption DEF IInv, TypeOK
<1>1. UNCHANGED <<offset, pending, count, pc, got, loaded, truth, feed, streak, overlapped>>
  BY DEF Tick, candidate, world
<1>2. lastRead' = [o \in Offsets |-> Older(lastRead[o])]
  BY DEF Tick
<1>3. age' \in Ages \cup {Unknown} /\ lastRead' \in [Offsets -> Ages]
  BY <1>2, OlderTyped DEF Tick
<1>4. TypeOK'
  BY <1>1, <1>3
<1>5. \A p \in Threads : pc[p] \in {"idle", "quote"}
  BY DEF Tick
<1>6. ReadingsFresh' /\ JustStored' /\ UsableOffset'
  BY <1>1, <1>5 DEF ReadingsFresh, JustStored, UsableOffset, Deriving, Storing, Threads
<1>7. AgeHonest'
  <2> SUFFICES ASSUME offset # Unknown, age' # Unknown PROVE lastRead'[offset] <= age'
    BY <1>1 DEF AgeHonest
  <2>1. age # Unknown /\ age' = Older(age)
    BY DEF Tick
  <2>2. lastRead[offset] <= age /\ offset \in Offsets
    BY <2>1 DEF AgeHonest
  <2> QED
    BY <1>2, <2>1, <2>2, OlderTyped
<1> QED
  BY <1>4, <1>6, <1>7

LEMMA WorldStep == IInv /\ (ClockSwitches \/ FeedChanges \/ UNCHANGED vars) => IInv'
  BY DEF IInv, TypeOK, ReadingsFresh, JustStored, AgeHonest, UsableOffset, ClockSwitches, FeedChanges,
     vars, cache, candidate, world, history

-----------------------------------------------------------------------------
(* Theorems.                                                               *)

\* What every state of every behaviour satisfies.
THEOREM Invariance == Spec => []IInv
<1>1. IInv /\ [Next]_vars => IInv'
  BY ReadQuoteStep, ConsiderStep, StoreStep, OrderStep, TickStep, WorldStep DEF Next
<1> QED
  BY <1>1, InitIInv, PTL DEF Spec

\* Every variable keeps its type; what quotes imply are whole hours of the
\* plausible band.
THEOREM TypeCorrect == Spec => []TypeOK
  BY Invariance, PTL DEF IInv

\* No GTD order is converted with an offset past the maximal age, in any
\* interleaving of the unlocked stores and loads.
THEOREM NoOldOffset == Spec => ConvertedWithinAge
<1>1. IInv /\ [Next]_vars =>
        [\A p \in Orders : UseOffset(p) => lastRead[offset] <= MaxAge]_vars
  BY DEF IInv, UsableOffset, UseOffset
<1> QED
  BY <1>1, Invariance, PTL DEF Spec, ConvertedWithinAge

-----------------------------------------------------------------------------
(* Confirmation.                                                           *)

\* So many readings in a row imply the last offset read, as far as counted.
Backed(n) == n <= streak.n \/ streak.n = Confirmations

\* Between derivations the candidate is the last offset read.
CandidateBacked ==
    (\A p \in Threads : pc[p] \notin Deriving) =>
        (pending # Unknown => streak.of = pending /\ Backed(count))

\* What the one thread that derives knows of the candidate.
DerivationBacked(p) ==
    /\ pc[p] \in Deriving => streak.of = got[p] /\ streak.n >= 1
    /\ pc[p] \in {"compare", "match"} => (pending = got[p] => Backed(count + 1))
    /\ pc[p] = "load" => pending = got[p] /\ Backed(count + 1)
    /\ pc[p] = "increment" => pending = got[p] /\ Backed(loaded[p] + 1)
    /\ pc[p] = "restart" => pending = got[p]
    /\ pc[p] = "check" => pending = got[p] /\ Backed(count)
    /\ pc[p] \in {"set_pending", "set_count", "set_offset"} =>
            offset \in {Unknown, got[p]} \/ streak.n = Confirmations
    /\ pc[p] \in {"set_count", "set_offset", "set_at"} => pending = Unknown

Alone == \A p, q \in Threads : pc[p] \in Deriving /\ pc[q] \in Deriving => p = q

Confirmed ==
    ~overlapped => Alone /\ CandidateBacked /\ \A p \in Threads : DerivationBacked(p)

LEMMA InitConfirmed == Init => Confirmed
<1> SUFFICES ASSUME Init PROVE Confirmed
  OBVIOUS
<1>1. \A p \in Threads : pc[p] = "idle"
  BY DEF Init
<1>2. pending = Unknown
  BY DEF Init
<1> QED
  BY <1>1, <1>2 DEF Confirmed, Alone, CandidateBacked, DerivationBacked, Deriving, Storing

LEMMA ReadQuoteConfirmed ==
    ASSUME IInv, Confirmed, NEW p \in Threads, ReadQuote(p)
    PROVE  Confirmed'
<1> SUFFICES ASSUME ~overlapped' PROVE (Alone /\ CandidateBacked /\ \A q \in Threads : DerivationBacked(q))'
  BY DEF Confirmed
<1> USE ClockAssumption DEF IInv, TypeOK
<1>1. UNCHANGED <<offset, pending, count, loaded>> /\ pc[p] \notin Deriving
  BY DEF ReadQuote, cache, candidate, Deriving, Storing
<1> DEFINE Outcome(o) ==
          \/ /\ pc' = [pc EXCEPT ![p] = After(p)]
             /\ UNCHANGED <<got, streak, overlapped>>
          \/ /\ o # Unknown
             /\ got' = [got EXCEPT ![p] = o]
             /\ pc' = [pc EXCEPT ![p] = "compare"]
             /\ streak' = [of |-> o, n |-> IF streak.of = o
                              THEN UpTo(streak.n + 1, Confirmations) ELSE 1]
             /\ overlapped' = (overlapped \/ \E q \in Threads : pc[q] \in Deriving)
<1>2. \E lag \in Lags : Outcome(DeriveOffset(truth - lag))
  BY DEF ReadQuote, Goto, history
<1> SUFFICES ASSUME NEW o, Outcome(o)
             PROVE  (Alone /\ CandidateBacked /\ \A q \in Threads : DerivationBacked(q))'
  BY <1>2
<1>3. Alone /\ CandidateBacked /\ \A q \in Threads : DerivationBacked(q)
  BY DEF Confirmed
<1>4. CASE /\ pc' = [pc EXCEPT ![p] = After(p)]
           /\ UNCHANGED <<got, streak, overlapped>>
  <2>1. After(p) \notin Deriving
    BY DEF After, Deriving, Storing
  <2> QED
    BY <1>1, <1>3, <1>4, <2>1 DEF Alone, CandidateBacked, DerivationBacked, Backed, After
<1>5. CASE /\ o # Unknown
           /\ got' = [got EXCEPT ![p] = o]
           /\ pc' = [pc EXCEPT ![p] = "compare"]
           /\ streak' = [of |-> o, n |-> IF streak.of = o
                            THEN UpTo(streak.n + 1, Confirmations) ELSE 1]
           /\ overlapped' = (overlapped \/ \E q \in Threads : pc[q] \in Deriving)
  <2>1. \A q \in Threads : pc[q] \notin Deriving
    BY <1>5
  <2>2. \A q \in Threads : q # p => pc'[q] \notin Deriving
    BY <1>5, <2>1
  <2>3. pc'[p] = "compare" /\ got'[p] = o
    BY <1>5
  <2>4. streak'.of = o /\ streak'.n \in Nat /\ streak'.n >= 1
    BY <1>5 DEF UpTo
  <2>5. pending = o => Backed(count + 1)'
    <3> SUFFICES ASSUME pending = o PROVE Backed(count + 1)'
      OBVIOUS
    <3>1. streak.of = o /\ Backed(count)
      BY <1>3, <1>5, <2>1 DEF CandidateBacked
    <3>2. streak'.n = UpTo(streak.n + 1, Confirmations)
      BY <1>5, <3>1
    <3> QED
      BY <1>1, <3>1, <3>2 DEF Backed, UpTo, CountCap
  <2>6. Alone'
    BY <2>2 DEF Alone
  <2>7. CandidateBacked'
    BY <2>3 DEF CandidateBacked, Deriving
  <2>8. ASSUME NEW q \in Threads PROVE DerivationBacked(q)'
    <3>1. CASE q = p
      BY <1>1, <2>3, <2>4, <2>5, <3>1 DEF DerivationBacked
    <3>2. CASE q # p
      BY <2>2, <3>2 DEF DerivationBacked, Deriving, Storing
    <3> QED
      BY <3>1, <3>2
  <2> QED
    BY <2>6, <2>7, <2>8
<1> QED
  BY <1>4, <1>5

\* A step inside the only derivation.
LEMMA DeriveConfirmed ==
    ASSUME IInv, Confirmed, NEW p \in Threads, Consider(p) \/ Store(p)
    PROVE  Confirmed'
<1>1. UNCHANGED <<streak, overlapped>> /\ pc[p] \in Deriving
  BY DEF Consider, Store, Compare, Match, Load, Increment, Replace, Restart, Check, SetPending, SetCount,
     SetOffset, SetAt, history, Deriving, Storing
<1> SUFFICES ASSUME ~overlapped
             PROVE  (Alone /\ CandidateBacked /\ \A q \in Threads : DerivationBacked(q))'
  BY <1>1 DEF Confirmed
<1> USE ClockAssumption DEF IInv, TypeOK
<1>2. DerivationBacked(p) /\ \A q \in Threads : q # p => pc[q] \notin Deriving
  BY <1>1 DEF Confirmed, Alone
<1>3. \A q \in Threads : q # p => pc'[q] = pc[q]
  BY DEF Consider, Store, Compare, Match, Load, Increment, Replace, Restart, Check, SetPending, SetCount,
     SetOffset, SetAt, Goto
<1>4. Alone' /\ \A q \in Threads : q # p => DerivationBacked(q)'
  BY <1>2, <1>3 DEF Alone, DerivationBacked, Deriving, Storing
<1>5. streak.n \in Nat /\ count \in Nat /\ loaded[p] \in Nat
  BY DEF CountCap
<1> DEFINE Good == CandidateBacked' /\ DerivationBacked(p)'
<1> USE <1>1, <1>2, <1>5 DEF Goto, CandidateBacked, DerivationBacked, Backed, cache, candidate, Deriving,
      Storing, After
<1>6. ASSUME Compare(p) PROVE Good
  BY <1>6 DEF Compare
<1>7. ASSUME Match(p) PROVE Good
  BY <1>7 DEF Match
<1>8. ASSUME Load(p) PROVE Good
  BY <1>8 DEF Load
<1>9. ASSUME Increment(p) PROVE Good
  BY <1>9 DEF Increment, UpTo, CountCap
<1>10. ASSUME Replace(p) PROVE Good
  BY <1>10 DEF Replace
<1>11. ASSUME Restart(p) PROVE Good
  BY <1>11 DEF Restart
<1>12. ASSUME Check(p) PROVE Good
  BY <1>12 DEF Check
<1>13. ASSUME Store(p) PROVE Good
  BY <1>13 DEF Store, SetPending, SetCount, SetOffset, SetAt
<1> QED
  BY <1>4, <1>6, <1>7, <1>8, <1>9, <1>10, <1>11, <1>12, <1>13 DEF Consider

LEMMA OtherConfirmed ==
    ASSUME IInv, Confirmed,
           (\E p \in Orders : BeginOrder(p) \/ Convert(p)) \/ Tick \/ ClockSwitches \/ FeedChanges
               \/ UNCHANGED vars
    PROVE  Confirmed'
<1> USE DEF IInv, TypeOK
<1>1. UNCHANGED <<offset, pending, count, got, loaded, streak, overlapped>>
  BY DEF BeginOrder, Convert, NoQuote, CheckAge, UseOffset, Tick, ClockSwitches, FeedChanges, vars, cache,
     candidate, history
<1>2. \A q \in Threads : pc'[q] = pc[q] \/ (pc[q] \notin Deriving /\ pc'[q] \notin Deriving)
  BY DEF BeginOrder, Convert, NoQuote, CheckAge, UseOffset, Tick, ClockSwitches, FeedChanges, vars, Goto,
     Deriving, Storing, Threads
<1>3. ASSUME NEW q \in Threads, DerivationBacked(q) PROVE DerivationBacked(q)'
  BY <1>1, <1>2, <1>3 DEF DerivationBacked, Backed, Deriving, Storing
<1> QED
  BY <1>1, <1>2, <1>3 DEF Confirmed, Alone, CandidateBacked, Backed

THEOREM ConfirmedAlways == Spec => []Confirmed
<1>1. IInv /\ Confirmed /\ [Next]_vars => Confirmed'
  BY ReadQuoteConfirmed, DeriveConfirmed, OtherConfirmed DEF Next
<1> QED
  BY <1>1, InitConfirmed, Invariance, PTL DEF Spec

\* As long as no two derivations overlap, a known offset gives way only to
\* one that so many readings in a row imply.
THEOREM OnlyConfirmedReplace == Spec => ReplacedWhenConfirmed
<1> DEFINE Good ==
      ~overlapped => \A p \in Threads :
        SetOffset(p) /\ offset \notin {Unknown, got[p]} =>
            streak = [of |-> got[p], n |-> Confirmations]
<1>1. IInv /\ Confirmed => Good
  BY DEF IInv, TypeOK, Confirmed, DerivationBacked, SetOffset, Deriving, Storing
<1>2. IInv /\ Confirmed /\ [Next]_vars => [Good]_vars
  BY <1>1
<1> QED
  BY <1>2, Invariance, ConfirmedAlways, PTL DEF Spec, ReplacedWhenConfirmed

-----------------------------------------------------------------------------
(* Quotes on time, and a clock that does not switch.                       *)

\* Every quote that moves is on time within the tolerance.
QuotesOnTime == \A lag \in Lags : Near(lag, 0)

\* Whatever a thread has derived, and whatever is stored, is the offset of
\* the server's clock.
OnlyTruth ==
    /\ offset \in {Unknown, truth}
    /\ \A p \in Threads : got[p] \in {Unknown, truth}

\* A GTD order that converts does so with the offset of the server's clock.
ConvertedTruly == \A p \in Orders : pc[p] = "use" => offset = truth

LEMMA TruthInit == Init => OnlyTruth
  BY DEF Init, OnlyTruth

LEMMA TruthStep ==
    ASSUME QuotesOnTime, IInv, OnlyTruth, [Next]_vars, truth' = truth
    PROVE  OnlyTruth'
<1> USE DEF OnlyTruth, Goto, cache, candidate, world, history
<1>1. truth \in ServerOffsets /\ got \in [Threads -> Offsets \cup {Unknown}]
  BY DEF IInv, TypeOK
<1>2. ASSUME NEW p \in Threads, ReadQuote(p) PROVE OnlyTruth'
  <2>1. PICK lag \in Lags :
           got' = got \/ got' = [got EXCEPT ![p] = DeriveOffset(truth - lag)]
    BY <1>2 DEF ReadQuote
  <2>2. lag \in Int /\ Near(lag, 0)
    BY ClockAssumption DEF QuotesOnTime
  <2>3. DeriveOffset(truth - lag) = truth
    BY <1>1, <2>2, LiveQuoteExact
  <2>4. offset' = offset
    BY <1>2 DEF ReadQuote
  <2> QED
    BY <1>1, <2>1, <2>3, <2>4
<1>3. ASSUME NEW p \in Threads, Consider(p) \/ Store(p) PROVE OnlyTruth'
  <2>1. CASE Consider(p)
    BY <1>1, <2>1 DEF Consider, Compare, Match, Load, Increment, Replace, Restart, Check
  <2>2. CASE Store(p)
    BY <1>1, <2>2 DEF Store, SetPending, SetCount, SetOffset, SetAt
  <2> QED
    BY <1>3, <2>1, <2>2
<1>4. ASSUME NEW p \in Orders, BeginOrder(p) \/ Convert(p) PROVE OnlyTruth'
  BY <1>4 DEF BeginOrder, Convert, NoQuote, CheckAge, UseOffset
<1>5. CASE Tick \/ ClockSwitches \/ FeedChanges \/ UNCHANGED vars
  BY <1>5 DEF Tick, ClockSwitches, FeedChanges, vars
<1> QED
  BY <1>2, <1>3, <1>4, <1>5 DEF Next

\* While the server's clock does not switch and no quote that moves is late,
\* every GTD order converts with the true offset, however the unlocked loads
\* and stores of refreshers and orders interleave and whatever feed freezes.
THEOREM TrueWhileSteady ==
    ASSUME QuotesOnTime
    PROVE  Spec /\ [][truth' = truth]_truth => []ConvertedTruly
<1>1. IInv /\ OnlyTruth /\ [Next]_vars /\ [truth' = truth]_truth => OnlyTruth'
  BY TruthStep
<1>2. IInv /\ OnlyTruth => ConvertedTruly
  BY ClockAssumption DEF IInv, UsableOffset, Offsets, OnlyTruth, ConvertedTruly
<1> QED
  BY <1>1, <1>2, TruthInit, Invariance, PTL DEF Spec
=============================================================================
