---------------------------- MODULE BootLoginProofs ----------------------------
(***************************************************************************)
(* What the login loop gets right, for any list of candidates, any window  *)
(* and any addresses the broker answers through, and a bound on its steps. *)
(***************************************************************************)
EXTENDS BootLogin, Integers, TLAPS

\* What a written marker says lasts until the loop's answer.
ShownInv == shown => marker = "new" /\ loop \notin {"launch", "kill", "fallback"}

\* While the API has launched nothing, whatever is recorded of the attempt
\* comes from a login through its candidate.
AttemptInv ==
    ~touched =>
        /\ loop = "launch" =>
              /\ terminal = "none"
              /\ marker # "new"
              /\ ~(api \in {"marking", "writing"} /\ stamp = "new")
        /\ live => terminal = "in"
        /\ loop \in {"wait", "look"} =>
              /\ terminal # "none" => via = cand
              /\ \/ terminal = "in"
                 \/ journal = "new"
                 \/ marker = "new"
                 \/ api \in {"marking", "writing"} /\ stamp = "new"
                 => cand \in Working
        /\ loop = "record" => cand \in Working
        /\ server # None => server \in Working /\ loop \in {"shred", "done"}

\* A window belongs to a candidate of the list.
CandidateInv ==
    loop \in {"launch", "wait", "look", "kill", "record"} => cand \in 1..N

IInv == TypeOK /\ CandidateInv /\ ShownInv /\ AttemptInv

-----------------------------------------------------------------------------
LEMMA InitInv == Init => IInv
<1> SUFFICES ASSUME Init PROVE IInv
  OBVIOUS
<1> USE BootAssumption DEF Init
<1>1. TypeOK
  <2>1. /\ loop \in {"launch", "fallback"}
        /\ cand \in 1..N \cup {1}
        /\ left \in 0..Tries
    OBVIOUS
  <2>2. /\ journal \in Ages
        /\ marker \in Ages
    BY DEF Ages
  <2>3. ini \in BOOLEAN /\ noted \in BOOLEAN /\ live \in BOOLEAN
    OBVIOUS
  <2>4. shown \in BOOLEAN /\ touched \in BOOLEAN
    OBVIOUS
  <2> QED
    BY <2>1, <2>2, <2>3, <2>4 DEF TypeOK
<1>2. CandidateInv
  BY DEF CandidateInv
<1>3. ShownInv /\ AttemptInv
  BY DEF ShownInv, AttemptInv
<1> QED
  BY <1>1, <1>2, <1>3 DEF IInv

\* The terminal's steps.
LEMMA TerminalInv == IInv /\ TerminalStep => IInv'
<1> SUFFICES ASSUME IInv, TerminalStep PROVE IInv'
  OBVIOUS
<1> USE BootAssumption
        DEF IInv, CandidateInv, window, files, process, client, history
<1>1. CASE LogsIn
  <2>1. TypeOK'
    BY <1>1 DEF LogsIn, TypeOK
  <2>2. CandidateInv' /\ ShownInv'
    BY <1>1 DEF LogsIn, TypeOK, ShownInv
  <2>3. AttemptInv'
    BY <1>1 DEF LogsIn, TypeOK, AttemptInv
  <2> QED
    BY <2>1, <2>2, <2>3
<1>2. CASE Journals
  <2>1. TypeOK'
    BY <1>2 DEF Journals, TypeOK, Ages
  <2>2. CandidateInv' /\ ShownInv'
    BY <1>2 DEF Journals, TypeOK, ShownInv
  <2>3. AttemptInv'
    BY <1>2 DEF Journals, TypeOK, AttemptInv
  <2> QED
    BY <2>1, <2>2, <2>3
<1>3. CASE TerminalDies
  <2>1. TypeOK'
    BY <1>3 DEF TerminalDies, Gone, TypeOK
  <2>2. CandidateInv' /\ ShownInv'
    BY <1>3 DEF TerminalDies, Gone, TypeOK, ShownInv
  <2>3. AttemptInv'
    BY <1>3 DEF TerminalDies, Gone, TypeOK, AttemptInv
  <2> QED
    BY <2>1, <2>2, <2>3
<1> QED
  BY <1>1, <1>2, <1>3 DEF TerminalStep

\* The API's steps: what it launches it launches as `touched`.
LEMMA ApiInv == IInv /\ ApiStep => IInv'
<1> SUFFICES ASSUME IInv, ApiStep PROVE IInv'
  OBVIOUS
<1> USE BootAssumption
        DEF IInv, CandidateInv, window, files, process, client, history
<1>1. ReconnectServer \in Addresses \cup {None}
  BY DEF ReconnectServer, Addresses, TypeOK
<1>2. CASE BootAttach
  <2>1. TypeOK'
    BY <1>2 DEF BootAttach, Start, Undecided, TypeOK
  <2>2. CandidateInv' /\ ShownInv'
    BY <1>2 DEF BootAttach, Start, Undecided, TypeOK, ShownInv
  <2>3. AttemptInv'
    BY <1>2 DEF BootAttach, Start, Undecided, TypeOK, AttemptInv
  <2> QED
    BY <2>1, <2>2, <2>3
<1>3. CASE BootGivesUp
  <2>1. TypeOK'
    BY <1>3 DEF BootGivesUp, TypeOK
  <2>2. CandidateInv' /\ ShownInv'
    BY <1>3 DEF BootGivesUp, TypeOK, ShownInv
  <2>3. AttemptInv'
    BY <1>3 DEF BootGivesUp, TypeOK, AttemptInv
  <2> QED
    BY <2>1, <2>2, <2>3
<1>4. CASE Reconnect
  <2>1. TypeOK'
    BY <1>1, <1>4 DEF Reconnect, Start, Undecided, TypeOK
  <2>2. CandidateInv' /\ ShownInv'
    BY <1>1, <1>4 DEF Reconnect, Start, Undecided, TypeOK, ShownInv
  <2>3. AttemptInv'
    BY <1>1, <1>4 DEF Reconnect, Start, Undecided, TypeOK, AttemptInv
  <2> QED
    BY <2>1, <2>2, <2>3
<1>5. CASE GiveLogin
  <2>1. TypeOK'
    BY <1>1, <1>5 DEF GiveLogin, Undecided, TypeOK
  <2>2. CandidateInv' /\ ShownInv'
    BY <1>1, <1>5 DEF GiveLogin, Undecided, TypeOK, ShownInv
  <2>3. AttemptInv'
    BY <1>1, <1>5 DEF GiveLogin, Undecided, TypeOK, AttemptInv
  <2> QED
    BY <2>1, <2>2, <2>3
<1>6. CASE Attach
  <2>1. TypeOK'
    BY <1>6 DEF Attach, TypeOK
  <2>2. CandidateInv' /\ ShownInv'
    BY <1>6 DEF Attach, TypeOK, ShownInv
  <2>3. AttemptInv'
    BY <1>6 DEF Attach, TypeOK, AttemptInv
  <2> QED
    BY <2>1, <2>2, <2>3
<1>7. CASE OpenMarker
  <2>1. TypeOK'
    <3>1. shown' \in BOOLEAN
      BY <1>7 DEF OpenMarker, TypeOK
    <3>2. marker' \in Ages
      BY <1>7 DEF OpenMarker, TypeOK, Ages
    <3> QED
      BY <1>7, <3>1, <3>2 DEF OpenMarker, TypeOK
  <2>2. CandidateInv'
    BY <1>7 DEF OpenMarker, TypeOK
  <2>3. ShownInv'
    BY <1>7 DEF OpenMarker, ShownInv
  <2>4. AttemptInv'
    BY <1>7 DEF OpenMarker, TypeOK, ShownInv, AttemptInv
  <2> QED
    BY <2>1, <2>2, <2>3, <2>4
<1>8. CASE WriteMarker
  <2>1. TypeOK'
    BY <1>8 DEF WriteMarker, TypeOK, Ages
  <2>2. CandidateInv'
    BY <1>8 DEF WriteMarker, TypeOK
  <2>3. ShownInv'
    BY <1>8 DEF WriteMarker, ShownInv
  <2>4. AttemptInv'
    BY <1>8 DEF WriteMarker, TypeOK, ShownInv, AttemptInv
  <2> QED
    BY <2>1, <2>2, <2>3, <2>4
<1>9. CASE FindOut \/ GiveUp
  <2>1. TypeOK'
    BY <1>9 DEF FindOut, GiveUp, Detach, TypeOK
  <2>2. CandidateInv' /\ ShownInv'
    BY <1>9 DEF FindOut, GiveUp, Detach, TypeOK, ShownInv
  <2>3. AttemptInv'
    BY <1>9 DEF FindOut, GiveUp, Detach, TypeOK, AttemptInv
  <2> QED
    BY <2>1, <2>2, <2>3
<1> QED
  BY <1>2, <1>3, <1>4, <1>5, <1>6, <1>7, <1>8, <1>9 DEF ApiStep

\* The loop's steps: a new attempt knows nothing of the one before.
LEMMA LoopInv == IInv /\ LoopStep => IInv'
<1> SUFFICES ASSUME IInv, LoopStep PROVE IInv'
  OBVIOUS
<1> USE BootAssumption
        DEF IInv, CandidateInv, window, files, process, client, history
<1>1. CASE Launch
  <2>1. TypeOK'
    <3>1. terminal' \in {"none", "waiting", "in"} /\ via' \in Addresses \cup {None}
      BY <1>1 DEF Launch, Start, TypeOK, Addresses
    <3>2. noted' \in BOOLEAN
      BY <1>1 DEF Launch, Start, TypeOK
    <3>3. /\ journal' \in Ages
          /\ marker' \in Ages
          /\ stamp' \in {"old", "new"}
      BY <1>1 DEF Launch, Aged, Outdated, TypeOK, Ages
    <3>4. ini' \in BOOLEAN
      BY <1>1 DEF Launch
    <3>5. left' \in 0..Tries /\ loop' = "wait"
      BY <1>1 DEF Launch
    <3> QED
      BY <1>1, <3>1, <3>2, <3>3, <3>4, <3>5 DEF Launch, TypeOK
  <2>2. ShownInv'
    BY <1>1 DEF Launch, ShownInv
  <2>3. AttemptInv'
    BY <1>1 DEF Launch, Start, Aged, Outdated, TypeOK, AttemptInv
  <2>4. CandidateInv'
    BY <1>1 DEF Launch
  <2> QED
    BY <2>1, <2>2, <2>3, <2>4
<1>2. CASE Wait
  <2>1. TypeOK'
    BY <1>2 DEF Wait, Authorized, TypeOK
  <2>2. CandidateInv' /\ ShownInv'
    BY <1>2 DEF Wait, Authorized, TypeOK, ShownInv
  <2>3. AttemptInv'
    BY <1>2 DEF Wait, Authorized, TypeOK, AttemptInv
  <2> QED
    BY <2>1, <2>2, <2>3
<1>3. CASE LastLook
  <2>1. TypeOK'
    BY <1>3 DEF LastLook, Authorized, TypeOK
  <2>2. CandidateInv'
    BY <1>3 DEF LastLook, Authorized, TypeOK
  <2>3. ShownInv'
    BY <1>3 DEF LastLook, Authorized, ShownInv
  <2>4. AttemptInv'
    BY <1>3 DEF LastLook, Authorized, TypeOK, ShownInv, AttemptInv
  <2> QED
    BY <2>1, <2>2, <2>3, <2>4
<1>4. CASE Kill
  <2>1. TypeOK'
    <3>1. /\ cand' \in 1..N \cup {1}
          /\ loop' \in {"launch", "fallback"}
          /\ marker' \in Ages
      BY <1>4 DEF Kill, Outdated, TypeOK, Ages
    <3>2. noted' \in BOOLEAN /\ live' \in BOOLEAN /\ shown' \in BOOLEAN
      BY <1>4 DEF Kill, Gone, Outdated
    <3> QED
      BY <1>4, <3>1, <3>2 DEF Kill, Gone, Outdated, TypeOK
  <2>2. CandidateInv'
    BY <1>4 DEF Kill, Gone, Outdated, TypeOK
  <2>3. ShownInv'
    BY <1>4 DEF Kill, Gone, Outdated, ShownInv
  <2>4. AttemptInv'
    BY <1>4 DEF Kill, Gone, Outdated, TypeOK, ShownInv, AttemptInv
  <2> QED
    BY <2>1, <2>2, <2>3, <2>4
<1>5. CASE Record
  <2>1. TypeOK'
    BY <1>5 DEF Record, TypeOK
  <2>2. CandidateInv'
    BY <1>5 DEF Record, TypeOK
  <2>3. ShownInv'
    BY <1>5 DEF Record, ShownInv
  <2>4. AttemptInv'
    BY <1>5 DEF Record, TypeOK, ShownInv, AttemptInv
  <2> QED
    BY <2>1, <2>2, <2>3, <2>4
<1>6. CASE Fallback
  <2>1. TypeOK'
    <3>1. terminal' \in {"none", "waiting", "in"} /\ via' \in Addresses \cup {None}
      BY <1>6 DEF Fallback, Start, TypeOK, Addresses
    <3>2. noted' \in BOOLEAN
      BY <1>6 DEF Fallback, Start, TypeOK
    <3>3. ini' \in BOOLEAN
      BY <1>6 DEF Fallback, TypeOK
    <3> QED
      BY <1>6, <3>1, <3>2, <3>3 DEF Fallback, TypeOK
  <2>2. CandidateInv'
    BY <1>6 DEF Fallback, Start, TypeOK
  <2>3. ShownInv'
    BY <1>6 DEF Fallback, Start, ShownInv
  <2>4. AttemptInv'
    BY <1>6 DEF Fallback, Start, TypeOK, ShownInv, AttemptInv
  <2> QED
    BY <2>1, <2>2, <2>3, <2>4
<1>7. CASE Shred
  <2>1. TypeOK'
    BY <1>7 DEF Shred, TypeOK
  <2>2. CandidateInv'
    BY <1>7 DEF Shred, TypeOK
  <2>3. ShownInv'
    BY <1>7 DEF Shred, ShownInv
  <2>4. AttemptInv'
    BY <1>7 DEF Shred, TypeOK, ShownInv, AttemptInv
  <2> QED
    BY <2>1, <2>2, <2>3, <2>4
<1> QED
  BY <1>1, <1>2, <1>3, <1>4, <1>5, <1>6, <1>7 DEF LoopStep

\* The invariant holds whatever terminal, API and loop do.
THEOREM Invariance == Spec => []IInv
<1>1. IInv /\ UNCHANGED vars => IInv'
  BY DEF vars, window, files, process, client, history, IInv, TypeOK, CandidateInv,
         ShownInv, AttemptInv
<1> QED
  BY <1>1, InitInv, TerminalInv, ApiInv, LoopInv, PTL DEF Spec, Next

\* Every variable keeps its type: the loop never runs past the last candidate.
THEOREM TypeCorrect == Spec => []TypeOK
  BY Invariance, PTL DEF IInv

\* The loop kills no session whose marker was there when it looked last.
THEOREM ShownSessionsLive == Spec => []ShownSessionSpared
<1>1. IInv => ShownSessionSpared
  BY DEF IInv, ShownInv, ShownSessionSpared
<1> QED
  BY <1>1, Invariance, PTL

\* An address is recorded only after it has authorized a terminal, as long as
\* the API launches none itself.
THEOREM RecordedServersWork == Spec => []RecordedServerWorked
<1>1. IInv => RecordedServerWorked
  BY DEF IInv, AttemptInv, RecordedServerWorked
<1> QED
  BY <1>1, Invariance, PTL

-----------------------------------------------------------------------------
(* How long the loop may run.                                              *)

Trying == loop \in {"launch", "wait", "look", "kill"}

\* The steps the loop may still take in the window it is in, and after it.
StepsInWindow ==
    CASE loop = "launch" -> Tries + 6
      [] loop = "wait" -> left + 5
      [] loop = "look" -> 4
      [] loop = "kill" -> 3
      [] loop \in {"record", "fallback"} -> 2
      [] loop = "shred" -> 1
      [] loop = "done" -> 0

\* ... and in the windows of the candidates not tried yet.
StepsLeft == StepsInWindow + (IF Trying THEN (N - cand) * (Tries + 6) ELSE 0)

\* A candidate less is a window less.
LEMMA OneWindowLess ==
    ASSUME NEW a \in Int, NEW b \in Int
    PROVE  (a - 1) * b = a * b - b /\ a * b \in Int
  OBVIOUS

LEMMA WindowsTyped ==
    ASSUME NEW a \in Nat, NEW b \in Nat
    PROVE  a * b \in Nat
  OBVIOUS

LEMMA StepsLeftTyped == IInv => StepsLeft \in Nat
<1> SUFFICES ASSUME IInv PROVE StepsLeft \in Nat
  OBVIOUS
<1> USE BootAssumption DEF IInv, TypeOK
<1>1. StepsInWindow \in Nat
  BY DEF StepsInWindow
<1>2. Trying => N - cand \in Nat
  BY DEF Trying, CandidateInv
<1>3. Trying => (N - cand) * (Tries + 6) \in Nat
  BY <1>2, WindowsTyped
<1> QED
  BY <1>1, <1>3 DEF StepsLeft

\* A loop that has not begun has the windows of all candidates left.
LEMMA StepsLeftAtBoot == Init => StepsLeft <= N * (Tries + 6) + 2
<1> SUFFICES ASSUME Init PROVE StepsLeft <= N * (Tries + 6) + 2
  OBVIOUS
<1> USE BootAssumption
<1>1. CASE N = 0
  BY <1>1 DEF Init, StepsLeft, StepsInWindow, Trying
<1>2. CASE N # 0
  <2>1. StepsLeft = (Tries + 6) + (N - 1) * (Tries + 6)
    <3>1. loop = "launch" /\ cand = 1
      BY <1>2 DEF Init
    <3>2. StepsInWindow = Tries + 6
      BY <3>1 DEF StepsInWindow
    <3> QED
      BY <3>1, <3>2 DEF StepsLeft, Trying
  <2>2. (N - 1) * (Tries + 6) = N * (Tries + 6) - (Tries + 6) /\ N * (Tries + 6) \in Int
    BY OneWindowLess
  <2>3. Tries + 6 \in Int
    OBVIOUS
  <2> QED
    BY <2>1, <2>2, <2>3
<1> QED
  BY <1>1, <1>2

\* Every step of the loop is one nearer to its end.
LEMMA LoopAdvances == IInv /\ LoopStep => StepsLeft' < StepsLeft
<1> SUFFICES ASSUME IInv, LoopStep PROVE StepsLeft' < StepsLeft
  OBVIOUS
<1> USE BootAssumption DEF IInv, TypeOK
<1> DEFINE K == Tries + 6
           windows == (N - cand) * K
<1>1. K \in Nat /\ cand \in Nat /\ left \in Nat /\ N - cand \in Int /\ windows \in Int
  <2>1. K \in Nat /\ cand \in Nat /\ left \in Nat /\ N - cand \in Int
    OBVIOUS
  <2> QED
    BY <2>1, OneWindowLess
<1>2. CASE Launch
  BY <1>1, <1>2 DEF Launch, StepsLeft, StepsInWindow, Trying
<1>3. CASE Wait /\ loop' \in {"wait", "look"}
  BY <1>1, <1>3 DEF Wait, window, StepsLeft, StepsInWindow, Trying
<1>4. ASSUME Trying, loop' \in {"record", "fallback"}
      PROVE  StepsLeft' < StepsLeft
  <2>1. N - cand \in Nat
    BY <1>4 DEF Trying, CandidateInv
  <2>2. windows >= 0
    BY <1>1, <2>1, WindowsTyped
  <2>3. StepsInWindow >= 3
    BY <1>1, <1>4 DEF Trying, StepsInWindow
  <2>4. StepsInWindow \in Nat
    BY <1>1 DEF StepsInWindow
  <2>5. StepsLeft' = 2
    BY <1>4 DEF StepsLeft, StepsInWindow, Trying
  <2>6. StepsLeft = StepsInWindow + windows
    BY <1>4 DEF StepsLeft
  <2> QED
    BY <1>1, <2>2, <2>3, <2>4, <2>5, <2>6
<1>5. CASE Wait /\ loop' = "record"
  BY <1>4, <1>5 DEF Wait, Trying
<1>6. CASE LastLook
  <2>1. CASE loop' = "kill"
    BY <1>1, <1>6, <2>1 DEF LastLook, window, StepsLeft, StepsInWindow, Trying
  <2>2. CASE loop' = "record"
    BY <1>4, <1>6, <2>2 DEF LastLook, Trying
  <2> QED
    BY <1>6, <2>1, <2>2 DEF LastLook
<1>7. CASE Kill
  <2>1. CASE cand < N
    <3>1. cand' = cand + 1 /\ loop = "kill" /\ loop' = "launch"
      BY <1>7, <2>1 DEF Kill
    <3>2. N - cand' = (N - cand) - 1
      BY <1>1, <3>1
    <3>3. (N - cand') * K = windows - K
      BY <1>1, <3>2, OneWindowLess
    <3>4. StepsLeft = 3 + windows /\ StepsLeft' = K + (N - cand') * K
      BY <3>1 DEF StepsLeft, StepsInWindow, Trying
    <3> QED
      BY <1>1, <3>3, <3>4
  <2>2. CASE ~(cand < N)
    BY <1>4, <1>7, <2>2 DEF Kill, Trying
  <2> QED
    BY <2>1, <2>2
<1>8. CASE Record \/ Fallback \/ Shred
  BY <1>8 DEF Record, Fallback, Shred, StepsLeft, StepsInWindow, Trying
<1>9. Wait => loop' \in {"wait", "look", "record"}
  BY DEF Wait, TypeOK
<1> QED
  BY <1>2, <1>3, <1>5, <1>6, <1>7, <1>8, <1>9 DEF LoopStep

\* A step never adds to what is left, and one of the loop takes from it.
CountsDown ==
    /\ StepsLeft' <= StepsLeft
    /\ LoopStep => StepsLeft' < StepsLeft

\* The loop takes at most N * (Tries + 6) + 2 steps, whatever the terminal
\* and the API do: each of its steps counts down and nothing makes it go back
\* (what PasswordShredded needs beside fairness).
THEOREM LoopCountsDown ==
    Spec => /\ StepsLeft <= N * (Tries + 6) + 2
            /\ [](StepsLeft \in Nat)
            /\ [][CountsDown]_vars
<1>1. IInv' => (StepsLeft \in Nat)'
  BY StepsLeftTyped, PTL
<1>2. IInv /\ IInv' /\ [Next]_vars => [CountsDown]_vars
  <2> SUFFICES ASSUME IInv, IInv', Next PROVE CountsDown
    OBVIOUS
  <2>1. StepsLeft \in Nat /\ StepsLeft' \in Nat
    BY <1>1, StepsLeftTyped
  <2>2. LoopStep => StepsLeft' < StepsLeft
    BY LoopAdvances
  <2>3. CASE LoopStep
    BY <2>1, <2>2, <2>3 DEF CountsDown
  <2>4. CASE ApiStep \/ TerminalStep
    <3>1. UNCHANGED <<loop, cand, left>>
      BY <2>4
      DEF ApiStep, TerminalStep, BootAttach, BootGivesUp, Reconnect, GiveLogin, Attach,
          OpenMarker, WriteMarker, FindOut, GiveUp, Detach, LogsIn, Journals, TerminalDies,
          window
    <3>2. StepsLeft' = StepsLeft
      BY <3>1 DEF StepsLeft, StepsInWindow, Trying
    <3> QED
      BY <2>1, <2>2, <3>2 DEF CountsDown
  <2> QED
    BY <2>3, <2>4 DEF Next
<1> QED
  BY <1>2, Invariance, StepsLeftTyped, StepsLeftAtBoot, PTL DEF Spec

\* Once the loop is done the password is not on the volume, and stays away.
THEOREM PasswordGone == Spec => [](loop = "done" => ~ini)
<1>1. Init => (loop = "done" => ~ini)
  BY DEF Init
<1>2. (loop = "done" => ~ini) /\ [Next]_vars => (loop = "done" => ~ini)'
  <2> SUFFICES ASSUME loop = "done" => ~ini, [Next]_vars, loop' = "done" PROVE ~ini'
    OBVIOUS
  <2>1. CASE LoopStep
    BY <2>1 DEF LoopStep, Launch, Wait, LastLook, Kill, Record, Fallback, Shred
  <2>2. CASE UNCHANGED <<loop, ini>>
    BY <2>2
  <2>3. ApiStep \/ TerminalStep \/ UNCHANGED vars => UNCHANGED <<loop, ini>>
    BY DEF ApiStep, TerminalStep, BootAttach, BootGivesUp, Reconnect, GiveLogin, Attach,
       OpenMarker, WriteMarker, FindOut, GiveUp, Detach, LogsIn, Journals, TerminalDies, vars,
       files
  <2> QED
    BY <2>1, <2>2, <2>3 DEF Next
<1> QED
  BY <1>1, <1>2, PTL DEF Spec
=============================================================================
