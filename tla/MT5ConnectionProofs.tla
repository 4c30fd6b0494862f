-------------------------- MODULE MT5ConnectionProofs --------------------------
(***************************************************************************)
(* Safety of MT5Connection for any number of worker threads and any        *)
(* settings, and the bound on how long a worker holds the reconnect lock.  *)
(***************************************************************************)
EXTENDS MT5Connection, TLAPS

\* Requests wait for create_app: while the main thread is in its boot attach
\* no worker has left "idle", so that attach needs no lock.
BootFirst == ~Serving => \A w \in Workers : pc[w] = "idle"

\* A retry is only waited for while attempts are left.
AttemptsLeft == \A p \in Threads : pc[p] = "backoff" => attempt[p] < MaxAttempts

\* The inductive invariant.  NoReattachWhileConnected needs single flight
\* (LocksOwned) among the workers, and BootFirst for the main thread.
IInv ==
    /\ TypeOK
    /\ AttemptsLeft
    /\ LocksOwned
    /\ BootFirst
    /\ BackoffRespected
    /\ NoReattachWhileConnected

\* A back-off window is never empty and never exceeds the configured cap.
LEMMA CooldownBounded ==
    ASSUME NEW n \in Nat
    PROVE  Cooldown(n) \in 1..CooldownMax
  BY SettingsAssumption DEF Cooldown

\* A failure is counted, up to the bound of the model.
LEMMA CountFailureTyped ==
    ASSUME TypeOK
    PROVE  CountFailure \in 1..FailedCap
  BY SettingsAssumption DEF CountFailure, TypeOK

\* Every thread starts outside the locked regions.
LEMMA InitIInv == Init => IInv
<1> SUFFICES ASSUME Init PROVE IInv
  OBVIOUS
<1> USE ThreadAssumption, SettingsAssumption DEF Threads
<1>1. \A w \in Workers : pc[w] = "idle"
  BY DEF Init
<1>2. pc[Main] = "attach" /\ status = "disconnected"
  BY DEF Init
<1>3. TypeOK
  <2>1. /\ pc \in [Threads -> MainPcs \cup WorkerPcs]
        /\ pc[Main] \in MainPcs
        /\ \A w \in Workers : pc[w] \in WorkerPcs
    BY <1>1, <1>2 DEF Init, WorkerPcs, MainPcs, InitializePcs
  <2>2. attempt \in [Threads -> 1..MaxAttempts]
    BY DEF Init
  <2>3. verifyLeft \in 0..VerifyTTL /\ coolLeft \in 0..CooldownMax
        /\ failedReconnects \in 0..FailedCap
    BY DEF Init
  <2>4. refresher \in BOOLEAN /\ refreshStop \in BOOLEAN
    BY DEF Init
  <2> QED
    BY <2>1, <2>2, <2>3, <2>4 DEF Init, TypeOK, Sessions
<1>4. LocksOwned
  BY <1>1 DEF Init, LocksOwned, ReconnectPcs, AttemptPcs, InitializePcs, ProbePcs
<1>5. AttemptsLeft /\ BootFirst /\ BackoffRespected /\ NoReattachWhileConnected
  BY <1>1, <1>2 DEF AttemptsLeft, BootFirst, BackoffRespected, NoReattachWhileConnected
<1> QED
  BY <1>3, <1>4, <1>5 DEF IInv

USE DEF Goto, Threads

\* Type correctness of every step.
LEMMA TypeStep == TypeOK /\ AttemptsLeft /\ [Next]_vars => TypeOK'
<1> SUFFICES ASSUME TypeOK, AttemptsLeft, [Next]_vars PROVE TypeOK'
  OBVIOUS
<1> USE ThreadAssumption, SettingsAssumption
<1>1. ASSUME NEW p \in Threads, Initialize(p) PROVE TypeOK'
  <2>1. CASE Attach(p)
    BY <2>1 DEF Attach, TypeOK, Sessions, MainPcs, WorkerPcs, ReconnectPcs, AttemptPcs,
       InitializePcs, locks, timers, offset, terminal
  <2>2. CASE AccountInfo(p)
    BY <2>2 DEF AccountInfo, NoteConnectionFailure, TypeOK, MainPcs, WorkerPcs, ReconnectPcs,
       AttemptPcs, InitializePcs, locks, timers, offset, terminal
  <2>3. CASE MarkConnected(p)
    BY <2>3 DEF MarkConnected, SetConnected, TypeOK, MainPcs, WorkerPcs, ReconnectPcs,
       AttemptPcs, InitializePcs, locks, timers, offset, terminal
  <2>4. CASE Derive(p)
    BY <2>4 DEF Derive, NoteConnectionFailure, TypeOK, MainPcs, WorkerPcs, ReconnectPcs,
       AttemptPcs, InitializePcs, locks, timers, offset, terminal
  <2>5. CASE AttachFailed(p)
    BY <2>5 DEF AttachFailed, TypeOK, MainPcs, WorkerPcs, ReconnectPcs,
       AttemptPcs, InitializePcs, locks, timers, offset, terminal
  <2>6. CASE Retry(p)
    BY <2>6 DEF Retry, TypeOK, AttemptsLeft, MainPcs, WorkerPcs, ReconnectPcs,
       AttemptPcs, InitializePcs, locks, timers, offset, terminal
  <2> QED
    BY <1>1, <2>1, <2>2, <2>3, <2>4, <2>5, <2>6 DEF Initialize
<1>2. ASSUME NEW w \in Workers, Enter(w) \/ VerifyAcquire(w) \/ Probe(w) \/ ProbeOk(w)
             \/ ProbeFailed(w) \/ CooldownCheck(w) \/ Handle(w)
      PROVE TypeOK'
  <2> USE DEF TypeOK, WorkerPcs, ProbePcs, locks, timers, offset, terminal
  <2>1. CASE Enter(w)
    BY <2>1 DEF Enter
  <2>2. CASE VerifyAcquire(w)
    BY <2>2 DEF VerifyAcquire
  <2>3. CASE Probe(w)
    BY <2>3 DEF Probe, NoteConnectionFailure
  <2>4. CASE ProbeOk(w)
    BY <2>4 DEF ProbeOk
  <2>5. CASE ProbeFailed(w)
    BY <2>5 DEF ProbeFailed
  <2>6. CASE CooldownCheck(w)
    BY <2>6 DEF CooldownCheck
  <2>7. CASE Handle(w)
    BY <2>7 DEF Handle, NoteConnectionFailure
  <2> QED
    BY <1>2, <2>1, <2>2, <2>3, <2>4, <2>5, <2>6, <2>7
<1>3. ASSUME NEW w \in Workers, AcquireReconnect(w) \/ Recheck(w) \/ Reconcile(w)
             \/ ReconcileFailed(w) \/ NoteFailure(w) \/ NoteSuccess(w)
      PROVE TypeOK'
  <2> USE DEF TypeOK, WorkerPcs, ReconnectPcs, AttemptPcs, InitializePcs, locks, timers,
              offset, terminal
  <2>1. CASE AcquireReconnect(w)
    BY <2>1 DEF AcquireReconnect, TakeReconnectLock
  <2>2. CASE Recheck(w)
    BY <2>2 DEF Recheck
  <2>3. CASE Reconcile(w)
    BY <2>3 DEF Reconcile, NoteConnectionFailure, Sessions
  <2>4. CASE ReconcileFailed(w)
    BY <2>4 DEF ReconcileFailed
  <2>5. CASE NoteFailure(w)
    BY <2>5, CooldownBounded, CountFailureTyped DEF NoteFailure
  <2>6. CASE NoteSuccess(w)
    BY <2>6 DEF NoteSuccess
  <2> QED
    BY <1>3, <2>1, <2>2, <2>3, <2>4, <2>5, <2>6
<1>4. ASSUME Shutdown \/ StopClient \/ StopStatus \/ UngatedCall \/ RefresherRead
      PROVE TypeOK'
  <2> USE DEF TypeOK, locks, timers, offset, terminal
  <2>1. CASE Shutdown
    BY <2>1 DEF Shutdown, MainPcs
  <2>2. CASE StopClient
    BY <2>2 DEF StopClient, MainPcs, Sessions
  <2>3. CASE StopStatus
    BY <2>3 DEF StopStatus, MainPcs
  <2>4. CASE UngatedCall \/ RefresherRead
    BY <2>4 DEF UngatedCall, RefresherRead, NoteConnectionFailure
  <2> QED
    BY <1>4, <2>1, <2>2, <2>3, <2>4
<1>5. CASE Tick \/ Terminal
  BY <1>5 DEF TypeOK, Tick, VerificationFresh, CoolingDown, Terminal, TerminalDies,
     TerminalLogsOut, TerminalRecovers, Sessions, locks, timers, offset, terminal
<1>6. CASE UNCHANGED vars
  BY <1>6 DEF TypeOK, vars, locks, timers, offset, terminal
<1> QED
  BY <1>1, <1>2, <1>3, <1>4, <1>5, <1>6 DEF Next, MainStep, Work

\* The invariant without its typing.
Rest ==
    /\ AttemptsLeft
    /\ LocksOwned
    /\ BootFirst
    /\ BackoffRespected
    /\ NoReattachWhileConnected

\* Every step preserves the rest of the invariant.
LEMMA RestStep == IInv /\ [Next]_vars => Rest'
<1> SUFFICES ASSUME IInv, [Next]_vars PROVE Rest'
  OBVIOUS
<1> USE ThreadAssumption, SettingsAssumption
    DEF IInv, Rest, TypeOK, AttemptsLeft, LocksOwned, BootFirst, BackoffRespected,
        NoReattachWhileConnected, Serving, IsConnected, VerificationFresh, CoolingDown,
        InitializePcs, AttemptPcs, ReconnectPcs, ProbePcs, locks, timers, offset, terminal
<1>1. ASSUME NEW w \in Workers, Enter(w) PROVE Rest'
  BY <1>1 DEF Enter
<1>2. ASSUME NEW w \in Workers, VerifyAcquire(w) PROVE Rest'
  BY <1>2 DEF VerifyAcquire
<1>3. ASSUME NEW w \in Workers, Probe(w) PROVE Rest'
  BY <1>3 DEF Probe, NoteConnectionFailure
<1>4. ASSUME NEW w \in Workers, ProbeOk(w) PROVE Rest'
  BY <1>4 DEF ProbeOk
<1>5. ASSUME NEW w \in Workers, ProbeFailed(w) PROVE Rest'
  BY <1>5 DEF ProbeFailed
<1>6. ASSUME NEW w \in Workers, CooldownCheck(w) PROVE Rest'
  BY <1>6 DEF CooldownCheck
<1>7. ASSUME NEW w \in Workers, AcquireReconnect(w) PROVE Rest'
  BY <1>7 DEF AcquireReconnect, TakeReconnectLock
<1>8. ASSUME NEW w \in Workers, Recheck(w) PROVE Rest'
  BY <1>8 DEF Recheck, MustReconnect
<1>9. ASSUME NEW p \in Threads, Attach(p) PROVE Rest'
  BY <1>9 DEF Attach
<1>10. ASSUME NEW p \in Threads, AccountInfo(p) PROVE Rest'
  BY <1>10 DEF AccountInfo, NoteConnectionFailure
<1>11. ASSUME NEW p \in Threads, MarkConnected(p) PROVE Rest'
  BY <1>11 DEF MarkConnected, SetConnected
<1>12. ASSUME NEW p \in Threads, Derive(p) PROVE Rest'
  BY <1>12 DEF Derive, NoteConnectionFailure
<1>13. ASSUME NEW p \in Threads, AttachFailed(p) PROVE Rest'
  BY <1>13 DEF AttachFailed
<1>14. ASSUME NEW p \in Threads, Retry(p) PROVE Rest'
  BY <1>14 DEF Retry
<1>15. ASSUME NEW w \in Workers, Reconcile(w) PROVE Rest'
  BY <1>15 DEF Reconcile, NoteConnectionFailure
<1>16. ASSUME NEW w \in Workers, ReconcileFailed(w) PROVE Rest'
  BY <1>16 DEF ReconcileFailed
<1>17. ASSUME NEW w \in Workers, NoteFailure(w) PROVE Rest'
  BY <1>17 DEF NoteFailure
<1>18. ASSUME NEW w \in Workers, NoteSuccess(w) PROVE Rest'
  BY <1>18 DEF NoteSuccess
<1>19. ASSUME NEW w \in Workers, Handle(w) PROVE Rest'
  BY <1>19 DEF Handle, NoteConnectionFailure
<1>20. CASE Shutdown \/ StopClient \/ StopStatus
  BY <1>20 DEF Shutdown, StopClient, StopStatus
<1>21. CASE UngatedCall \/ RefresherRead
  BY <1>21 DEF UngatedCall, RefresherRead, NoteConnectionFailure
<1>22. CASE Tick \/ Terminal
  BY <1>22 DEF Tick, Terminal, TerminalDies, TerminalLogsOut, TerminalRecovers
<1>23. CASE UNCHANGED vars
  BY <1>23 DEF vars
<1> QED
  BY <1>1, <1>2, <1>3, <1>4, <1>5, <1>6, <1>7, <1>8, <1>9, <1>10, <1>11, <1>12, <1>13,
     <1>14, <1>15, <1>16, <1>17, <1>18, <1>19, <1>20, <1>21, <1>22, <1>23
  DEF Next, MainStep, Work, Initialize

\* What every state of every behaviour satisfies.
THEOREM Invariance == Spec => []IInv
<1>1. IInv /\ [Next]_vars => IInv'
  BY TypeStep, RestStep DEF IInv, Rest
<1> QED
  BY <1>1, InitIInv, PTL DEF Spec

\* Every variable keeps its type.
THEOREM TypeCorrect == Spec => []TypeOK
  BY Invariance, PTL DEF IInv

\* The locks are owned exactly inside their regions: ensure_connection
\* releases on every path, and reconnects are single-flight.
THEOREM LocksAreOwned == Spec => []LocksOwned
  BY Invariance, PTL DEF IInv

\* No reconnect starts inside a back-off window.
THEOREM BackoffIsRespected == Spec => []BackoffRespected
  BY Invariance, PTL DEF IInv

\* No worker re-initializes a session that counts as connected.
THEOREM NoReattach == Spec => []NoReattachWhileConnected
  BY Invariance, PTL DEF IInv

\* A step of the gateway is a step of the gate, or invisible to it.
LEMMA GateStep ==
    ASSUME IInv, IInv', [Next]_vars, FailedCap - 1 <= MaxDoublings
    PROVE  [Gate!Next]_(Gate!gateVars)
<1> USE ThreadAssumption, SettingsAssumption
    DEF IInv, TypeOK, LocksOwned, GateHolder, Gate!gateVars, AttemptPcs, InitializePcs,
        GateVerdict, ReconnectPcs, locks, timers, offset, terminal
<1> DEFINE Invisible == UNCHANGED <<GateHolder, GateVerdict, coolLeft>>
<1>1. ASSUME NEW w \in Workers, Enter(w) PROVE Invisible
  BY <1>1 DEF Enter
<1>2. ASSUME NEW w \in Workers, VerifyAcquire(w) PROVE Invisible
  BY <1>2 DEF VerifyAcquire
<1>3. ASSUME NEW w \in Workers, Probe(w) \/ ProbeOk(w) \/ ProbeFailed(w) PROVE Invisible
  BY <1>3 DEF Probe, ProbeOk, ProbeFailed, ProbePcs
<1>4. ASSUME NEW w \in Workers, CooldownCheck(w) \/ Handle(w) PROVE Invisible
  BY <1>4 DEF CooldownCheck, Handle
<1>5. ASSUME NEW w \in Workers, AcquireReconnect(w) PROVE Invisible
  BY <1>5 DEF AcquireReconnect, TakeReconnectLock
<1>6. ASSUME NEW w \in Workers, Recheck(w) PROVE Invisible \/ Gate!Begin(w)
  BY <1>6 DEF Recheck, MustReconnect, CoolingDown, Gate!Begin
<1>7. ASSUME NEW p \in Threads, Initialize(p) PROVE Invisible \/ Gate!Decide
  <2>1. CASE Attach(p) \/ AccountInfo(p)
    BY <2>1 DEF Attach, AccountInfo, MainPcs
  <2>2. CASE MarkConnected(p) \/ Derive(p)
    BY <2>2 DEF MarkConnected, SetConnected, Derive, MainPcs
  <2>3. CASE AttachFailed(p)
    BY <2>3 DEF AttachFailed, MainPcs, Gate!Decide
  <2>4. CASE Retry(p)
    BY <2>4 DEF Retry, MainPcs
  <2> QED
    BY <1>7, <2>1, <2>2, <2>3, <2>4 DEF Initialize
<1>8. ASSUME NEW w \in Workers, Reconcile(w) \/ ReconcileFailed(w)
      PROVE  Invisible \/ Gate!Decide
  BY <1>8 DEF Reconcile, ReconcileFailed, Gate!Decide
<1>9. ASSUME NEW w \in Workers, NoteFailure(w) PROVE Gate!Fail
  BY <1>9, CountFailureTyped, CooldownBounded
  DEF NoteFailure, CooldownOverflows, Gate!Fail
<1>10. ASSUME NEW w \in Workers, NoteSuccess(w) PROVE Gate!Succeed
  BY <1>10 DEF NoteSuccess, Gate!Succeed
<1>11. CASE Shutdown \/ StopClient \/ StopStatus
  BY <1>11 DEF Shutdown, StopClient, StopStatus
<1>12. CASE UngatedCall \/ RefresherRead \/ Terminal
  BY <1>12 DEF UngatedCall, RefresherRead, Terminal, TerminalDies, TerminalLogsOut,
     TerminalRecovers
<1>13. CASE Tick
  BY <1>13 DEF Tick, CoolingDown, Gate!Next, Gate!Elapse
<1>14. CASE UNCHANGED vars
  BY <1>14 DEF vars
<1> QED
  BY <1>1, <1>2, <1>3, <1>4, <1>5, <1>6, <1>7, <1>8, <1>9, <1>10, <1>11, <1>12, <1>13,
     <1>14
  DEF Next, MainStep, Work, Gate!Next

\* Until the failure count overflows the power of two, reconnect attempts
\* are what ReconnectGate promises: one at a time, and spaced.
THEOREM GateImplemented ==
    ASSUME FailedCap - 1 <= MaxDoublings
    PROVE  Spec => ImplementsGate
<1>1. Init => Gate!Init
  BY ThreadAssumption DEF Init, Gate!Init, GateHolder, GateVerdict
<1>2. IInv /\ IInv' /\ [Next]_vars => [Gate!Next]_(Gate!gateVars)
  BY GateStep
<1> QED
  BY <1>1, <1>2, Invariance, PTL DEF Spec, ImplementsGate, Gate!Spec

-----------------------------------------------------------------------------
(* The length of the windows, and the session a reconnect has published.   *)

\* A whole attempt, all its retries included, runs outside every window.
AttemptsOutsideWindow == \A w \in Workers : pc[w] \in AttemptPcs => coolLeft = 0

\* The window of so many failed reconnects in a row.
FullWindow(failures) ==
    IF failures = 0 \/ CooldownOverflows(failures) THEN 0 ELSE Cooldown(failures)

\* An open window is no longer than the failures counted account for: none
\* after a success, and none once the doubling overflows.
WindowOfFailures == coolLeft <= FullWindow(failedReconnects)

\* A connected session that was not reconciled is the one a worker attached
\* and is about to reconcile or to give up.
UnreconciledHasOwner ==
    IsConnected /\ session = "fresh"
        => \E w \in Workers : pc[w] \in {"derive", "reconcile", "reconcile_failed"}

\* The main thread attaches before any worker, and needs no reconciliation.
BootBeforeReconnect == ~Serving => session # "fresh"

\* Every step preserves that attempts run outside the windows: the one that
\* opens a window ends the only attempt, by LocksOwned.
LEMMA OutsideStep ==
    IInv /\ AttemptsOutsideWindow /\ [Next]_vars => AttemptsOutsideWindow'
<1> SUFFICES ASSUME IInv, AttemptsOutsideWindow, [Next]_vars PROVE AttemptsOutsideWindow'
  OBVIOUS
<1> USE ThreadAssumption, SettingsAssumption
    DEF IInv, TypeOK, LocksOwned, AttemptsOutsideWindow, AttemptPcs, InitializePcs,
        ReconnectPcs, locks, timers, offset, terminal
<1>1. ASSUME NEW w \in Workers,
             Enter(w) \/ VerifyAcquire(w) \/ Probe(w) \/ ProbeOk(w) \/ ProbeFailed(w)
      PROVE  AttemptsOutsideWindow'
  BY <1>1 DEF Enter, VerifyAcquire, Probe, ProbeOk, ProbeFailed
<1>2. ASSUME NEW w \in Workers,
             CooldownCheck(w) \/ AcquireReconnect(w) \/ Handle(w)
      PROVE  AttemptsOutsideWindow'
  BY <1>2 DEF CooldownCheck, AcquireReconnect, TakeReconnectLock, Handle
<1>3. ASSUME NEW w \in Workers, Recheck(w) PROVE AttemptsOutsideWindow'
  BY <1>3 DEF Recheck, MustReconnect, CoolingDown
<1>4. ASSUME NEW p \in Threads, Initialize(p) PROVE AttemptsOutsideWindow'
  <2>1. CASE Attach(p) \/ AccountInfo(p) \/ MarkConnected(p)
    BY <2>1 DEF Attach, AccountInfo, MarkConnected
  <2>2. CASE Derive(p) \/ AttachFailed(p) \/ Retry(p)
    BY <2>2 DEF Derive, AttachFailed, Retry
  <2> QED
    BY <1>4, <2>1, <2>2 DEF Initialize
<1>5. ASSUME NEW w \in Workers, Reconcile(w) \/ ReconcileFailed(w)
      PROVE  AttemptsOutsideWindow'
  BY <1>5 DEF Reconcile, ReconcileFailed
<1>6. ASSUME NEW w \in Workers, NoteFailure(w) \/ NoteSuccess(w)
      PROVE  AttemptsOutsideWindow'
  BY <1>6 DEF NoteFailure, NoteSuccess
<1>7. CASE Shutdown \/ StopClient \/ StopStatus \/ UngatedCall \/ RefresherRead
  BY <1>7 DEF Shutdown, StopClient, StopStatus, UngatedCall, RefresherRead
<1>8. CASE Tick \/ Terminal \/ UNCHANGED vars
  BY <1>8 DEF Tick, CoolingDown, Terminal, TerminalDies, TerminalLogsOut, TerminalRecovers,
     vars
<1> QED
  BY <1>1, <1>2, <1>3, <1>4, <1>5, <1>6, <1>7, <1>8 DEF Next, MainStep, Work

\* A failure's own window is the full one, and an overflow leaves none: the
\* attempt it ends ran outside every window.
LEMMA WindowStep ==
    IInv /\ AttemptsOutsideWindow /\ WindowOfFailures /\ [Next]_vars => WindowOfFailures'
<1> SUFFICES ASSUME IInv, AttemptsOutsideWindow, WindowOfFailures, [Next]_vars
             PROVE  WindowOfFailures'
  OBVIOUS
<1> USE SettingsAssumption DEF locks, timers, offset, terminal
<1>1. coolLeft \in Nat /\ failedReconnects \in Nat
  BY DEF IInv, TypeOK
<1>2. ASSUME NEW w \in Workers, NoteFailure(w) PROVE WindowOfFailures'
  <2>1. coolLeft = 0
    BY <1>2 DEF NoteFailure, AttemptsOutsideWindow, AttemptPcs
  <2>2. failedReconnects' = CountFailure /\ CountFailure \in 1..FailedCap
    BY <1>2, CountFailureTyped DEF NoteFailure, IInv
  <2>3. coolLeft' = FullWindow(CountFailure)
    BY <1>2, <2>1, <2>2 DEF NoteFailure, FullWindow
  <2>4. FullWindow(CountFailure) \in Nat
    BY <2>2, CooldownBounded DEF FullWindow
  <2> QED
    BY <2>2, <2>3, <2>4 DEF WindowOfFailures
<1>3. ASSUME NEW w \in Workers, NoteSuccess(w) PROVE WindowOfFailures'
  BY <1>3 DEF NoteSuccess, WindowOfFailures, FullWindow
<1>4. CASE Tick
  <2>1. FullWindow(failedReconnects) \in Nat
    BY <1>1, CooldownBounded DEF FullWindow
  <2>2. failedReconnects' = failedReconnects /\ coolLeft' \in Nat /\ coolLeft' <= coolLeft
    BY <1>1, <1>4 DEF Tick, CoolingDown
  <2> QED
    BY <1>1, <2>1, <2>2 DEF WindowOfFailures
<1>5. CASE UNCHANGED <<coolLeft, failedReconnects>>
  BY <1>5 DEF WindowOfFailures
<1>6. ASSUME NEW w \in Workers, Enter(w) \/ Work(w)
      PROVE  \/ NoteFailure(w) \/ NoteSuccess(w)
             \/ UNCHANGED <<coolLeft, failedReconnects>>
  BY <1>6 DEF Enter, Work, VerifyAcquire, Probe, ProbeOk, ProbeFailed, CooldownCheck,
     AcquireReconnect, Recheck, Initialize, Attach, AccountInfo, MarkConnected, Derive,
     AttachFailed, Retry, Reconcile, ReconcileFailed, Handle
<1>7. CASE MainStep \/ UngatedCall \/ RefresherRead \/ Terminal \/ UNCHANGED vars
  <2>1. UNCHANGED <<coolLeft, failedReconnects>>
    BY <1>7 DEF MainStep, Initialize, Attach, AccountInfo, MarkConnected, Derive,
       AttachFailed, Retry, Shutdown, StopClient, StopStatus, UngatedCall, RefresherRead,
       Terminal, TerminalDies, TerminalLogsOut, TerminalRecovers, vars
  <2> QED
    BY <1>5, <2>1
<1> QED
  BY <1>2, <1>3, <1>4, <1>5, <1>6, <1>7 DEF Next

\* No reconnect attempt runs inside a back-off window, whoever opened it, and
\* what is left of a window is never more than the failures in a row account
\* for; past the overflow of _note_reconnect_outcome no window is left at all.
THEOREM WindowsFitFailures == Spec => [](AttemptsOutsideWindow /\ WindowOfFailures)
<1>1. Init => AttemptsOutsideWindow /\ WindowOfFailures
  BY ThreadAssumption
  DEF Init, AttemptsOutsideWindow, WindowOfFailures, FullWindow, Threads, AttemptPcs,
      InitializePcs
<1>2. IInv /\ AttemptsOutsideWindow /\ WindowOfFailures /\ [Next]_vars
      => (AttemptsOutsideWindow /\ WindowOfFailures)'
  BY OutsideStep, WindowStep
<1> QED
  BY <1>1, <1>2, Invariance, PTL DEF Spec

\* Once the failures in a row overflow the power of two, requests start a
\* reconnect each, with no back-off between them, until one succeeds.
COROLLARY OverflowEndsBackoff ==
    Spec => [](CooldownOverflows(failedReconnects) => ~CoolingDown)
<1>1. IInv /\ WindowOfFailures => (CooldownOverflows(failedReconnects) => ~CoolingDown)
  BY DEF IInv, TypeOK, WindowOfFailures, FullWindow, CoolingDown
<1> QED
  BY <1>1, Invariance, WindowsFitFailures, PTL

\* The worker that owns an unreconciled session leaves it only by marking it
\* reconciled or with the status it has just taken back.
LEMMA OwnerStep ==
    IInv /\ BootBeforeReconnect /\ UnreconciledHasOwner /\ [Next]_vars
        => UnreconciledHasOwner'
<1> SUFFICES ASSUME IInv, BootBeforeReconnect, UnreconciledHasOwner, [Next]_vars
             PROVE  UnreconciledHasOwner'
  OBVIOUS
<1> USE ThreadAssumption, SettingsAssumption
    DEF IInv, TypeOK, LocksOwned, NoReattachWhileConnected, UnreconciledHasOwner, IsConnected,
        NoteConnectionFailure, AttemptPcs, InitializePcs, ReconnectPcs, locks, timers,
        offset, terminal
<1>1. ASSUME NEW w \in Workers,
             Enter(w) \/ VerifyAcquire(w) \/ CooldownCheck(w)
      PROVE  UnreconciledHasOwner'
  BY <1>1 DEF Enter, VerifyAcquire, CooldownCheck
<1>2. ASSUME NEW w \in Workers,
             Probe(w) \/ ProbeOk(w) \/ ProbeFailed(w) \/ Handle(w)
      PROVE  UnreconciledHasOwner'
  BY <1>2 DEF Probe, ProbeOk, ProbeFailed, Handle
<1>3. ASSUME NEW w \in Workers, AcquireReconnect(w) \/ Recheck(w)
      PROVE  UnreconciledHasOwner'
  BY <1>3 DEF AcquireReconnect, TakeReconnectLock, Recheck
<1>4. ASSUME NEW p \in Threads, Attach(p) PROVE UnreconciledHasOwner'
  BY <1>4 DEF Attach
<1>5. ASSUME NEW p \in Threads, AccountInfo(p) PROVE UnreconciledHasOwner'
  BY <1>5 DEF AccountInfo
<1>6. ASSUME NEW p \in Threads, MarkConnected(p) PROVE UnreconciledHasOwner'
  <2>1. CASE p = Main
    BY <1>6, <2>1 DEF MarkConnected, BootBeforeReconnect, Serving
  <2>2. CASE p \in Workers
    BY <1>6, <2>2 DEF MarkConnected, SetConnected
  <2> QED
    BY <2>1, <2>2
<1>7. ASSUME NEW p \in Threads, Derive(p) \/ AttachFailed(p) \/ Retry(p)
      PROVE  UnreconciledHasOwner'
  BY <1>7 DEF Derive, AttachFailed, Retry
<1>8. ASSUME NEW w \in Workers, Reconcile(w) PROVE UnreconciledHasOwner'
  BY <1>8 DEF Reconcile
<1>9. ASSUME NEW w \in Workers, ReconcileFailed(w) PROVE UnreconciledHasOwner'
  BY <1>9 DEF ReconcileFailed
<1>10. ASSUME NEW w \in Workers, NoteFailure(w) \/ NoteSuccess(w)
       PROVE  UnreconciledHasOwner'
  BY <1>10 DEF NoteFailure, NoteSuccess
<1>11. CASE Shutdown \/ StopClient \/ StopStatus \/ UngatedCall \/ RefresherRead
  BY <1>11 DEF Shutdown, StopClient, StopStatus, UngatedCall, RefresherRead
<1>12. CASE Tick \/ Terminal \/ UNCHANGED vars
  BY <1>12 DEF Tick, Terminal, TerminalDies, TerminalLogsOut, TerminalRecovers, vars
<1> QED
  BY <1>1, <1>2, <1>3, <1>4, <1>5, <1>6, <1>7, <1>8, <1>9, <1>10, <1>11, <1>12
  DEF Next, MainStep, Work, Initialize
-----------------------------------------------------------------------------
\* Only a worker's attach makes a session fresh, and create_app never runs
\* again.
LEMMA BootStep ==
    IInv /\ BootBeforeReconnect /\ [Next]_vars => BootBeforeReconnect'
<1> SUFFICES ASSUME IInv, BootBeforeReconnect, [Next]_vars PROVE BootBeforeReconnect'
  OBVIOUS
<1> USE ThreadAssumption
    DEF IInv, TypeOK, BootFirst, BootBeforeReconnect, Serving, InitializePcs, locks, timers,
        offset, terminal
<1>1. ASSUME NEW w \in Workers, Enter(w) \/ Work(w) PROVE BootBeforeReconnect'
  <2>1. CASE Serving
    <3>1. pc'[Main] = pc[Main]
      BY <1>1 DEF Enter, Work, VerifyAcquire, Probe, ProbeOk, ProbeFailed, CooldownCheck,
         AcquireReconnect, TakeReconnectLock, Recheck, Initialize, Attach, AccountInfo,
         MarkConnected, Derive, AttachFailed, Retry, Reconcile, ReconcileFailed, NoteFailure,
         NoteSuccess, Handle
    <3> QED
      BY <2>1, <3>1
  <2>2. CASE ~Serving
    <3>1. pc[w] = "idle" /\ ~Enter(w)
      BY <2>2 DEF Enter
    <3>2. ~Work(w)
      BY <3>1 DEF Work, VerifyAcquire, Probe, ProbeOk, ProbeFailed, CooldownCheck,
         AcquireReconnect, Recheck, Initialize, Attach, AccountInfo, MarkConnected, Derive,
         AttachFailed, Retry, Reconcile, ReconcileFailed, NoteFailure, NoteSuccess, Handle
    <3> QED
      BY <1>1, <3>1, <3>2
  <2> QED
    BY <2>1, <2>2
<1>2. CASE MainStep
  BY <1>2 DEF MainStep, Initialize, Attach, AccountInfo, MarkConnected, Derive, AttachFailed,
     Retry, Shutdown, StopClient, StopStatus
<1>3. CASE UngatedCall \/ RefresherRead \/ Tick \/ Terminal \/ UNCHANGED vars
  BY <1>3 DEF UngatedCall, RefresherRead, Tick, Terminal, TerminalDies, TerminalLogsOut,
     TerminalRecovers, vars
<1> QED
  BY <1>1, <1>2, <1>3 DEF Next

\* A session that a reconnect published before reconciling it (the status is
\* set first) always has a worker about to reconcile it or give it up: it is
\* never taken for a reconciled one once that worker is done.
THEOREM UnreconciledIsOwned == Spec => []UnreconciledHasOwner
<1>1. Init => BootBeforeReconnect /\ UnreconciledHasOwner
  BY DEF Init, BootBeforeReconnect, UnreconciledHasOwner
<1>2. IInv /\ BootBeforeReconnect /\ UnreconciledHasOwner /\ [Next]_vars
      => (BootBeforeReconnect /\ UnreconciledHasOwner)'
  BY OwnerStep, BootStep
<1> QED
  BY <1>1, <1>2, Invariance, PTL DEF Spec

-----------------------------------------------------------------------------
(* How long the reconnect lock is held.                                    *)

\* The steps w may still take before it releases the reconnect lock.
StepsToRelease(w) ==
    LET retries == 7 * (MaxAttempts - attempt[w])
    IN  CASE pc[w] = "recheck" -> 7 * MaxAttempts + 2
          [] pc[w] = "attach" -> retries + 8
          [] pc[w] = "account" -> retries + 7
          [] pc[w] = "mark" -> retries + 6
          [] pc[w] = "derive" -> retries + 5
          [] pc[w] = "attach_failed" -> retries + 3
          [] pc[w] = "backoff" -> retries + 2
          [] pc[w] = "reconcile" -> 3
          [] pc[w] = "reconcile_failed" -> 2
          [] pc[w] \in {"failed", "succeeded"} -> 1
          [] OTHER -> 0

\* Nobody else's step brings the holder back, and its own bring it nearer to
\* the release.
HolderCountsDown ==
    \A w \in Workers : reconnectLock = w =>
        /\ StepsToRelease(w)' <= StepsToRelease(w)
        /\ Work(w) => StepsToRelease(w)' < StepsToRelease(w)

\* The bounds of the count.
HoldBounded ==
    \A w \in Workers :
        /\ StepsToRelease(w) \in 0..(7 * MaxAttempts + 2)
        /\ StepsToRelease(w) = 0 <=> reconnectLock # w

LEMMA HoldBoundedTyped == IInv => HoldBounded
<1> SUFFICES ASSUME IInv, NEW w \in Workers
             PROVE  /\ StepsToRelease(w) \in 0..(7 * MaxAttempts + 2)
                    /\ StepsToRelease(w) = 0 <=> reconnectLock # w
  BY DEF HoldBounded
<1>1. attempt[w] \in 1..MaxAttempts /\ MaxAttempts \in Nat /\ pc[w] \in WorkerPcs
  BY SettingsAssumption DEF IInv, TypeOK
<1>2. pc[w] \in ReconnectPcs <=> reconnectLock = w
  BY DEF IInv, LocksOwned
<1>3. CASE pc[w] \in ReconnectPcs
  BY <1>1, <1>2, <1>3 DEF StepsToRelease, ReconnectPcs, AttemptPcs, InitializePcs
<1>4. CASE pc[w] \notin ReconnectPcs
  BY <1>1, <1>2, <1>4 DEF StepsToRelease, ReconnectPcs, AttemptPcs, InitializePcs
<1> QED
  BY <1>3, <1>4

\* A thread moves only itself.
LEMMA OthersStay ==
    ASSUME TypeOK, NEW w \in Workers, [Next]_vars, ~Work(w), pc[w] # "idle"
    PROVE  pc'[w] = pc[w] /\ attempt'[w] = attempt[w]
<1> USE ThreadAssumption DEF TypeOK, locks, timers, offset, terminal
<1>1. ASSUME NEW u \in Workers \cup {Main}, u # w, Initialize(u)
      PROVE  pc'[w] = pc[w] /\ attempt'[w] = attempt[w]
  BY <1>1 DEF Initialize, Attach, AccountInfo, MarkConnected, Derive, AttachFailed, Retry
<1>2. ASSUME NEW u \in Workers, u # w, Enter(u) \/ Work(u)
      PROVE  pc'[w] = pc[w] /\ attempt'[w] = attempt[w]
  <2>1. CASE Initialize(u)
    BY <1>1, <1>2, <2>1
  <2>2. CASE Enter(u) \/ VerifyAcquire(u) \/ Probe(u) \/ ProbeOk(u) \/ ProbeFailed(u)
             \/ CooldownCheck(u)
    BY <1>2, <2>2 DEF Enter, VerifyAcquire, Probe, ProbeOk, ProbeFailed, CooldownCheck
  <2>3. CASE AcquireReconnect(u) \/ Recheck(u) \/ Reconcile(u) \/ ReconcileFailed(u)
             \/ NoteFailure(u) \/ NoteSuccess(u) \/ Handle(u)
    BY <1>2, <2>3
    DEF AcquireReconnect, TakeReconnectLock, Recheck, Reconcile, ReconcileFailed, NoteFailure,
        NoteSuccess, Handle
  <2> QED
    BY <1>2, <2>1, <2>2, <2>3 DEF Work
<1>3. ~Enter(w)
  BY DEF Enter
<1>4. CASE MainStep
  <2>1. Main # w
    OBVIOUS
  <2>2. CASE Initialize(Main)
    BY <1>1, <2>1, <2>2
  <2>3. CASE Shutdown \/ StopClient \/ StopStatus
    BY <2>1, <2>3 DEF Shutdown, StopClient, StopStatus
  <2> QED
    BY <1>4, <2>2, <2>3 DEF MainStep
<1>5. CASE UngatedCall \/ RefresherRead \/ Tick \/ Terminal \/ UNCHANGED vars
  BY <1>5 DEF UngatedCall, RefresherRead, Tick, Terminal, TerminalDies, TerminalLogsOut,
     TerminalRecovers, vars
<1> QED
  BY <1>2, <1>3, <1>4, <1>5 DEF Next

\* The holder's own steps.
LEMMA HolderStep ==
    ASSUME IInv, NEW w \in Workers, reconnectLock = w, Work(w)
    PROVE  StepsToRelease(w)' < StepsToRelease(w)
<1> USE ThreadAssumption, SettingsAssumption
<1>1. /\ pc \in [Threads -> MainPcs \cup WorkerPcs] /\ attempt \in [Threads -> 1..MaxAttempts]
      /\ w # Main
  BY DEF IInv, TypeOK
<1>2. attempt[w] \in 1..MaxAttempts /\ MaxAttempts \in Nat
  BY <1>1
<1>3. pc[w] \in ReconnectPcs
  BY DEF IInv, LocksOwned
<1> USE <1>1, <1>2 DEF StepsToRelease
<1>4. CASE Recheck(w)
  BY <1>4 DEF Recheck, ReconnectPcs, AttemptPcs, InitializePcs
<1>5. CASE Attach(w)
  BY <1>5 DEF Attach
<1>6. CASE AccountInfo(w)
  BY <1>6 DEF AccountInfo
<1>7. CASE MarkConnected(w)
  BY <1>7 DEF MarkConnected
<1>8. CASE Derive(w)
  BY <1>8 DEF Derive
<1>9. CASE AttachFailed(w)
  BY <1>9 DEF AttachFailed
<1>10. CASE Retry(w)
  <2>1. attempt[w] < MaxAttempts
    BY <1>10 DEF Retry, IInv, AttemptsLeft
  <2> QED
    BY <1>10, <2>1 DEF Retry
<1>11. CASE Reconcile(w) \/ ReconcileFailed(w)
  BY <1>11 DEF Reconcile, ReconcileFailed
<1>12. CASE NoteFailure(w) \/ NoteSuccess(w)
  BY <1>12 DEF NoteFailure, NoteSuccess
<1>13. ~(VerifyAcquire(w) \/ Probe(w) \/ ProbeOk(w) \/ ProbeFailed(w)
         \/ CooldownCheck(w) \/ AcquireReconnect(w) \/ Handle(w))
  BY <1>3 DEF VerifyAcquire, Probe, ProbeOk, ProbeFailed, CooldownCheck, AcquireReconnect,
     Handle, ReconnectPcs, AttemptPcs, InitializePcs
<1> QED
  BY <1>4, <1>5, <1>6, <1>7, <1>8, <1>9, <1>10, <1>11, <1>12, <1>13 DEF Work, Initialize

\* A worker releases the reconnect lock within 7 * MT5_RECONNECT_ATTEMPTS + 2
\* steps of its own, whatever the terminal, the signals and the other threads
\* do (what LocksReleased needs beside fairness).
THEOREM LockHoldBounded == Spec => []HoldBounded /\ [][HolderCountsDown]_vars
<1>1. IInv' => HoldBounded'
  BY HoldBoundedTyped, PTL
<1>2. IInv /\ IInv' /\ [Next]_vars => [HolderCountsDown]_vars
  <2> SUFFICES ASSUME IInv, IInv', [Next]_vars, NEW w \in Workers, reconnectLock = w
               PROVE  /\ StepsToRelease(w)' <= StepsToRelease(w)
                      /\ Work(w) => StepsToRelease(w)' < StepsToRelease(w)
    BY DEF HolderCountsDown
  <2>1. StepsToRelease(w) \in Int /\ StepsToRelease(w)' \in Int
    BY <1>1, HoldBoundedTyped, SettingsAssumption DEF HoldBounded
  <2>2. Work(w) => StepsToRelease(w)' < StepsToRelease(w)
    BY HolderStep
  <2>3. CASE ~Work(w)
    <3>1. pc[w] # "idle"
      BY DEF IInv, LocksOwned, ReconnectPcs, AttemptPcs, InitializePcs
    <3>2. pc'[w] = pc[w] /\ attempt'[w] = attempt[w]
      BY <2>3, <3>1, OthersStay DEF IInv
    <3>3. StepsToRelease(w)' = StepsToRelease(w)
      BY <3>2 DEF StepsToRelease
    <3> QED
      BY <2>1, <2>3, <3>3
  <2> QED
    BY <2>1, <2>2, <2>3
<1> QED
  BY <1>2, HoldBoundedTyped, Invariance, PTL DEF Spec
=============================================================================
