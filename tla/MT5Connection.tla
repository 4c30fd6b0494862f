---------------------------- MODULE MT5Connection ----------------------------
(***************************************************************************)
(* The connection manager of app/mt5_connection.py: the request threads    *)
(* of waitress that run ensure_connection, the main thread that attaches   *)
(* at boot and runs the signal handler, and the daemon thread that         *)
(* refreshes the broker clock offset, all sharing one MetaTrader5 client.  *)
(*                                                                         *)
(* A call into the client runs under the RLock of SerializedMT5 together   *)
(* with the failure callback it may trigger, so call and callback are one  *)
(* step; everything between two calls is a step of its own.  Monotonic     *)
(* deadlines are kept as the time left until them: verifyLeft for          *)
(* _last_verified_at + TTL and coolLeft for _reconnect_not_before.         *)
(***************************************************************************)
EXTENDS Integers

CONSTANTS
    Workers,        \* request threads (waitress --threads)
    Main,           \* the main thread: boot attach, signal handler
    Nobody,         \* value of a lock that no thread holds
    MaxAttempts,    \* MT5_RECONNECT_ATTEMPTS
    VerifyTTL,      \* MT5_CONNECTION_VERIFY_TTL_SECONDS, 0 probes always
    CooldownBase,   \* MT5_RECONNECT_COOLDOWN_SECONDS
    CooldownMax,    \* MT5_RECONNECT_COOLDOWN_MAX_SECONDS
    MaxDoublings,   \* largest exponent 2 ** k converts to a float (1023)
    FailedCap       \* bound: failed reconnects are counted up to here

ASSUME ThreadAssumption ==
    /\ Main \notin Workers
    /\ Nobody \notin Workers

ASSUME SettingsAssumption ==
    /\ MaxAttempts \in Nat \ {0}
    /\ VerifyTTL \in Nat
    /\ CooldownBase \in Nat \ {0}
    /\ CooldownMax \in Nat \ {0}
    /\ MaxDoublings \in Nat
    /\ FailedCap \in Nat \ {0}

VARIABLES
    status,             \* MT5Connection._status
    verifyLeft,         \* time the last verification stays fresh
    coolLeft,           \* time left of the reconnect back-off window
    failedReconnects,   \* MT5Connection._failed_reconnects
    verifyLock,         \* holder of _verify_lock
    reconnectLock,      \* holder of _reconnect_lock
    refresher,          \* the offset refresher thread was created
    refreshStop,        \* _offset_refresh_stop is set
    session,            \* what the native client is attached to
    health,             \* the terminal process, as its calls see it
    pc,                 \* where each thread is
    attempt             \* the attempt counter of initialize, per thread

locks == <<verifyLock, reconnectLock>>
timers == <<verifyLeft, coolLeft>>
offset == <<refresher, refreshStop>>
terminal == <<session, health>>
vars == <<status, timers, failedReconnects, locks, offset, terminal, pc, attempt>>

Threads == Workers \cup {Main}

\* "attached" by the boot, "fresh" from a reconnect, "reconciled" after it.
Sessions == {"none", "boot", "fresh", "reconciled"}

InitializePcs == {"attach", "account", "mark", "derive", "attach_failed", "backoff"}
AttemptPcs == InitializePcs \cup {"reconcile", "reconcile_failed", "failed", "succeeded"}
ReconnectPcs == AttemptPcs \cup {"recheck"}
ProbePcs == {"probe", "probe_ok", "probe_failed"}
MainPcs == InitializePcs \cup {"running", "stop_client", "stop_status"}
WorkerPcs == ReconnectPcs \cup ProbePcs
                \cup {"idle", "verify", "cooldown", "acquire", "serve"}

TypeOK ==
    /\ status \in {"disconnected", "connected", "reconnecting"}
    /\ verifyLeft \in 0..VerifyTTL
    /\ coolLeft \in 0..CooldownMax
    /\ failedReconnects \in 0..FailedCap
    /\ verifyLock \in Workers \cup {Nobody}
    /\ reconnectLock \in Workers \cup {Nobody}
    /\ refresher \in BOOLEAN
    /\ refreshStop \in BOOLEAN
    /\ session \in Sessions
    /\ health \in {"ok", "logged_out", "gone"}
    /\ pc \in [Threads -> MainPcs \cup WorkerPcs]
    /\ pc[Main] \in MainPcs
    /\ \A w \in Workers : pc[w] \in WorkerPcs
    /\ attempt \in [Threads -> 1..MaxAttempts]

-----------------------------------------------------------------------------
(* The process before create_app: the main thread is about to run          *)
(* initialize, the terminal the boot script started may or may not answer. *)

Init ==
    /\ status = "disconnected"
    /\ verifyLeft = 0
    /\ coolLeft = 0
    /\ failedReconnects = 0
    /\ verifyLock = Nobody
    /\ reconnectLock = Nobody
    /\ refresher = FALSE
    /\ refreshStop = FALSE
    /\ session = "none"
    /\ health \in {"ok", "logged_out", "gone"}
    /\ pc = [p \in Threads |-> IF p = Main THEN "attach" ELSE "idle"]
    /\ attempt = [p \in Threads |-> 1]

\* create_app returned, so waitress is handing requests to the workers.
Serving == pc[Main] \notin InitializePcs

Goto(p, label) == pc' = [pc EXCEPT ![p] = label]

\* A call of the attached client answers, or returns None.
CallAnswers == session # "none" /\ health = "ok"

\* None with a last_error at or below MT5_IPC_FAILURE_CODE; a terminal that
\* is only logged out returns None with a benign code.
IpcFailure == session = "none"

IsConnected == status = "connected"
VerificationFresh == verifyLeft > 0
CoolingDown == coolLeft > 0

\* _set_status(CONNECTED) also counts as a verification.
SetConnected ==
    /\ status' = "connected"
    /\ verifyLeft' = VerifyTTL

\* note_connection_failure, run inside the failing call.
NoteConnectionFailure ==
    status' = IF IpcFailure /\ IsConnected THEN "disconnected" ELSE status

-----------------------------------------------------------------------------
(* ensure_connection, first half: trust the cached state, probe when it is *)
(* stale.  Returning True is "serve", returning False (503) is "idle".     *)

Enter(w) ==
    /\ Serving
    /\ pc[w] = "idle"
    /\ Goto(w, IF ~IsConnected THEN "cooldown"
               ELSE IF VerificationFresh THEN "serve" ELSE "verify")
    /\ UNCHANGED <<status, timers, failedReconnects, locks, offset, terminal, attempt>>

\* _verify_live_connection: take _verify_lock, then look again.
VerifyAcquire(w) ==
    /\ pc[w] = "verify"
    /\ verifyLock = Nobody
    /\ \/ /\ IsConnected /\ ~VerificationFresh
          /\ verifyLock' = w
          /\ Goto(w, "probe")
       \/ /\ ~IsConnected \/ VerificationFresh
          /\ Goto(w, IF IsConnected THEN "serve" ELSE "cooldown")
          /\ UNCHANGED verifyLock
    /\ UNCHANGED <<status, timers, failedReconnects, reconnectLock, offset, terminal, attempt>>

\* The account_info() round trip.
Probe(w) ==
    /\ pc[w] = "probe"
    /\ Goto(w, IF CallAnswers THEN "probe_ok" ELSE "probe_failed")
    /\ NoteConnectionFailure
    /\ UNCHANGED <<timers, failedReconnects, locks, offset, terminal, attempt>>

ProbeOk(w) ==
    /\ pc[w] = "probe_ok"
    /\ verifyLeft' = VerifyTTL
    /\ verifyLock' = Nobody
    /\ Goto(w, "serve")
    /\ UNCHANGED <<status, coolLeft, failedReconnects, reconnectLock, offset, terminal, attempt>>

\* The status is set whatever it became since the probe was sent.
ProbeFailedKeepsStatus(w) ==
    /\ pc[w] = "probe_failed"
    /\ verifyLock' = Nobody
    /\ Goto(w, "cooldown")
    /\ UNCHANGED <<status, timers, failedReconnects, reconnectLock, offset, terminal, attempt>>
ProbeFailedKeepsLock(w) ==
    /\ pc[w] = "probe_failed"
    /\ status' = "disconnected"
    /\ Goto(w, "cooldown")
    /\ UNCHANGED <<timers, failedReconnects, locks, offset, terminal, attempt>>
ProbeFailed(w) ==
    /\ pc[w] = "probe_failed"
    /\ status' = "disconnected"
    /\ verifyLock' = Nobody
    /\ Goto(w, "cooldown")
    /\ UNCHANGED <<timers, failedReconnects, reconnectLock, offset, terminal, attempt>>

-----------------------------------------------------------------------------
(* ensure_connection, second half: one worker reconnects, the others fail  *)
(* fast.                                                                   *)

CooldownCheck(w) ==
    /\ pc[w] = "cooldown"
    /\ Goto(w, IF CoolingDown THEN "idle" ELSE "acquire")
    /\ UNCHANGED <<status, timers, failedReconnects, locks, offset, terminal, attempt>>

\* acquire(blocking=False)
TakeReconnectLockAnyway(w) ==
    /\ reconnectLock' = w
    /\ Goto(w, "recheck")
TakeReconnectLock(w) ==
    IF reconnectLock = Nobody
    THEN /\ reconnectLock' = w
         /\ Goto(w, "recheck")
    ELSE /\ Goto(w, "idle")
         /\ UNCHANGED reconnectLock

AcquireReconnect(w) ==
    /\ pc[w] = "acquire"
    /\ TakeReconnectLock(w)
    /\ UNCHANGED <<status, timers, failedReconnects, verifyLock, offset, terminal, attempt>>

\* Under the lock: another worker may have reconnected, or failed, meanwhile.
MustReconnectIgnoringCooldown == ~IsConnected
MustReconnectIgnoringStatus == ~CoolingDown
MustReconnect == ~IsConnected /\ ~CoolingDown

Recheck(w) ==
    /\ pc[w] = "recheck"
    /\ \/ /\ MustReconnect
          /\ Goto(w, "attach")
          /\ attempt' = [attempt EXCEPT ![w] = 1]
          /\ UNCHANGED reconnectLock
       \/ /\ ~MustReconnect
          /\ reconnectLock' = Nobody
          /\ Goto(w, IF IsConnected THEN "serve" ELSE "idle")
          /\ UNCHANGED attempt
    /\ UNCHANGED <<status, timers, failedReconnects, verifyLock, offset, terminal>>

-----------------------------------------------------------------------------
(* initialize(): run by the main thread at boot and by the worker that     *)
(* holds the reconnect lock.                                               *)

\* mt5.initialize() returns False, not None, when it fails: no callback.
Attach(p) ==
    /\ pc[p] = "attach"
    /\ IF health = "gone"
       THEN /\ Goto(p, "attach_failed")
            /\ UNCHANGED session
       ELSE /\ Goto(p, "account")
            /\ session' = IF p = Main THEN "boot" ELSE "fresh"
    /\ UNCHANGED <<status, timers, failedReconnects, locks, offset, health, attempt>>

AccountInfo(p) ==
    /\ pc[p] = "account"
    /\ Goto(p, IF CallAnswers THEN "mark" ELSE "attach_failed")
    /\ NoteConnectionFailure
    /\ UNCHANGED <<timers, failedReconnects, locks, offset, terminal, attempt>>

\* _set_status(CONNECTED), before any reconciliation.
MarkConnected(p) ==
    /\ pc[p] = "mark"
    /\ SetConnected
    /\ Goto(p, "derive")
    /\ UNCHANGED <<coolLeft, failedReconnects, locks, offset, terminal, attempt>>

\* _refresh_server_offset reads quotes; then start_offset_refresher.
Derive(p) ==
    /\ pc[p] = "derive"
    /\ NoteConnectionFailure
    /\ refresher' = TRUE
    /\ Goto(p, IF p = Main THEN "running" ELSE "reconcile")
    /\ UNCHANGED <<timers, failedReconnects, locks, refreshStop, terminal, attempt>>

AttachFailed(p) ==
    /\ pc[p] = "attach_failed"
    /\ status' = "disconnected"
    /\ Goto(p, IF attempt[p] < MaxAttempts THEN "backoff"
               ELSE IF p = Main THEN "running" ELSE "failed")
    /\ UNCHANGED <<timers, failedReconnects, locks, offset, terminal, attempt>>

\* The sleep between two attempts ends; any time may have passed.
Retry(p) ==
    /\ pc[p] = "backoff"
    /\ attempt' = [attempt EXCEPT ![p] = @ + 1]
    /\ status' = "reconnecting"
    /\ Goto(p, "attach")
    /\ UNCHANGED <<timers, failedReconnects, locks, offset, terminal>>

Initialize(p) ==
    \/ Attach(p)
    \/ AccountInfo(p)
    \/ MarkConnected(p)
    \/ Derive(p)
    \/ AttachFailed(p)
    \/ Retry(p)

-----------------------------------------------------------------------------
(* The end of ensure_connection: reconcile, note the outcome, release.     *)

\* reconcile() raises when a snapshot call returns None.
Reconcile(w) ==
    /\ pc[w] = "reconcile"
    /\ NoteConnectionFailure
    /\ IF CallAnswers
       THEN /\ session' = IF session = "fresh" THEN "reconciled" ELSE session
            /\ Goto(w, "succeeded")
       ELSE /\ Goto(w, "reconcile_failed")
            /\ UNCHANGED session
    /\ UNCHANGED <<timers, failedReconnects, locks, offset, health, attempt>>

ReconcileFailedKeepsStatus(w) ==
    /\ pc[w] = "reconcile_failed"
    /\ Goto(w, "failed")
    /\ UNCHANGED <<status, timers, failedReconnects, locks, offset, terminal, attempt>>
ReconcileFailed(w) ==
    /\ pc[w] = "reconcile_failed"
    /\ status' = "disconnected"
    /\ Goto(w, "failed")
    /\ UNCHANGED <<timers, failedReconnects, locks, offset, terminal, attempt>>

\* min(cooldown_max, cooldown_base * 2 ** (failures - 1))
Cooldown(failures) ==
    LET doubled == CooldownBase * 2 ^ (failures - 1)
    IN  IF doubled \in 1..CooldownMax THEN doubled ELSE CooldownMax

\* base (a float) * 2 ** k raises OverflowError once 2 ** k is no float.
CooldownOverflows(failures) == failures - 1 > MaxDoublings

CountFailure == IF failedReconnects < FailedCap THEN failedReconnects + 1 ELSE FailedCap

\* _note_reconnect_outcome(False); the lock is released also when it raises.
NoteFailureWithoutWindow(w) ==
    /\ pc[w] = "failed"
    /\ failedReconnects' = CountFailure
    /\ reconnectLock' = Nobody
    /\ Goto(w, "idle")
    /\ UNCHANGED <<status, timers, verifyLock, offset, terminal, attempt>>
NoteFailure(w) ==
    /\ pc[w] = "failed"
    /\ failedReconnects' = CountFailure
    /\ coolLeft' = IF CooldownOverflows(CountFailure) THEN coolLeft ELSE Cooldown(CountFailure)
    /\ reconnectLock' = Nobody
    /\ Goto(w, "idle")
    /\ UNCHANGED <<status, verifyLeft, verifyLock, offset, terminal, attempt>>

\* _note_reconnect_outcome(True)
NoteSuccess(w) ==
    /\ pc[w] = "succeeded"
    /\ failedReconnects' = 0
    /\ coolLeft' = 0
    /\ reconnectLock' = Nobody
    /\ Goto(w, "serve")
    /\ UNCHANGED <<status, verifyLeft, verifyLock, offset, terminal, attempt>>

-----------------------------------------------------------------------------
(* The route runs, and the other users of the client.                      *)

\* The handler's calls, behind require_mt5_connection.
Handle(w) ==
    /\ pc[w] = "serve"
    /\ NoteConnectionFailure
    /\ Goto(w, "idle")
    /\ UNCHANGED <<timers, failedReconnects, locks, offset, terminal, attempt>>

\* Routes that call the client without ensure_connection, /health/ready among
\* them, and the refresher thread while it runs.
UngatedCall ==
    /\ Serving
    /\ IpcFailure
    /\ IsConnected
    /\ NoteConnectionFailure
    /\ UNCHANGED <<timers, failedReconnects, locks, offset, terminal, pc, attempt>>

RefresherRead ==
    /\ refresher /\ ~refreshStop
    /\ IpcFailure
    /\ IsConnected
    /\ NoteConnectionFailure
    /\ UNCHANGED <<timers, failedReconnects, locks, offset, terminal, pc, attempt>>

\* The signal handler interrupts the main thread; it does not exit.
Shutdown ==
    /\ pc[Main] = "running"
    /\ refreshStop' = TRUE
    /\ Goto(Main, IF status # "disconnected" THEN "stop_client" ELSE "running")
    /\ UNCHANGED <<status, timers, failedReconnects, locks, refresher, terminal, attempt>>

StopClient ==
    /\ pc[Main] = "stop_client"
    /\ session' = "none"
    /\ Goto(Main, "stop_status")
    /\ UNCHANGED <<status, timers, failedReconnects, locks, offset, health, attempt>>

StopStatus ==
    /\ pc[Main] = "stop_status"
    /\ status' = "disconnected"
    /\ Goto(Main, "running")
    /\ UNCHANGED <<timers, failedReconnects, locks, offset, terminal, attempt>>

-----------------------------------------------------------------------------
(* Time and the terminal.                                                  *)

Tick ==
    /\ VerificationFresh \/ CoolingDown
    /\ verifyLeft' = IF VerificationFresh THEN verifyLeft - 1 ELSE 0
    /\ coolLeft' = IF CoolingDown THEN coolLeft - 1 ELSE 0
    /\ UNCHANGED <<status, failedReconnects, locks, offset, terminal, pc, attempt>>

TerminalDies ==
    /\ health # "gone"
    /\ health' = "gone"
    /\ session' = "none"
    /\ UNCHANGED <<status, timers, failedReconnects, locks, offset, pc, attempt>>

TerminalLogsOut ==
    /\ health = "ok"
    /\ health' = "logged_out"
    /\ UNCHANGED <<status, timers, failedReconnects, locks, offset, session, pc, attempt>>

\* Restarted (by s6, by initialize or by hand) or logged in again.
TerminalRecovers ==
    /\ health # "ok"
    /\ health' = "ok"
    /\ UNCHANGED <<status, timers, failedReconnects, locks, offset, session, pc, attempt>>

-----------------------------------------------------------------------------
Work(w) ==
    \/ VerifyAcquire(w) \/ Probe(w) \/ ProbeOk(w) \/ ProbeFailed(w)
    \/ CooldownCheck(w) \/ AcquireReconnect(w) \/ Recheck(w)
    \/ Initialize(w)
    \/ Reconcile(w) \/ ReconcileFailed(w) \/ NoteFailure(w) \/ NoteSuccess(w)
    \/ Handle(w)

MainStep == Initialize(Main) \/ Shutdown \/ StopClient \/ StopStatus

Terminal == TerminalDies \/ TerminalLogsOut \/ TerminalRecovers

Next ==
    \/ \E w \in Workers : Enter(w) \/ Work(w)
    \/ MainStep
    \/ UngatedCall
    \/ RefresherRead
    \/ Tick
    \/ Terminal

Spec == Init /\ [][Next]_vars

\* Threads run on, time passes, and requests keep arriving; nothing is
\* promised of the terminal or of signals.
Fairness ==
    /\ \A w \in Workers : WF_vars(Enter(w)) /\ WF_vars(Work(w))
    /\ WF_vars(Initialize(Main) \/ StopClient \/ StopStatus)
    /\ WF_vars(Tick)

FairSpec == Spec /\ Fairness

-----------------------------------------------------------------------------
(* Safety.                                                                 *)

\* Every thread inside a locked region holds that lock, and a lock is held
\* only by a thread inside the region: ensure_connection releases on every
\* path, and at most one worker is between initialize and the outcome.
LocksOwned ==
    \A w \in Workers :
        /\ pc[w] \in ReconnectPcs <=> reconnectLock = w
        /\ pc[w] \in ProbePcs <=> verifyLock = w

\* A worker starts a reconnect only when no back-off window is open, even
\* when it checked the window before another worker failed.
BackoffRespected ==
    \A w \in Workers : pc[w] = "attach" /\ attempt[w] = 1 => coolLeft = 0

\* initialize() is never run on a session the status says is connected: a
\* worker that waited while another one reconnected does not do it again.
NoReattachWhileConnected ==
    \A p \in Threads : pc[p] \in {"attach", "account", "mark"} => status # "connected"

\* The attempt in progress, as ReconnectGate sees it.
GateHolder ==
    IF reconnectLock # Nobody /\ pc[reconnectLock] \in AttemptPcs
    THEN reconnectLock ELSE Nobody

GateVerdict ==
    IF GateHolder = Nobody THEN "none"
    ELSE IF pc[GateHolder] = "failed" THEN "failed"
    ELSE IF pc[GateHolder] = "succeeded" THEN "worked" ELSE "trying"

Gate == INSTANCE ReconnectGate
            WITH holder <- GateHolder, verdict <- GateVerdict, cool <- coolLeft

\* Attempts are single-flight, and every failed one opens a back-off window.
ImplementsGate == Gate!Spec

-----------------------------------------------------------------------------
(* Liveness.                                                               *)

\* A connection whose terminal is gone or logged out does not keep its
\* status: a failing call or the TTL probe finds out.
UnusableSessionDetected ==
    (IsConnected /\ ~CallAnswers) ~> (~IsConnected \/ CallAnswers)

\* A session a reconnect published before reconciling it is reconciled or
\* given up.
UnreconciledWindowCloses ==
    (IsConnected /\ session = "fresh") ~> (~IsConnected \/ session # "fresh")

\* Once the terminal stays usable the gateway settles on a usable session,
\* whatever probes, failures and signals were still in flight.
Recovers ==
    <>[](health = "ok" /\ pc[Main] = "running")
        => <>[](IsConnected /\ session \in {"boot", "reconciled"})

\* Neither lock is held for ever.
LocksReleased ==
    \A w \in Workers :
        /\ reconnectLock = w ~> reconnectLock # w
        /\ verifyLock = w ~> verifyLock # w
=============================================================================
