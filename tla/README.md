# A TLA+ model of mt5-gateway

mt5-gateway is a Flask service that exposes one MetaTrader 5 terminal over HTTP.
The terminal, its Windows Python client (`MetaTrader5`) and the service share a
Wine container; waitress runs the service with several request threads, and
everything they do goes through one native client with one terminal session.
This directory holds TLA+ modules that model the parts of the service where that
sharing, and the unreliability of the terminal and the trade server behind it,
make correctness hard; TLC configurations that check them on small instances; and
theorems about them, for every value of the constants, that TLAPS checks.

Paths below are relative to the repository root (`app/...` is `src/app/...`).

## 1. Inventory

| component | state it keeps | operations |
|---|---|---|
| Connection manager, serialized client (`app/mt5_connection.py`, `app/app.py`, `app/decorators.py`, `app/reconciliation.py`) | status, last verification, back-off deadline, failure count, `_verify_lock`, `_reconnect_lock`, refresher thread and its stop event | `initialize`, `ensure_connection`, `shutdown`, `note_connection_failure`, `start_offset_refresher` |
| Idempotency store (`app/idempotency.py`) | ordered dict of keys with fingerprint, response, status and creation time | `begin`, `complete`, `abandon`, purge |
| Order submission (`app/routes/order.py`, `app/retcodes.py`, `app/errors.py`) | the reservation of a request while it runs | POST /order, DELETE and PUT /orders/&lt;ticket&gt;, /order_check, /order_calc_*; the wait for an asynchronous fill price |
| Closing positions (`app/routes/position.py`, `app/lib.py`, `app/close_confirm.py`) | none of its own; the positions at the trade server | /close_position, /position_close_partial, /close_all_positions, /modify_sl_tp |
| Kill switch, gate, flatten (`app/kill_switch.py`, `app/security.py`, `app/routes/control.py`) | a file whose existence is the switch | POST /kill (with flatten), POST /kill/release, the gate before each request |
| Broker time (`app/time_utils.py`, `app/order_time.py`) | derived offset, its source and age, the pending offset and its count: module globals without a lock | `derive_from_tick`, `set_derived_offset`, `resolve_offset_seconds`, `utc_epoch_to_server`, `apply_expiration` |
| Boot login loop (`scripts/04-install-mt5.sh`, `app/autologin.py`, `app/broker_resolver.py`) | the candidate list, the terminal process, the session marker file | launch, wait for authorization, kill, next candidate |
| Order rules (`app/money.py`, `app/pretrade.py`, `app/order_requests.py`, validators of `app/lib.py`) | none | volume, price, SL/TP and pending-price rules |
| Symbol cache (`app/lib.py`) | bounded FIFO of selected symbols, under a lock | `validate_symbol`, `invalidate_symbol` |
| Read routes (`history.py`, `symbol.py`, `data.py`, `account.py`), health, metrics | counters | reads of the client |
| Audit log, request limits, envelope, logging, swagger | an append-only file | I/O and formatting |
| Attestation (`attestation/run.py`, `cases.py`, `verify.py`) | the results of a run, its positions at the broker, the records on disk | a run of the plan, flatten, the final watch, the record, verification |
| Image scripts (`scripts/mt5-terminal-build.py`) | none in the service | building the image |

**How they interact.** Every request thread first passes the security hook (API
key, kill switch), then `require_mt5_connection`, which calls `ensure_connection`
and answers 503 when it returns False. The handler then calls the client; each
call holds the RLock of `SerializedMT5` for its own duration only, and a call
that fails with an IPC code runs `note_connection_failure` before it gives the
lock back. Between two calls of one handler any other thread may run. The main
thread attaches once before waitress serves and runs the signal handler later; a
daemon thread refreshes the broker clock offset. The trade server executes what
it is sent, may execute what it never answers, and changes positions by itself
(pending orders trigger, acknowledged closes land later).

**What is hard, and what makes each part correct.**

- *Connection manager.* Many threads find the session dead at once, two locks and
  a lock-free fast path decide who reconnects, results of probes arrive after the
  state has moved on. Correct: one attempt at a time, none inside a back-off
  window, none on a live session, every failed attempt opens a window, locks
  are released on every path, a dead session is found out, and the gateway recovers.
- *Idempotency and order submission.* Outcomes of `order_send` that prove nothing
  (None, 10012, 10031, unknown codes) decide between a double order and a key
  that is locked; expiry, slow requests and restarts take reservations away.
  Correct: at most one order under a key while it is remembered, repeats get the
  first answer, no answer contradicts what the server did, no reservation stays
  pending.
- *Closing.* Positions change between the read and the send, a close may be
  acknowledged without price and executed later, an answer may be lost. Correct:
  what the response says (refused, remaining volume, price source, one row per
  position) is true of the server's book, and every request ends.
- *Kill switch.* The gate is looked at once, at the start of a request. Correct:
  when the requests that were let in are through, nothing but an order already at
  the server can add exposure until the release.
- *Order rules and symbol cache.* An order is rounded and checked in a dozen steps, each against a
  quote of its own, and the symbol may have left Market Watch although the cache vouches for it.
  Correct: what is sent is within the limits and protects its owner at the price that is sent,
  /order_check agrees with POST /order, an executed order has its price or says that it has none,
  and a stale symbol heals.
- *Modifying.* PUT /orders and /modify_sl_tp read an order or position, fill in what the body leaves
  out, and send the whole: another request may change it in between. Correct: no resting order
  is left with a level on the wrong side of its price, what is omitted stays, answers are true.
- *Broker time.* Two threads change five globals without a lock; a wrong reading must
  not replace a good offset, an old offset must not be used.
- *Boot login.* A shell loop and the API decide about the same terminal by a file.
- *Attestation.* Real orders, unclear replies, fills that come after the case that ordered them, runs that are
  cut or partial. Correct: a record means a full run over an account that its last answered look found flat, and a source is attested
  only when both of its images have had one.

The full list of hazards, each with its line and the properties that cover it, is
`hazards` in `PROJECT.json`.

## 2. Modules

| module | models | state and actions |
|---|---|---|
| `MT5Connection` | the connection manager | below |
| `ReconnectGate` | abstract: what the reconnect path promises the terminal | a holder, its verdict, and the time until the next attempt |
| `IdempotencyStore` | `app/idempotency.py` | operators on the map of entries; each operation holds the store's lock throughout |
| `Retcodes` | tables of `app/retcodes.py`, error types of `app/errors.py` | `ClassifyRetcode`, `AnswerFor` |
| `OrderSubmission` | POST /order, clients that repeat, the trade server | extends the two modules above |
| `OncePerKey` | abstract: what a client may rely on | orders placed and answer per key |
| `Closing` | the three close routes and the confirmation | extends `Retcodes` |
| `TradingHalt` | kill switch, gate, flatten, beside orders and closes | extends `Closing` |
| `ServerTime` | the broker clock offset of `app/time_utils.py` and GTD conversion | below |
| `BootLogin` | the login loop of `scripts/04-install-mt5.sh` beside the API and the terminal | below |
| `OrderRules` | `money.py`, `pretrade.py` and the validators of `lib.py`, as operators on integers | none |
| `SymbolCache` | `validate_symbol`, `invalidate_symbol`, the terminal's Market Watch | below |
| `OrderIntake` | what POST /order checks before it sends, /order_check, /order_calc_*, the fill price | extends the two modules above |
| `Protection` | PUT /orders/&lt;ticket&gt; and POST /modify_sl_tp | extends `OrderRules` and `Retcodes` |
| `Attestation` | `attestation/run.py`, `cases.py`, `verify.py` | below |
| `MT5ConnectionProofs`, `OrderSubmissionProofs`, `OrderIntakeProofs`, `ProtectionProofs`, `ClosingProofs` (with `TradingHalt`), `ServerTimeProofs`, `BootLoginProofs`, `AttestationProofs` | theorems | |
| `MC*` | the same modules with model values and symmetry sets for TLC | |

### MT5Connection

Variables are the attributes of `MT5Connection` (`status`, `failedReconnects`,
the two locks, `refresher`, `refreshStop`), its two deadlines as time left
(`verifyLeft`, `coolLeft`), the native session and the terminal's health, and a
program counter and attempt counter per thread. A call into the client and the
callback it may trigger are one step, because the client's RLock covers both;
all other code between two accesses of shared state is one step per access.
`Enter`, `VerifyAcquire`, `Probe*`, `CooldownCheck`, `AcquireReconnect`,
`Recheck`, `Reconcile*`, `Note*` follow `ensure_connection`; `Attach`,
`AccountInfo`, `MarkConnected`, `Derive`, `AttachFailed`, `Retry` follow
`initialize`, run by a worker or by the main thread at boot; `Shutdown`,
`StopClient`, `StopStatus` are the signal handler, which does not exit the
process; `UngatedCall` is any client call outside `require_mt5_connection`
(`/health/ready`), `RefresherRead` the refresher thread. The terminal dies, logs
out and recovers at any moment. `session` distinguishes what the boot attached, what
a reconnect attached (`fresh`) and what it has reconciled.

### OrderSubmission

One worker per running request; `Receive` is everything up to and including
`begin`, `PreTrade` all the checks (they only read; `OrderIntake` takes them apart), `OrderSend` the call with
every reply the server can give, including none and an exception, and
independently whether the order was executed as far as the reply leaves that
open; `AnswerAndComplete`, `AnswerAndAbandon`, `Release` are the endings and the
`finally` clause. An entry's age is the time it has left. An *intent* stands for
the fingerprint of a body. `SlowRequests` and `Restarts` switch two environment
assumptions: whether a request may outlive the TTL and whether the process may
be restarted.

### OrderIntake, OrderRules and SymbolCache

`OrderRules` has volumes and prices as integers in a unit finer than any in use; a symbol is a record of what
`symbol_info` says. `SymbolCache` makes `validate_symbol` three steps (`Lookup`, `Select`, `Insert`: two locked
regions with an IPC call between them) and lets the terminal restart with an empty Market Watch. `OrderIntake` runs
each request through them and then, for POST /order, through `Volume`, `Price` or `PendingPrice`, `Band`, `Levels`,
`BrokerCheck`, `OrderSend`, in the order of the handler: each reads the market (`bid`) once, and `MarketMoves` may come
between any two. `Poll` and `FillUnresolved` are `_resolve_async_fill`. `OrderCheck` and `OrderCalc` are the read-only
companions, `ReadSymbol` and `ReadData` the routes that share the cache (only the first invalidates). `seen` and
`checked` are history.

### Protection

`PutOrder` and `ModifySltp` read the ticket and form `want`, all that will be sent; `Judge` is the rest of
`modify_order` before the send, which `modify_sl_tp` does not separate from its read; `OrderSend` has every reply
the server can give. The ticket triggers and leaves at any moment. `overtaken` is history: another request changed the ticket
since it was read. A cleared level and a level of 0 are the same named 0; `Keep` is a field that is not in the body.

### Closing

One request per worker again, with the endpoint in `kind`. `ReadPosition` is
`positions_get` with the reads that follow, the `Send*` actions the outcomes of `order_send`
with what the handler makes of them, `ConfirmFound` and `ConfirmTimedOut` the two
ends of `confirm_close`. The server's book is `volume`, `due` (acknowledged, not
executed yet), `deal` (executed for a request) and `newest` (what `closing_deal`
finds when it cannot name the order). Volumes are counted in lots. /close_position needs no more than a ticket, so
`BeginClose` takes every volume and none, and `RemainingAfter` makes of it what the route does. `VerdictOn` is what becomes of a
retcode that is no success: the routes for one position classify it, close_all lists every one under `failed`, those after which
the close may have been executed included. `RefusedMeansUntouched` and `RemainingNotUnderstated` say how far the answers can be
relied on: `SaysRefused` are the answers that claim a refusal, `KnowsVolume` the responses that know what was open.

### TradingHalt

Adds `killed`, the order requests between gate and `order_send`, pending orders,
and the flatten, which removes pending orders one by one and then runs
`close_all_positions` as the close request of `Closing` does. `opened` makes a
ticket usable once.

### ServerTime

The module globals are variables; the service's Python 3.9 may switch threads between any two
accesses of one, and none of them is locked, so each load and store is an action (`Compare`,
`Match`, `Load`, `Increment`, `Replace`, `Restart`, `Check` in `derive_from_tick`; `SetPending`,
`SetCount`, `SetOffset`, `SetAt` in `set_derived_offset`). `ReadQuote` is a quote that moved, late by
some lag, and `DeriveOffset` what its time implies; `BeginOrder`, `NoQuote`, `CheckAge`,
`UseOffset` are `apply_expiration`. The server's clock switches between two offsets and the quotes
are live, lagging or frozen. `lastRead`, `streak` and `overlapped` are history that only the
properties use. No tick passes inside a derivation or a conversion: a tick stands for a
good part of the maximal age of hours, they take microseconds once the quote is read.

### BootLogin

Three processes: the loop (`loop` is where it is, `cand` the candidate it tries), the terminal, and the API, reduced to
what the loop can notice of it. The shared files are `journal` and `marker`, of which only matters
whether there is something and whether it is from the present attempt, and the login server file
`server`. `Launch` starts an attempt (ini, baseline, start time, terminal, in one step: no login is as fast), `Wait` is one check of the window,
`LastLook`, `Kill`, `Record`, `Fallback`, `Shred` its ends. The API attaches (`Attach`), then opens and writes the
marker in steps of their own; `Reconnect` launches a terminal with a login, `GiveLogin` gives one to a terminal
that runs. The first window is longer than the others in seconds only. `shown` and `touched` are history.

### Attestation

One run at a time, in phases: `SkipCase`, `StartCase`, `CaseRefused` begin a case of the plan, `OrderSent`, `Settle`,
`WaitPosition`, `Close`, `FlattenRound`, `FlattenDone`, `FlattenGivesUp` are its round trip, `Watch*` the case
`final_account_is_flat`, `Report` the end of `main`. A case is of one of three kinds, by the gate it has: `login` cases check
for a demo account themselves and fail without one, `session` cases are behind the gate that ends the whole run, `boot` cases
trade without looking. `open` and `late` are positions of the case and its orders that may still fill; when it ends they
become `older` and `olderLate`. What a read of the positions returns is `Listed`: nothing, with status 200, when the terminal does
not answer, so `Settle`, `Close`, `FlattenDone` and `WatchEnds` each may see an empty account whatever is open (`Unanswered`).
`ReadFails` and `Cut` are a gateway that answers with an error or not at all and a process that ends. `sure` is history: the last look of the watch was answered.
Builds follow edits of the tree and no edit falls into a run, which nothing in the code checks. `tested` is history.

## 3. Runs

| run | instance | what it shows |
|---|---|---|
| `MT5Connection` | 2 workers, 2 attempts, TTL 1, back-off 1 doubling to its cap of 2, failures counted to 2 | reconnects single-flight and spaced, locks owned exactly by the threads inside their regions, never on a live session, refinement of `ReconnectGate`; dead sessions found out, unreconciled ones settled, locks released, recovery |
| `OrderSubmission_once` | 2 workers, 1 key, 2 intents, TTL 2, a code of each class and one no table lists | at most one order, remembered, honest answers, refinement of `OncePerKey` |
| `OrderSubmission_hostile` | same, TTL 1, slow requests and restarts | replays stay with their intent, a live reservation ends only with a request of its own intent, reservations resolve |
| `OrderIntake_sent` | 1 order thread, 1 reading thread, 1 symbol with a cache of 1, a market of 2 quotes around which prices and levels lie on both sides, on the tick grid and off it; volumes on and off the step, above the operator's limit and below the broker's; 1 restart, 1 poll | what is sent is within the limits and protects its owner, /order_check agrees with POST /order, prices are known or said to be unknown, stale symbols heal |
| `Protection_levels` | 2 requests, 1 ticket resting as BUY_LIMIT (bare or protected) or SELL_STOP, 2 quotes, a code of success, of refusal and one no table lists | levels stay on the right side, omitted fields stay, answers are true |
| `Protection_omission` | same | **violated**: an omitted stop loss is removed |
| `Closing_reports` | 2 requests, 1 position of 3 lots, bodies with 1 to 3 lots or no volume | responses true, requests answered |
| `TradingHalt_gate` | 2 order requests, 1 close or flatten, 2 tickets, 1 pending order | the gate's guarantee, `close_all` reports each row |
| `TradingHalt_flatten` | 2 tickets, 1 request | **violated**: flatten reports no failure and leaves a position open |
| `ServerTime_offset` | 1 refresher thread, 1 GTD order, an hour of 4 units, offsets 0, 4, 8, two of them the server's, maximal age 1, 2 confirmations | no offset past its age converts, no one-off reading replaces a known offset unless derivations overlap, the cache follows the server |
| `BootLogin_login` | 3 addresses, the first stale, the third also the server's name; windows of 2 checks | sessions shown in time are not killed, recorded addresses worked, the password goes, the API comes back |
| `Attestation_record` | 2 images, 2 sources, a plan with a case of each kind, 2 sends, 2 rounds of flatten, 2 runs | a record means a flat account if the last look was answered, an attestation two full runs, every run ends |

**Bounds and why they are enough.** Two workers give every race between a holder and a
contender; each thread touches shared state only through the two locks, the status and the
deadlines, and a third thread would only repeat what the second does. Failures saturate at
`FailedCap`, the count at which the back-off reaches its cap, so a further
failure changes nothing. One key suffices because no operation of the store relates two keys
(the purge removes each by its own age); the two intents are the equal and the unequal
fingerprint. A TTL of 2 lets a request and an expiry interleave. `placed` counts to 2, the
first wrong value. Three lots are the least in which a partial close can itself be filled in part; one position
and two requests give every race on it, and two positions and one request every loop of `close_all`.
For the offset, one thread of each kind gives every pair of derivations and of a derivation and
a conversion; readings are counted to one more than the confirmations.
One thread on the order routes suffices in `OrderIntake`: requests share only the market, which moves anyhow, and the cache, which the
reading thread contends for; two quotes give every pair of an earlier and a later one, and bodies are chosen
around them so that each rule is met, missed, and missed by rounding alone. A second restart or poll repeats the first.
`Protection` needs two requests on one ticket, and changes that are legal alone and wrong together.
In `Attestation` two runs are the least that attest a source with two images, and each may be a full, failed, cut or partial one of either
image and source, over an account that a run or somebody else has left with positions; what more runs could add up to is proved
(`AttestedTested` holds for any number).
Two sends give an order a late twin; two rounds give flatten a look after which it goes on.
For the login loop, a stale first address, a working one in the middle and the name at the end give each
outcome of an attempt before each other; two checks let a login and its line fall before, between and after them.

**Deadlock.** Checked in every run.

**Symmetry.** Workers are interchangeable in the runs that declare it (`OrderSubmission_once` and those of `Protection`),
which have no liveness property; the others use none.

### Fairness

- A worker thread that is not waiting for a lock runs on, and a lock that is free is taken
  (`WF` of each worker's step). Every wait in the code has a timeout: `initialize` makes a
  bounded number of attempts with sleeps in between, `confirm_close` has a deadline, client
  calls return or fail. That the native client returns at all is an assumption.
- Time passes (`WF(Tick)`).
- In `MT5Connection` requests keep arriving (`WF(Enter(w))`): Docker's health check and
  clients poll the service. Detection and recovery happen on request threads only, so
  without requests nothing recovers.
- In `ServerTime` the refresher reads again while quotes move (`WF(ReadQuote)`), which it does every
  `MT5_TIME_REFRESH_SECONDS`.
- In `BootLogin` the loop runs on, an API that attaches writes its marker and one that is away tries again
  (with requests arriving, as above), and a terminal with a working address logs in.
- In `OrderIntake` a request that has begun runs on. `SymbolsHeal` has reads of the symbol routes that keep coming
  as its hypothesis; the terminal stops restarting by the bound.
- In `Attestation` the run goes on (its waits all have deadlines) and the broker decides about an order in the end;
  a read that fails or is not answered and a cut are faults and not relied on for the end (`RunStep` has the answered looks only).
- Otherwise nothing is promised of the terminal, the trade server, signals or new order and close
  requests. `Recovers` takes a terminal that stays usable as its hypothesis, `HaltDrains` a
  switch that stays on, `ComesBack` a terminal that stops dying, `FollowsTheServer` a clock and quotes that stay as they are.

### Findings

The two violated properties are in `PROJECT.json` under `findings` with the documented
statement each refers to: a modification that removes a stop loss it does not name (`routes/position.py:344`),
and a flatten that reads no answer as no positions (`lib.py:174`).

Met while modelling, without a run:

- *Connection.* `initialize()` sets CONNECTED before `reconcile()` has run (`mt5_connection.py:222`), and other requests are
  served on that session meanwhile, though the comment at 166 has only a reconciled session count as verified;
  `UnreconciledWindowCloses` is what does hold. The back-off is computed in full before it is capped, so `2 ** 1024` raises
  `OverflowError` (`mt5_connection.py:291`) and no window is opened from the 1025th failure in a row on; `Cooldown` models it,
  the theorem `OverflowEndsBackoff` shows it, and the theorem on the refinement has its absence as a proviso.
- *Closing.* /close_position answers 400 "Failed to close position" for a close that was sent and not answered, although the
  server may have executed it (`position.py:71`); the other two routes answer `unknown_outcome`.
  The same route computes `remaining_volume` from the volume in the body alone (`position.py:85`). With none there, as in `api.md:33`,
  `tests/test_close_confirm.py:129` and the attestation's own closes, a partial execution is answered with 0; with too
  small a one it is understated. `RemainingNotUnderstated` is about responses that know what was open; no doc defines the field.
  close_all lists each retcode that is no success under `failed` (`lib.py:222`), 10031 included, of which `api.md:81` says
  that it "can still execute": what is listed there may be closed. `RefusedMeansUntouched` claims nothing for it.
- *Order check.* /order_check accepts a volume within 1% of a step beside the grid and counts the grid from the minimum, POST /order
  rounds such a volume down by up to a whole step on a grid from 0; /order_check knows neither the operator's limits nor the band nor
  stop-limit orders. `CheckedIsNotRefused` is stated for orders on the grids and within the limits. /order_check also judges a market
  order's levels at the raw quote and POST /order at the rounded one, so the property needs quotes that lie on the symbol's price
  grid: with a bid of 11 on a grid of 2, a SELL with its stop at 12 passes the one and fails the other.
- *Stop-limit orders.* BUY_STOP_LIMIT is missing from `validate_sl_tp`'s list of buys (`lib.py:390`), so its levels are checked as a
  SELL's, and from the band's (`order.py:306`), which compares it with the bid; PUT /orders has no field for the stop-limit price.
- *Symbol cache.* POST /order and the data routes answer a stale symbol without invalidating it; only the symbol routes heal it.
- *Attestation.* A terminal that does not answer has no positions for /get_positions (`lib.py:240`, `position.py:417-418`), so a watch whose
  last look is not answered passes for flat and the record is written whatever is open, although `attestation.md:47` says that
  "the whole account ends flat after a watch": without `sure` the model violates `RecordedFlatIfAnswered`.
  `run.py:4` says it "refuses to trade unless the broker reports a demo account", but the cases that restart, cut the network
  or test the limits trade without looking; a record still needs a demo account, because a full run has session cases.
  A retry after an unclear reply "can then never open a second one" (`run.py:266`) only if the first does not fill later than the wait.
  The fingerprint in a record is that of the working tree at the end of the run, not of the source the image was built from.
  Flatten gives up with a warning, and the final watch looks at positions, not at pending orders.
- *Broker time.* Without the condition `~overlapped`, `ReplacedWhenConfirmed` does not hold: two threads that both find no
  offset store one after the other, and the later replaces the earlier with a single reading
  (`time_utils.py:167`), although the docstring promises that a one-off bad reading never gets in;
- after `shutdown()` the refresher's stop event stays set, although the process goes on and a
  later request reconnects (`mt5_connection.py:485`);
- with `SlowRequests` or `Restarts` true, `AtMostOneOrder` does not hold: an
  expired or lost reservation lets a repeat through. The TTL is documented, so this
  is a limit rather than a divergence;
- an order let in before POST /kill is sent after it; `HaltShrinksExposure` is what the gate does give;
- without `~touched`, neither `RecordedServerWorked` nor `ComesBack` holds: when the API's own reconnect logs
  the terminal in by the server's name during the window of a stale candidate, the loop records that
  candidate (`04-install-mt5.sh:163`), and later relaunches use it although `configuration.md:40-41` says
  they use the address that authorized;
- between its last look and `pkill` (`04-install-mt5.sh:158-168`) the loop can miss an API that attaches, and kill its terminal;
- an acknowledged close that names neither order nor deal may be priced by another close of the position.

## 4. Proofs

`MT5ConnectionProofs` proves, for any set of workers and any settings, the type invariant,
`LocksOwned`, `BackoffRespected` and `NoReattachWhileConnected`. None is inductive alone.
The invariant `IInv` adds `BootFirst` (while the main thread runs the boot attach no worker
has left `idle`, so that attach, which takes no lock, is alone) and `AttemptsLeft` (a retry is
waited for only while attempts are left, which types the counter). `NoReattachWhileConnected`
then follows because the status becomes connected only in `MarkConnected`, by the one thread
that `LocksOwned` puts inside the region; `BackoffRespected` because `Recheck` looks again
under the lock and only the lock's holder opens windows. From `IInv`, `GateImplemented`:
every step is a step of `ReconnectGate` or a stutter, an attempt's verdict included, provided the counter never reaches
the overflow (`FailedCap - 1 <= MaxDoublings`); without the proviso a failure may open no window, and
the abstract attempt would have no verdict. What holds whatever the counter is `WindowsFitFailures` (no attempt runs inside
a window, and a window is never longer than the failures account for) with its corollary `OverflowEndsBackoff`.
`UnreconciledIsOwned`: a connected session that was not reconciled always has a worker about to reconcile it
or to give it up, so it is never left behind as a good one. `LockHoldBounded` is the safety half of `LocksReleased`:
`StepsToRelease` counts what the holder of the reconnect lock has left, 7 steps for an attempt, one less with each of its own steps
and never more through another's.

`OrderSubmissionProofs` holds for any workers, keys, intents, TTL and set of retcodes, in three layers, each with the
invariant it needs; lemmas state what each operation of the store returns.

- Without any assumption on speed or restarts: the type invariant, `AnswersAreHonest` (`HonestInv`: a reply agrees with
  the result it came from, and who has not sent knows of nothing sent), `NoOrphans` (a pending reservation is held by a request
  of its intent that is still to complete or release it; a restart empties the store with the requests), `ReservationStands` (which
  needs it: on a restart the owner ends too; a purge takes only what has expired, `begin` reserves only what is absent), `ReplaysOwnIntent`
  (`LateInv`: every entry's response is signed by a request of the intent that reserved the key, which a completion after
  the TTL keeps too, because `Completed` changes an entry of the caller's own fingerprint or none).
- While no request outlives the TTL (`~SlowRequests`), restarts or not: `OneOwner` (`OwnerInv`: an owner's reservation has time
  left, so no purge in `begin` takes it away).
- While the process is not restarted either (`Steady == ~SlowRequests /\ ~Restarts`): `AtMostOneOrder`, `PlacedIsRemembered`,
  the refinement of `OncePerKey`, and from it `RepeatsAgree` (a key's first answer stays until it is forgotten, and nothing is
  sent after it). The invariant adds that a key that is absent or whose owner has not sent yet has no order
  (`NothingPlaced`). `AtMostOneOrder` is false without either assumption (section 3, findings).

`ServerTimeProofs` proves, for any threads, ages, confirmations, hour and band (a tolerance below
half an hour), the type invariant, `ConvertedWithinAge` and `ReplacedWhenConfirmed`, and that a quote within
the tolerance implies exactly the server's offset (`LiveQuoteExact`). `AgeHonest` (the recorded
age never understates the offset's) is not inductive alone: between `SetOffset` and `SetAt` another thread may
store its own offset, so `JustStored` says that whatever is there then is fresh, which
`ReadingsFresh` gives because no tick passes in a derivation; `UsableOffset` carries the result
over the gap between the check of the age and the load. `Confirmed` says what the one
thread that derives knows of candidate and count at each of its steps. `TrueWhileSteady`: while the server's clock does
not switch and no quote that moves is late by more than the tolerance (`QuotesOnTime`), every conversion is with
the true offset, whatever the interleaving of the unlocked loads and stores and whatever feed freezes.

`ClosingProofs` proves, for any requests, positions, lots and retcodes, the type invariant,
`PricedByOwnDeal`, `RefusedMeansUntouched`, `RemainingNotUnderstated` and `EveryRowReported`.
The invariant `Counted` has two parts for each request: `Untried` (a position without an outcome was not touched,
unless its acknowledged close is being confirmed) and `Accounted` (the rows that matched are those
with an outcome, those left and the one under way). Neither speaks of volumes, so both stay true when an order opens a
position, and `EveryRowReported` is proved for `HaltSpec` too. `Bounded` (from the read on, the volume read bounds
what is open, and the answer's `remaining_volume` does when `KnowsVolume` holds, and a deal found is either the whole request or all there was) needs `VolumeShrinks`: nothing opens in
`Closing`. `OthersAlone` carries a request's parts over the steps of all others; `CountedConclude` and
`BoundedConclude` say once what a verdict has to satisfy, and each outcome of `order_send` is checked against them.
`RefusedMeansUntouched` rests on `AnswerTyped`: only codes that the server means as refusals are answered as refusals by the routes
for one position.

The same module goes on with the kill switch: `HaltTypeOK`, and `HaltShrinksExposure`, for any requests,
positions and pending orders. `ClosingShrinksOpen` covers every step of a close; with the
switch on and nobody past the gate, `AdmitOrder` and `SendOrder` are disabled, and what is left
to open a position is `Trigger`. `FlatUntilRelease` follows: with no pending order left either, a flat account stays flat
until the switch is released. `HaltSteps` says which steps of `TradingHalt` are none of `Closing`, and with it
`RefusalsTrueBesideOrders` and `PricedBesideOrders` carry the honesty of a close's answer, the flatten's included, over to a
gateway that takes orders meanwhile. `RemainingNotUnderstated` is not carried over: an order may open a ticket again.

`AnswerWithinBound`, for finitely many positions, is the safety half of `RequestsAnswered`: a request answers within
four steps of its own for each position and four more. No step of another request, of the server, of an order
(`AnswerWithinBoundBesideOrders`) adds to them, although others change the volumes it reads.

`BootLoginProofs` proves, for any candidates, addresses and windows, the type invariant, `ShownSessionSpared`
and `RecordedServerWorked`. `ShownInv` says that a marker the API has shown stays until the loop has decided;
`AttemptInv` that, while the API has launched nothing, every trace of this attempt (a login, a line, a marker,
a thread on the way to its marker) means that the candidate works. It rests on a new baseline for the journals and on
the pause of three seconds after the kill, which outdates the stamps of the session that was killed. `LoopCountsDown` bounds
the loop by `N * (Tries + 6) + 2` steps of its own, and `PasswordGone` says that the ini with the password is off the
volume once it is done: the safety half of `PasswordShredded`.

`OrderIntakeProofs` proves, for any threads, bodies, quotes and symbol, the types of the order routes, `SentIsProtected` and
`SentIsWithinLimits`. The invariant has, for each request, what its step has established: `Admitted` (the operator's limit and
the volume), `SeesQuote` (the present quote counts as shown), `PriceJudged` (the price was a quote, or on its side and in the band of
one, since the request came) and `LevelsJudged` (its levels were checked after rounding, at the rounded price); what passed once
stays true because only the request's own steps change its locals and `seen` only grows. The arithmetic, division with
remainder, rounding down, rounding half up, is in `RoundsDown` and `HalfUpNearest`. `CheckedOrdersPass` proves
`CheckedIsNotRefused` for quotes on the symbol's grid (`QuotesOnGrid`, where brokers quote; off it the property is false, see
above): `CheckingInv` says that a request after a check that stands is at the body and the rounded price that were checked. `FillsArePriced` proves
`FilledMeansPriced` for quotes that do not round to 0 (`QuotesStayPositive`), for a zero price would read as an unresolved
one. `CacheIsBounded`: however lookups, insertions and invalidations interleave, the cache keeps its limit and never lists
a symbol twice; `StaleOnlyAfterRestart`: no interleaving of the threads by themselves makes it vouch for a symbol without quotes.

`ProtectionProofs` proves, for any tickets, requests and codes, the type invariant, `RestingOrderProtected` (with
`JudgedOrders`: what is about to be sent protects the order as a whole, whatever it looks like now),
`OmissionKeepsLevels` (with `ReadIsCurrent`: unless overtaken, what is sent agrees with the server's levels wherever
the body names nothing) and `ModifyAnswersHonest`.

`AttestationProofs` proves, for any plan with a session case, any images, sources and number of runs, the type invariant,
`RecordedFlatIfAnswered` and `AttestedMeansTested`. `Placed` says that between cases nothing is open but what earlier cases left,
`Watch` that a watch that is over has seen the last fill, `Gated` that a session case with a result and no failure
saw a demo account, and `RecordsTrue` that each record is of images that were tested.

Assumptions, all named in the modules: at least one reconnect attempt, back-off base and cap
positive, TTL positive, model values distinct; the smallest lot and the finest price unit positive; the orders that rest at first
protect their owner; a plan has a session case (`required_cases` always has some). `ServerPlaced` and `ServerRefused` state what
the server's codes mean: a listed success was executed, a listed refusal was not, the rest is
open; an `order_send` that raises has placed nothing.

Hypotheses of single theorems, named where they are stated: `Steady` or `~SlowRequests`, `QuotesOnGrid`,
`QuotesStayPositive`, `QuotesOnTime`, the proviso of `GateImplemented` and, for a bound on steps, that there are finitely many positions.

**Only model-checked:** liveness (`UnusableSessionDetected`, `UnreconciledWindowCloses`,
`LocksReleased`, `Recovers`, `ReservationsResolve`, `RequestsAnswered`, `HaltDrains`, `FollowsTheServer`, `PasswordShredded`, `ComesBack`,
`SymbolsHeal`, `RunsEnd`), because it needs fairness and ENABLED, which are out of the prover's reach. Where progress is a
count of steps that only goes down (`LocksReleased`, `RequestsAnswered`, `PasswordShredded`), or a worker that is at it
(`UnreconciledWindowCloses`, `ReservationsResolve`), that part is proved.

## 5. Plan

Done: connection manager, order submission with its checks, modifying, closing, kill switch, broker time, boot login, symbol
cache, attestation, with their proofs. Left:

1. How `broker_resolver.py` ranks the candidates of the login loop.
2. The counts behind `HaltDrains` and `RunsEnd`, as for the other waits.

## 6. Not modelled

Read routes format what the client returns and keep nothing but the symbol cache, which is modelled. The audit log, metrics,
envelope, request limits, logging and swagger are I/O and layout; the audit log contains its own I/O
errors. The API key is a comparison without state. What the single cases of the attestation assert about a response is
one outcome, passed or failed; the image scripts run offline and in sequence. How the candidate list of the login loop is made
(`broker_resolver.py`) is a search over a directory's answers, without shared state. Floats are exact numbers: the noise that
`money.py` uses Decimal against is not modelled. HTTP parsing and validation messages are abstracted to "invalid".
