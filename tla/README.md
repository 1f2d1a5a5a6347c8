# Signal Flow Live in TLA+

Specifications, model-checking runs and machine-checked proofs for the server
in `src/app`, a FastAPI application that streams market data, raises signals
and alerts users. Paths below are relative to `src/`.

## 1. The system

One uvicorn worker runs one asyncio event loop. On the loop run the *market
task* (`MarketRuntime.start`, which drives the Upbit stream or the simulator)
and the *scanner task* (`ScannerRuntime.start`). HTTP handlers are ordinary
functions and run in the threads of a pool. All durable state is in a database
(SQLite or PostgreSQL); nearly every function of `app/db.py` opens a
transaction of its own (`get_conn`), so a handler or a task is a *sequence* of
transactions and those of different threads interleave. Code on the loop is not
interrupted by other code on the loop between two awaits, but it is
interrupted by the handlers' threads at every transaction.

| component | state | operations | interacts through |
|---|---|---|---|
| signal pipeline (`signal_service.py`, `db.py` 1526-1680) | tables `signals`, `notifications`, `instrument_runtime_state` | evaluate, insert once per window, policy, audience, notify, outcome, broadcast, mark read | called by both market tasks; reads `watchlists` and `notification_settings`, which handlers write |
| accounts and sessions (`auth.py`, `main.py` 279-373, `db.py` 787-992, `mailer.py`) | `users`, `refresh_sessions`, `auth_action_tokens` | signup, login, refresh, logout, revoke, verification and reset links | every authenticated handler reads the session of its access token |
| settings and profiles (`db.py` 995-1057, 1281-1383) | `notification_settings`, `user_signal_profiles`, `watchlists` | read-modify-write patches | read by the signal pipeline and the client api |
| market runtime (`runtime.py`, `upbit_provider.py`, `market_simulator.py`) | engine, `_running`, socket, status | start, bootstrap, stream, reconnect, fall back, stop | started and stopped by `main.lifespan`; calls the pipeline |
| scanner runtime (`scanner_runtime.py`, `scanner_providers.py`) | provider, status | refresh, fall back, recover, stop | a task of the market runtime; calls the pipeline |
| broadcaster (`broadcaster.py`) | set of connections, lock | connect, disconnect, broadcast | awaited by the pipeline and both runtimes |
| client api (`client_api.py`) | none | feed paging, choice of candles, profile evaluation | reads all tables |
| strategies (`strategy_engine.py`, `indicators.py`) | none | score a snapshot | called by pipeline and client api |
| browser client (`static/index.html`) | tokens, socket, timers | retry after 401, refresh session, reconnect | the HTTP and websocket interface |
| migrations, configuration, readiness (`db_migrate.py`, `config.py`, `release_values.py`) | schema version; environment | stamp or upgrade; checks | at start-up |

What is hard, and so what the properties are for: handlers that commit between
two transactions of a delivery, or of each other; failures and restarts between
them; the deduplication window, computed from two readings of the clock;
requests that read a session, a link or a row and act on it later; a shutdown
that meets a runtime still starting, reconnecting or falling back; providers
that fail and come back; a slow or dead websocket under the broadcaster's lock;
pages read while rows are inserted. `PROJECT.json` lists each hazard at its line.

What makes each component correct:

- *signal pipeline*: a signal is raised once per window; its outcome, its
  notifications and its broadcast agree; only the task that raised it delivers it,
  once; a delivery that is not interrupted ends.
- *sessions*: closing is final, a refresh replaces a session, a reset closes
  what was open, a new link retires the old ones.
- *signup and settings*: one account for a name and a mailbox; a patch takes back
  only what a patch it overlaps has written, never anything older.
- *runtimes*: after shutdown nothing runs; a fallback is complete once the status
  counts as ready; no error that is over is shown while streaming; readiness means
  loaded; once failures end, the service recovers.
- *broadcaster*: messages in the order of their timestamps, to every member;
  the loop over the members is never disturbed, every broadcast ends and dead
  connections are dropped.
- *client api*: a feed misses nothing that held still, and repeats signals only as
  others are inserted; an asset shows the candles of a source that was active while
  it was asked for.
- *strategies and profiles*: no verdict without the candles it rests on, and not
  both directions at once.

## 2. Modules

| module | what it is |
|---|---|
| `SignalDelivery` | the pipeline, statement by statement, with the handlers that interfere |
| `SignalLedger` | what the pipeline promises to a reader of its tables |
| `SignalDeliveryHistory` | `SignalDelivery` with an observer of who was entitled to an alert |
| `AuthSessions` | login, refresh, logout, revocation, verification and reset links |
| `AuthSessionsHistory` | `AuthSessions` with an observer of lineage and of what a request found when it began |
| `UserAccounts` | signup, and reads and patches of notification settings and signal profiles |
| `ScannerRuntime` | the scanner task and its providers, without a `Next` of its own |
| `MarketRuntime` | the process: extends `ScannerRuntime` by the market task, its engines and the shutdown |
| `Broadcaster` | connections, the lock, the loop of sends, the websocket endpoint |
| `SignalFeed`, `AssetDetail`, `StrategyEngine` | the paged feed, the choice of candles, decisions and verdicts |
| `ClientApi` | the composition of the last three: one of these reads at a time beside the writers of its tables |
| `SignalDeliveryProofs`, `AuthSessionsProofs`, `UserAccountsProofs`, `MarketRuntimeProofs`, `BroadcasterProofs`, `ClientApiProofs` | theorems about the modules they are named after |
| `SignalLedgerProofs` | what the steps of `SignalDelivery` may do, and that it implements `SignalLedger` |
| `SignalDeliveryHistoryProofs` | who is alerted |
| `MC...` | instances for TLC |

In the models of requests and pipeline a thread or task has a program counter
and its locals, and one action is one transaction with the computation around
it. In those of the tasks on the event loop one action is the code between two
awaits. Definitions marked `\* Mutant:` are plausible bugs; no specification
uses them.

### SignalDelivery

`loop` is the task that holds the event loop: `evaluate_symbol_and_broadcast`
never awaits between reading candles (`Evaluate`) and `broadcaster.broadcast`
(`Broadcast`), where it gives the loop up until `ResumeAfterBroadcast`. `frame`
holds the locals of one decision.

| action | code |
|---|---|
| `Evaluate` | candles and strategies read, decisions taken: any non-empty set |
| `ReadThreshold`, `InsertSignalIfNew` | `insert_signal_if_new`: the threshold is computed before the transaction |
| `ResolvePolicy` | `resolve_signal_delivery_policy` |
| `ReadAudience` | `get_signal_delivery_audience` |
| `SelectWatchers`, `CreateNotifications` | `create_notifications_for_signal`; a concurrent delete can commit between its statements |
| `UpdateSignalDelivery` | `resolve_signal_delivery_outcome`, `update_signal_delivery` |
| `Broadcast`, `ResumeAfterBroadcast` | the payload from the persisted row, and the await |
| `Abort`, `Crash` | an error or cancellation of one task, the end of the process: commits stay, locals go |
| `RefreshRuntimeState` | `upsert_instrument_runtime_state` by the task that owns the symbol |
| `AddWatchlistItem`, ... `MarkNotificationRead` | the handlers |

The decisions themselves, prices and texts are abstracted: a `Kind` is a pair of
signal type and strategy name, and the decisions of a turn are a set of them, taken
in any order (of two active strategies with one name, the second would meet the row
of the first). A market symbol's runtime state is always realtime, a
scanner symbol's is any session and delay. The policy's branch for a missing
runtime row allows alerts, as it does for a realtime row.

### AuthSessions

A request (`Begin`) is a record of what it carries; `pc` walks through its
transactions; `reply` is the answer given in the last step. A token is
represented by the row that holds its hash, and a password by itself. Requests
refused before they read a session change nothing and are left out, as is
`last_used_at`. Users are not created or deleted (signup is in `UserAccounts`),
so the branches for a missing user cannot be taken. A link can be used once it
was mailed; `SendMail` can fail with the link already committed.

### UserAccounts

`at` is the step a request is before. A signup goes `CheckName`, `CheckMailbox`,
`CreateUser`, `OpenSession`, the three checks and inserts of `main.signup` and
`create_user`. The unique constraints on both columns are in `CreateUser`: the loser
of a race gets an internal error instead of a 409. A patch goes through the two
statements of the `get_...` function (`Ensure...`, `Get...`), the write of the whole
row (`Update...`), and the same two statements for its answer; a read ends after the
first two. `seen` is the row a request has read and `overtaken` remembers which
fields others wrote since it last read or wrote the row. `Normalize` is `normalize_email`, which strips and
lowers: normalizing a normalized address changes nothing (`AccountsAssumption`).

### MarketRuntime and ScannerRuntime

`market` and `scanner` say at which await each task is; `phase` is where
`lifespan` is.

| action | code |
|---|---|
| `StartRuntime` ... `BootstrapFails` | `MarketRuntime.start`, `UpbitMarketStream._bootstrap`; the fallback to the simulator |
| `StartSimulator`, in both of them | `MarketSimulator.start` up to its first await |
| `Connected` ... `Reconnect` | `UpbitMarketStream.start` and `_stream_loop`: connection, subscription, messages, errors, the sleep |
| `Tick`, `SimulatorFails` | `MarketSimulator._tick` |
| `StartScanner`, `WakeScanner`, `FetchOne`, `FinishFetch`, `ApplyNext`, `ApplyFails` | `ScannerRuntime.start`, `refresh_once` and the providers, one await at a time |
| `Stop`, `EngineClosed`, `CancelScanner`, `ScannerJoined`, `CancelMarket`, `MarketJoined` | `lifespan` after its yield: `runtime.stop`, then the cancelled task is awaited |
| `Restart` | the process ends anywhere and starts on the same database |

`MarketSimulator.start` writes the candles of every market and its first tick
before it awaits, and any of these statements may fail. `StartSimulator` has the
three outcomes: the simulator waits for its next tick; it ended in the bootstrap,
with the rows of some markets written, all others as the old source left them, and
the state `bootstrapping`; or it ended in the first tick, with all rows written and
the state `streaming`. `SimulatorAlone` therefore speaks of the simulator while it
runs and of a status that counts as ready.

What the model shows but no property judges:

- An exception of the simulator ends the market task. Nothing restarts it; after a
  tick the state is still `streaming` and readiness still answers ready.
- After a normal close by the server the state stays `streaming` while the stream
  connects again (`StreamEnds`).
- The reason of a fallback is `str(exc)` (`runtime.py:35`), which is empty for a
  timeout of the HTTP client, and an empty reason counts as none
  (`runtime.py:66`). `BootstrapFails` leaves open whether there is one, and no
  property promises it. `ErrorsAreCurrent` says what holds the other way round: an
  error shown while streaming is the reason of a fallback.
- `RequestedSource` is one of the two documented values (`SourceAssumption`,
  `README.md:190`); the code takes any other for the simulator.

A status is one step in the model. In the code a handler's thread assembles it from
several fields while the loop may write them.

### Broadcaster

`queue` is the `asyncio.Lock`: its first element holds it, the rest wait in order.
`Broadcast` builds the message, with its timestamp, and queues; `BeginSending`,
`SendTo`, `FinishSending` are the loop over the members under the lock and the
removal of the failed ones. `Connect`/`Add` and `Disconnect`/`Discard` are
`connect` and `disconnect` before and under the lock. `Cancel` is the shutdown's
cancellation of a task inside `broadcast`; `EndpointFails` an endpoint that ends
without calling `disconnect`. `due` remembers who was a member when a message got
the lock.

### ClientApi

`SignalFeed`: `build_signal_feed` reads page after page (`ReadPage`, one query)
while `InsertSignal` and `UpdateSignalDelivery` change the table. The table is a
sequence in the order of `created_at`, so a signal's index is its identity and the
place at which `ORDER BY created_at DESC` returns it moves down with every insert
(`IdAt`). What was read is a set of entries, each with the place it was read at:
`Precedes` is the order in which Python's stable sort puts them, and `Ranked` the
first `limit` of them. `AssetDetail`: `resolve_recent_candles`, with the queries as steps of their
own while candles arrive and the source switches. The limit is any integer, as in
the endpoint: with 0 nothing is fetched, and a negative one is no limit in SQLite,
while PostgreSQL refuses it and there is no answer. `activeDuring` remembers the
intervals of the sources that were active since the request began. `StrategyEngine`:
`build_snapshot`, `evaluate_strategies` and `evaluate_user_signal_profile`, which
are pure: every snapshot and rule of the instance is evaluated. Indicator values
are floating point and enter as inputs; how many candles each needs does not.

## 3. Runs

Every bound is a constant of the module that uses it: rows (`SignalIds`,
`SessionIds`, `LinkIds`, `MaxSignals`), clock (`MaxTime`), failures (`MaxAborts`,
`MaxFaults`, `MaxFailures`), messages (`MaxMessages`).

| run | bounds | shows |
|---|---|---|
| `signal_tasks` | 2 tasks, 2 symbols, 2 kinds, 2 signals, 1 user, 1 failure | outcome, notifications and broadcast agree; no signal is taken up twice and only the delivering task writes it; no alert under a blocking state |
| `signal_ledger` | 1 scanner symbol, 2 signals, clock 0..2 with a window of 1, 1 failure | types, the deduplication window, and refinement of `SignalLedger` |
| `signal_liveness` | 1 scanner symbol, 2 kinds, 2 signals, 1 failure | a delivery in flight is published once failures have ceased |
| `signal_audience` | 2 users, 1 signal, 1 failure | alerts go to those entitled throughout, and to nobody who never was |
| `signal_reason` | 1 user, 1 signal | *violated*: finding 1 |
| `auth_sessions` | 2 requests, 1 user, 2 passwords, 2 sessions, 2 links, 1 failure, expiry after 1 tick | stale tokens are refused, refreshes replace, resets and new links close |
| `auth_rotation` | 2 requests, 3 sessions | *violated*: finding 2 |
| `user_accounts` | 3 requests, 2 new names and the seeded one, 2 mailboxes of which one has two spellings, 1 failure | accounts are unique, signups are answered truthfully, patches revert only what they overlap |
| `market_runtime` | 2 markets, 2 instruments, 4 faults | nothing outlives a shutdown, fallbacks are complete, no stale error is shown, readiness means loaded, service resumes, a shutdown ends |
| `scanner_error` | as above | *violated*: finding 3 |
| `broadcaster` | 2 connections, 2 tasks, 3 messages | order, completeness and progress of messages; the loop is undisturbed; the dead are dropped |
| `client_api` | 4 signals in pages of 2, limits 0 to 2 with every filter; 4 intervals of 3 lengths, candle limits 0, 20 and -1; 8 candle counts around every limit | the feed, the candles shown, decisions and verdicts |

Why the bounds suffice. A pipeline conflict needs two signals of one kind (the
window), or two tasks, or two decisions of one turn, and a handler that
interferes with one user's rows; users do not interact with each other except
through the counts, hence two in `signal_audience`. With a window of 1 and a
clock of 0..2 there are signals inside the window, exactly at its edge and
beyond it. Two concurrent requests produce every pairwise race, and with ids
bounded rather than the number of requests, many requests follow each other. In
`user_accounts` a request is not reused, so the third gives a race a predecessor
or a witness. Two markets and two instruments let a bootstrap or a refresh fail
half way; four faults are enough for both tasks to fall back, fail again and for a
restart in between. Of three messages one can be sent, one wait and one be built.
Pages of 2 instead of at least 20 make four signals three pages, the last of them
empty, and let two insertions shift a whole page of rows across a border. The theorems of
section 4 hold for every bound, those about `ClientApi` for every size of a page.

With one user the `WHERE user_name` clause of revocation is not exercised in
`auth_sessions`, and no property speaks of it. Symmetry is used only in runs
without liveness or refinement; users, passwords, requests, ids and new names are
interchangeable.

Fairness. `signal_liveness`: weak fairness of each task's pipeline steps. A task
that holds the loop is between awaits, so it runs on unless a database call raises
(`Abort`) or the process ends (`Crash`). `market_runtime`: every await of the tasks
ends, because requests and connections have timeouts and sleeps are finite; so the
steps after each are fair, as is the shutdown once begun. A message from Upbit, a
stop and every failure need never come. `broadcaster`: a send ends, because the
server closes a connection that does not answer its pings, and whoever holds the
lock goes on; each task broadcasts again. Connections, drops and cancellations are
not fair. Starting evaluations, handlers and failures are never fair. That a feed
request ends is not claimed: signals inserted fast enough at the head keep it
reading.

`CHECK_DEADLOCK FALSE` is set where the system may stop: after a shutdown with no
fault left for a restart, when all connections are gone or all requests and reads
answered.

### Findings

1. `README.md:31` says reasons "explain why a user was not alerted". The
   audience is counted in one transaction (`signal_service.py:88`) and the
   watchers selected in another: if the only watcher leaves in between, the stored
   reason is `web_notifications_disabled` although nobody had them off.
2. `README.md:42` promises "session rotation". `refresh_auth_response` reads the
   session and closes it in a later transaction without looking whether it was
   still open, so two overlapping refreshes of a session open two in its place.
   `RotatedIsClosed` and `StaleIsRefused` show what still holds: the old
   session is closed first, and later refreshes of it are refused.
3. `tests/test_scanner_runtime.py:94` asserts that after a fallback `last_error` is
   the provider's error. It calls `refresh_once` directly; in the running task
   `start` clears the error as soon as that refresh returns
   (`scanner_runtime.py:39`), so between refreshes the status shows the substitute
   provider and no error.

Observed, not claimed as a finding: a feed answer may hold fewer distinct signals
than exist when others are inserted while it is read, because rows shift across
pages (`RepeatsOnlyShifted` bounds it).

## 4. Proofs

All theorems hold for any values of the constants that satisfy the named
assumptions of their modules: for any numbers of users, requests, rows, tasks,
connections and failures. None of the invariants is inductive alone; TLC checked
each inductive invariant on the instance of its component before it was proved.

`SignalDeliveryProofs` proves `TypeOK`, `DeliveryMatchesNotifications`,
`DedupWindow` and `PublishedAsPersisted`. Its `IInv` adds:

- `Busy`: a task at a step between two awaits holds the loop. So at most one
  task delivers, and the lemmas `Exclusive` and `OthersUnchanged` follow.
- `HandledInv`: the signal in the frame is pending until its outcome is stored,
  has no notification before `CreateNotifications`, and afterwards as many as
  the frame counts. Hence storing the count makes `OutcomeInv` true.
- `OutcomeInv`: final rows agree with the notifications table. It is preserved
  because only the delivering task inserts notifications, and for a pending row.
- `ClockInv`: no row is younger than the clock, and a threshold that was read is
  at least the window in the past. A row is inserted only when all of its kind are
  older than the threshold, so it is more than the window younger than each.

`TypeStep`, `BusyStep`, `DeliveryStep` and `ClockStep` show that a step preserves
each group, `RowsStep` that a step does nothing to the rows but insert one or
store one outcome; `NextIInv` combines them.

`SignalLedgerProofs` proves, from the same invariant, the two action properties
`OnlyTheHandlerWrites` and `NoAlertWhenBlocked` and the refinement
`ImplementsLedger`. `WritersStep` says that three steps write to signals and
notifications and nothing else does; `InsertStep`, `NotifyStep` and `SettleStep` say
what each of them writes.

- `TakenUpStep`: only the insert of an id that had no row makes a task the handler
  of a signal. So a signal that is settled, or was orphaned by a failure while
  pending, is never delivered again, and each write to a signal is the handler's
  own, at the step of the pipeline that does it.

- The policy is resolved two transactions before the alerts are written.
  `PolicyInv` closes the gap: until then the symbol's stored runtime state still
  lets alerts through, because only the task that owns the symbol refreshes it
  (`RefreshRuntimeState`) and that task is busy delivering.
- The ledger knows of a signal what was raised (`Raised`) and how it was settled
  (`Settled`). `LedgerRaise`, `LedgerNotify` and `LedgerSettle` map each writing
  step to a step of the ledger or to a stutter: an insert raises the signal,
  outside the window of every other one of its kind; writing the alerts of a
  pending signal shows nothing; storing the outcome settles it, once, with the
  recipients there are. Failures, restarts and handlers are stutters.

`SignalDeliveryHistoryProofs` proves `AlertsTheEntitled` of the watched system
`HSpec`, which implements `Spec` (`ObserverOnlyWatches`) and so has every
invariant above. `EntitledInv` follows the two sets of the observer through a
delivery: users entitled throughout are eligible now, those eligible now have been
so at some moment; between the selection and the inserts the same holds of the
watchers in the frame, and afterwards of the recipients, since no handler removes
a notification.

`AuthSessionsProofs` proves `TypeOK`, `RotatedIsClosed`, `StaleIsRefused`,
`ResetClosesSessions` and `EarlierLinksAreSpent` of `HSpec`, the watched system.
`IInv` is `TypeOK` and

- `StepInv`: which kinds of request are at which step, and that the rows they
  refer to are there.
- `RotationInv`: a refresh about to open its session has closed the old one.
- `StaleInv`: a request that was stale when it began has not passed the step that
  looks at its session or link; it cannot, since nothing reopens or renews either.
- `ResetInv`, `SpentInv`: what a reset found open is revoked or still listed, and
  what a request for a link found is spent once `RetireLinks` is done.

The argument turns on two lemmas: `Monotone`, that no step takes back what closes a
row, and `UnderWay`, that a request under way began in this step, rested, or went
on by exactly one of the transitions of `Progress`. `WhoSucceeds` says that an
answer is the step of its own request.

`UserAccountsProofs` proves `TypeOK`, `OneAccountEach`, `HonestSignup`,
`RevertsOnlyOverlapping` and `AnswerShowsPatch`. `IInv` adds to the types what a
request at each step carries (`CallInv`), that the row a patch works on exists and
has the fields of its table (`RowInv`), that stored addresses are normalized
(`UserInv`), what a signup has reached (`SignupInv`), and `PatchInv`: a field of the
row that differs from what a patch has read, or later from what it wrote, was
changed by an overlapping one since.

`MarketRuntimeProofs` proves `TypeOK`, the four safety invariants and
`FallbackOnlyWithoutAnswer`. `MarketInv` says which engine the task serves at each
await, when its connection may be open and which rows are the simulator's
(`EngineInv`: all of them while it runs and whenever the status counts as ready; a
takeover that failed may leave old ones only in a state that does not), when the
engine has an error to show (`ErrorInv`), and what the bootstrap has still to load
(`BootInv`); `RefreshInv` what the scanner has fetched; `ShutdownInv`
which tasks have ended in each phase of the shutdown. That `NothingOutlivesShutdown`
holds although a bootstrap that fails after the stop starts the simulator again
comes from the last: the cancelled task is awaited whatever it had become.

`BroadcasterProofs` proves `TypeOK`, `InTimestampOrder`, `EveryMemberServed` and
`StableIteration`. `QueueInv`: each task has one call at the lock, and messages
wait in the order of their timestamps. `OrderInv`: what a client has is older than
what it may still get. `ServedInv`: whoever a message is due to has it, has closed,
or is still in the loop's `todo`.

`ClientApiProofs` proves `TypeOK`, `NothingMissed`, `RepeatsOnlyShifted`,
`ActiveSourceShown`, `VerdictsFounded` and `OneSided`. `IInv` is the conjunction of
an invariant for each read, with a step lemma for each action.

- The feed (`ScanInv`). *No gap*: `deepest + offset <= Len(signals) + 1` once a
  page was read, so what is older than all that was read is still to come.
  *Coverage*: a steady, admitted signal no older than `deepest` has been found, as
  it is now (`FoundCovers`). *Payment*: the repeats found so far, and together
  with them the rows read already that the next pages will return again, are at
  most as many as the inserts (`FoundRepeats`): an insert adds one to both sides,
  a page moves at most its own overlap from the second to the first. None of the
  properties is inductive without these.
- The answer (`RankedCounted`). Entries read at different places are totally
  ordered by `Precedes`, so the number of entries before one is an injection into
  `0..n-1`, hence onto it, and those with fewer than `limit` before them are
  exactly `limit` or all there are. This is a counting argument; no induction over
  the sorted list is needed. `AnswerRight` then shows that what is left out is no
  more urgent than anything in a full answer. `RepeatsOfPart`: cutting an answer
  never adds a repeat.
- The candles (`RequestInv`): the interval a request falls back to was that of an
  active source since it began and had candles, which are never removed; a second
  read asks only for an interval of the same source. `FetchedFacts` says what a
  query returns for every limit, 0 and negative ones included.
- The rules: a snapshot with no RSI has no volume, no band and no average either
  (`SnapshotFacts`), so both scores are zero and no threshold is that low. This
  rests on `ThresholdAssumption`, the ranges of `schemas.py`: `score_threshold` is
  at least 1.

Model-checked only: liveness (`EventuallyPublished`, `EventuallyServing`,
`EventuallyRecovered`, `ShutdownCompletes`, `BroadcastsEnd`, `DeadForgotten`),
which is out of the prover's reach. Every invariant, action property and
refinement that a passing run checks is proved.

## 5. Not modelled

- *Migrations* (`db_migrate.py`, `alembic`): a command run once by hand that picks
  stamp or upgrade from the tables that exist; revisions are DDL.
- *Browser client* (`static/`): inline script of a page that is mostly rendering.
  The server's side of its refresh race is in `AuthSessions`.
- *Payloads and schemas*: overview, dashboard, bootstrap and search responses only
  format rows; of `schemas.py` the ranges of inputs are used, the response shapes
  are not.
- *Strategies as rows*: the handlers that create and toggle them; the engine is
  checked for every strategy a row can describe.
- *Values*: prices, indicators and texts. Candles are counted, prices are known by
  the source that wrote them.
- *Configuration checks* (`config.py`, `release_values.py`): functions of the
  environment without state; of readiness only the market source is followed.
- *Scripts, containers and deployment files*.

What could come next: the safety half of the liveness properties (which step is
enabled wherever one waits) as theorems, and the browser client's session handling
over `AuthSessions`.
