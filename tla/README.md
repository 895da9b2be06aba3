# A TLA+ model of the BingX trading server and its job supervisor

The repository is a monorepo for automated futures trading on the BingX
exchange: an Express API server (`artifacts/api-server`, TypeScript), a scoring
service (`artifacts/quant-brain`, Python), a dashboard and an older copy of the
whole (`.migration-backup`). This directory models the parts that place orders,
on the demo account (VST) and on the live one, the parts that keep the books
about them, and the supervisor under which the scoring service runs its work. It
checks the models with TLC and proves every safety invariant with TLAPS.

Paths below are relative to `artifacts/api-server/src/` unless they say
otherwise.

## 1. Inventory

| Component | State | Operations | Talks to |
|---|---|---|---|
| Trade store, `lib/demoTradeStore.ts` | maps of open and closed trades, order index, campaigns, promise lock, `demo-open.jsonl` with its `.tmp`, `demo-closed.jsonl`, archive | init, persist, close, mfe update, campaign resolution, archive | called by the sniper, the trigger loop, the monitor and manual routes |
| Service state, `lib/serviceState.ts` | state and reason, failure windows, loss streak, rolling loss, equity, last price | failure/success/loss/win/price recorders, freshness check, pause, reset | written by every request to the exchange and the brain; read by the gates of both cycles |
| Sniper cycle, `routes/demo.ts` | in-flight flag, headroom, candidates | one pass per interval | exchange, quant brain, service state, journal, store |
| Trigger loop, `routes/demo.ts` | in-flight flag, remembered credentials | one pass per interval, one order per signal | the same |
| Manual routes, `routes/demo.ts` | none of their own | `/demo/order`, `/demo/close`, `/demo/close-all` | exchange, journal, campaigns |
| Monitor, `routes/demo.ts` | in-flight flag, `sniperOpenTrades`, `sniperRecordedIds`, campaigns to report | one pass per interval | exchange, store, service state, quant brain |
| Order journal, `lib/vstOrderJournal.ts` | map of intents, promise lock, `vst-orders.json` with its `.tmp` | init, record, update, reconcile | placement and `/demo/connect` |
| Live entries, `routes/bot.ts` (`executeSingleOrder`) | requests under way, the last close | one call per order or grid | kill switch, claims, exchange, triggers, watcher |
| Execution claims, `lib/marketDataQuality.ts` | set of traded candles, its file | claim, release, reload | live entries |
| Kill switch, `lib/killSwitch.ts` | state, `stateSince`, `recoveryStartedAt`, all in memory | evaluated by every order and by the status route | live routes |
| Trigger book, `lib/exhaustionTriggerManager.ts`, `lib/gridTriggerManager.ts` | armed LIMIT orders, their timers and fill detectors, in memory | arm, expire, cascade, collective cancel, mark filled | live entries, exchange |
| Live watcher, `lib/livePositionWatcher.ts` | tracked entries, recorded ids, credentials, journal and dead-letter files | register, poll, pair exits, reload | exchange, telemetry, brain client |
| Telemetry store, `lib/telemetryStore.ts` | write buffer, outcomes, JSONL file | record, flush, reload | watcher, brain client |
| Brain client, `lib/quantBrainClient.ts` | outbox of outcomes with its lock and file, circuit state | predict, sync, flush | quant brain |
| Policies (stacking, aggression, sizing, risk, entry protection, governance, security) | little or none | pure decisions | cycles |
| Quant brain job supervisor, `quant-brain/core/job_supervisor.py` | semaphore, locks, queue depth, tasks | execute, start, stop | every background job of the brain |
| Quant brain learning, knowledge base, scoring | SQL tables, model files | train, promote, score | API of the brain |
| Dashboard, mockups, migration backup | none of the system's state | | |

What is hard here is always the same shape: state is read, a request or a file
write is awaited, and the state is used afterwards; the process may die or the
write may fail at each of those points; the exchange executes an order whose
answer never arrives; and several interval callbacks and routes share one cap,
one map and one campaign. `PROJECT.json` lists these hazards line by line, with
the property that watches each one or the reason why none does.

What makes each component correct:

- store: a realised result is ledgered once; a closed trade never reopens; an
  acknowledged open trade survives a crash; the two indexes agree; a campaign
  stays within one key; the lock is always handed on;
- service state: a reached threshold is in force whatever else happens, and the
  state is relaxed only by the signal that belongs to its cause;
- sniper, trigger, monitor: the cap on open entries, the effect of a pause, no
  entry forgotten, none recorded as closed while it is open, each closed one
  eventually closed in the store, each result reported once;
- order journal: an executed order is known or can still be found, a known one
  is not forgotten, and everybody who waits for the lock gets his turn;
- live trading: every accepted order is accounted for to its outcome; a candle
  is traded once; a resting order has somebody who will cancel it; symbols that
  move together do not wait for fills at once; a pause is followed by a whole
  recovery; an outcome stays owed to the brain until it is delivered;
- job supervisor: permits are conserved, a lock has one holder, nobody waits
  for ever, and stop() returns.

## 2. Modules and how they correspond to the code

### `DemoTradeStore` (`lib/demoTradeStore.ts`) and `TradeLedger`

Trades are named by the order in which their ids are drawn, a file of open
trades is the set of its ids, `info` keeps the contents. `queue` is the FIFO of
callers behind `_writeLock`, its head holds it, and `stage` says how far the
holder is: nothing done yet, `.tmp` to be written, to be renamed, ledger line to
be appended. An action is what the code does between two awaits: `PersistNew`
and `CloseNew` change the maps, `WriteTmp`, `RenameTmp` and `AppendClosed` are
the three writes, `Archive*` the three steps of `archiveClosedIfNeeded`, which
does not take the lock. `Crash` may happen at every point and `Recover` is
`initDemoTradeStore` with its promotion or removal of a stranded `.tmp` file.
`IOFails` is a write that throws. `PlanEntry` is a trading cycle that has read
the campaign and persists its entry several awaits later. A crash or an error in
the middle of `writeFile` leaves a prefix of the `.tmp` file (`missing` is what it
lacks); the next start may take it for complete and put it in place of
`demo-open.jsonl` (`cut` is what that loses). In the same way an interrupted
append leaves half a line in the ledger.

`TradeLedger` says what the store promises its callers about what a restart will
find: a trade whose persist returned is open on disk until somebody asks to close
it, and never open again once its close has returned. The promise has one hole,
which the abstract specification states: a rewrite that was cut short may be
salvaged as if it were whole, and then what it lacked is gone, no more.
`DemoTradeStore` implements it with torn writes allowed (`KeepsPromise`).

### `ServiceState` (`lib/serviceState.ts`)

One action per recorder, plus the clock. A failure window is a set of
timestamps, numbered within one millisecond; losses and equity are small
integers, and the percentage is kept as the fraction it is computed from. `operator` remembers
whether the last step came from the health routes, so that a property can tell an
operator's reset from one that a win performs. The history list is left out:
nothing reads it.

### `DemoSniper` (`routes/demo.ts`)

Three placers (sniper, trigger and the manual route), the monitor, the exchange
and as much of the journal as decides whether an order is sent again and whether
its answer can be written. The two cycles move through

    idle -> ask -> scan -> decide -> filled -> noted -> saving -> scan      sniper
    idle -> scan -> gated -> decide -> filled -> noted -> saving -> scan    trigger

that is: positions requested; looking at candidates; past the gates of a signal,
its candle edge awaited; campaign, depth and `clientOrderId` fixed, brain and
price awaited; order executed, answer under way; journal being written; in
`sniperOpenTrades`, store being written. A manual order
goes `idle -> decide -> filled -> noted -> idle`: it enters neither
`sniperOpenTrades` nor the store and does not ask for the service state. A manual
close is a closed position and, for a position of the cycles, no more: the
monitor finds it as it finds any other.

An order is its
`clientOrderId`: key, candle and depth for the sniper (so a later cycle can
build the same one again), an instant for the trigger, the request's idempotency
key for a manual order, which a client may repeat. The exchange executes an
order at once or refuses an id that it has executed; the answer may be lost;
positions close at any time. `entered`, `journaled` and `unresolved` are the
journal's map, `file` is what its file holds. Every way out of
`placeVstOrderIdempotently` is an action: `RequestFails` (the first write
throws), `Declined`, `Unheard` (nothing arrives, nothing is found), `Answered`
followed by `Tracks` or `JournalFails`, `Lost`, `Replayed`, and `QuantityThrows`.
The last is the quantity check of `updateOrderState`: an entry that an earlier
attempt left keeps the quantity of that attempt, so a later attempt with the same
`clientOrderId` and a larger quantity (`over`) is executed, and then the update
throws. `oversized` remembers such orders.

The monitor moves through `idle -> ask -> answered -> pricing -> closing`:
`PositionsAnswered` is the instant at which the exchange looks its positions up,
`MonitorSees` the later one at which the answer arrives and the loop over the
live map starts; entries may be placed, filled and tracked in between. `watched`
remembers what was in the map when the positions were asked for.

Persists and closes of the store are single steps,
which `DemoTradeStore` justifies: its lock makes them one at a time. `late` marks
a stored trade whose order had been recorded before it was stored; the monitor
will never take it up.

`Restart` is a crash at any point. The store and the journal's file are read
back, the rest is gone.

### `VstOrders` (`lib/vstOrderJournal.ts` and its users in `routes/demo.ts`) and `WriteAhead`

The journal in full: the map `orders`, the file and its `.tmp`, the promise lock
as a FIFO `queue` with the `stage` of its holder, and `initVstOrderJournal`,
which starts without anybody awaiting it, as a race with the routes (`phase`,
`image`: `InitReads`, `InitLoads`, `InitFails`). Of an entry only its state and
whether its `exchangeOrderId` is set are kept. Of the quantities one thing is
kept: a placement whose entry is of another call's making (`found`) may report
more filled than that entry requested, and then `ApplyUpdate` throws and writes
nothing.

A placement (`placeVstOrderIdempotently`) goes

    idle -> recording -> posting -> accepted or refused -> updating -> idle

with `checking` in place of `posting` if the journal already names an order, and
`asking` by `clientOrderId` after an answer that was lost or unclear. The
reconciliation of `/demo/connect` is one more client of the lock, which asks for
one unresolved order after the other. Requests that were given up may still
arrive (`late`). `Crash` ends all of it and starts the initialisation again;
`WriteFails` is a write that throws after the map has changed.

`WriteAhead` says what such a journal is for: an order is written before it is
sent, a name once written stays, the number the exchange gave it stays too, and
only an executed order gets one. `VstOrders` implements it (`WritesAhead`), with
what the file lists as what is written. Exempt are what was overlooked because
the process took orders before it had loaded the file, and what a failed write
left in memory only.

### `LiveTrading` and its components

Live trading is five modules about one process. Each component declares and
changes its own variables; `LiveTrading` extends them all and says which of
their actions share a step.

- `LiveExchange`, the live account: an order is one attempt to enter with a key,
  a kind (market, limit, or level of a grid) and a candle, which the initial
  state picks. `rests`, `holds` and `exited` say whether it has quantity on the
  book, open quantity and a filled exit; partial fills make them independent.
- `KillSwitch` (`lib/killSwitch.ts`): `Verdict` is the state after an evaluation,
  from the state before, the worst trigger and the two timers, `cooled` and
  `ripe`, that it reads. `pushTransition` resets them. `probation` is history:
  whether a whole recovery has passed since the last pause, or a restart has made
  the switch forget that one was due (`SwitchForgets`).
- `TriggerBook` (`lib/exhaustionTriggerManager.ts`, `lib/gridTriggerManager.ts`
  and the detectors in `routes/bot.ts`): the status of each armed order, timers
  that wait for the partial-fill check (`checking`), cancel requests nobody waits
  for (`cancelling`), a grid's collective timer (`sweep`), fill detectors
  (`polled`). All of it is lost in a crash. The cluster of an order comes with its
  request, so two orders of one symbol may name different ones.
- `LiveWatcher` (`lib/livePositionWatcher.ts`): `tracked`, `recorded`, the
  journal and dead-letter files, credentials, and a poll as its two kinds of
  await: the positions, then the order history of one flat key after the other.
  An error answer counts as an empty account, and `misled` remembers whom it
  concerned. An outcome gets its id from the entry orders that the history lists:
  the entry's own if it is there, otherwise that of the order in the same place
  (`Identified`), which may be another entry's; `named` remembers the ids.
- `OutcomeOutbox` (`lib/telemetryStore.ts`, `lib/quantBrainClient.ts`): the
  telemetry buffer and file, the map and file of pending outcomes, syncs that
  wait for the outbox lock, the request under way, what the brain has. Answers
  may be partial or lost. Outcomes are known by their ids, and the telemetry store
  drops one whose id it knows. `Rotates` moves the telemetry file to the backups,
  which no restart reads (`archived`).
- `LiveTrading` (`executeSingleOrder` with its grid path in `routes/bot.ts`, the
  claims of `lib/marketDataQuality.ts`): `at` is where an order is: `idle`,
  `gated` past the kill switch, sent and `accepted`, `refused` or `unreached`,
  `done`. `Acknowledged` registers the order with the watcher and arms it in the
  same step, `HistoryComes` records, buffers and enqueues outcomes in one,
  because there is no await in between. `Crash` reloads claims, watcher journal
  and outbox and forgets the rest.

A grid's levels are sent with retries and without a `clientOrderID`, so a level
may be placed twice: `GridSends` lets the exchange accept orders nobody asked for
a second time (`again`), which no answer will name (`mislaid`).

`OutcomeDelivery` says what the watcher, the telemetry and the outbox promise
together: an outcome that is owed stays owed until it is delivered, and stays
delivered; only an archive may end what is owed, and only what it takes.
`LiveTrading` implements it (`Delivers`, with what either file holds
or the brain has as what is owed).

### `JobSupervisor` (`quant-brain/core/job_supervisor.py`) and `FairSlots`

Callers of `execute()` and the tasks of the interval jobs on one event loop, so
an action is what a coroutine does from one await to the next. `pc` says where
each one is: idle, asleep until its next interval, waiting for a permit, running,
or over. `sem` is the asyncio semaphore of Python 3.11, which `.replit` names:
its value, the place of every waiter in the queue, and the waiters that a release
has handed a permit which they have not yet taken. `_wake_up_next`, `release` and
the two ways out of `acquire` (resumed, cancelled) are the operators `Wake`,
`Release`, `Resumed` and `Withdrawn`.

`CallBypasses` is protection work, which takes no permit; `CallTakes`,
`CallWaits` and `CallResumes` are the ways other work gets one; `CallPreempted`,
`CallGivesUp` and `CallEnds` the ways out, each with the whole `finally` of
`execute()`. A rejected call changes nothing but counters and is no action.
Retries keep the permit and are part of running. `Stop` cancels the tasks of
the jobs and is over when `cancelled` is empty again.

`FairSlots` says what the permits are for, in four sets: who waits (`line`), who
came before whom (`ahead`), who was handed a slot and has not noticed
(`handed`), who uses one (`working`). Slots go to the front of the line, nobody
who comes later walks past it, no slot is idle while somebody waits and never
more than `Slots` are out. `JobSupervisor` implements it (`SlotsFair`): the queue
with its places, the promised permits, the value of the semaphore and the holders
map to those sets, and one resumption of a coroutine, with the wake-ups it
passes on, is one step of `FairSlots`.

### Proof modules and MC modules

`DemoTradeStoreProofs`, `ServiceStateProofs`, `DemoSniperProofs`,
`VstOrdersProofs`, `LiveTradingProofs` and `JobSupervisorProofs` extend their
component with TLAPS. `MCDemoTradeStore`, `MCServiceState`, `MCDemoSniper`,
`MCVstOrders`, `MCLiveTrading` and `MCJobSupervisor` hold model values, budgets
and symmetry sets.

## 3. Runs

| Run | Shows | Bounds |
|---|---|---|
| `demo_store` | the invariants of the store, that a queued close never waits for ever, and that the store implements `TradeLedger` | 2 orders, 1 key, 2 trades, 2 queued calls, 2 crashes, 1 failed write, torn writes |
| `demo_campaigns` | no trade reopens and a campaign keeps to its key when crashes tear writes | 2 keys, 2 campaigns, clock 0..1, 1 planned entry, 1 crash, torn writes |
| `service_state` | breakers, loss percentage, relaxation | 3 events per window, 3 losses, clock 0..2, two equities |
| `demo_sniper` | cap, pause, records of watched entries | 2 keys, cap 1, 3 trades, 1 trigger, 1 change, no failure |
| `demo_sniper_live` | forgotten entries; each open trade of the store is watched or being closed; closing of flat trades | 1 key, 1 candle, 2 trades, 1 crash, 1 failure, 1 refused order |
| `vst_orders` | an executed order is known or can be found; the journal implements `WriteAhead`; every turn comes | 2 clientOrderIds, 2 callers and the reconciliation; 2 calls and 2 faults, or 3 calls |
| `live_trading` | the properties of live entries, triggers, records, claims, outcomes and the kill switch; that outcomes implement `OutcomeDelivery` | 2 orders, 2 keys, 2 candles, 1 cluster or none, seven budgets |
| `job_supervisor` | permits, locks and queue depth; that the permits implement `FairSlots`; no waiter left behind; stop() returns; no deadlock | 3 callers, 2 jobs (one low), 1 lock, 2 permits, queue of 2, 1 credit |
| `demo_archive_race`, `demo_crash_close`, `service_win`, `demo_sniper_double_count` | each a disagreement between a comment and the code, see section 6 | small |

Why the bounds suffice to be interesting.

- Store: two orders and two queued calls let a persist race a persist, a close
  race a close and a close race an archive; two crashes put one between any two
  writes and a second into the recovery's aftermath; a cache and a ledger limit
  of one make eviction and archiving happen at once.
- Service state: thresholds of one to three with a window of one tick make each
  breaker trip, expire and trip again.
- Sniper: a cap of one with two keys is where the sniper and the trigger loop
  overrun each other; one failure is enough for each property that counts
  failures, one refused order for an entry that is too small for the next attempt
  (`MaxRefused`), and the proofs cover the rest. A change (`MaxModes`) is a manual
  order or close, a new service state, a stop, a disconnect, a new candle or the end of a
  campaign's window; a manual order is admitted only where two cycle entries
  would fit (`HasRoom(2)`), which keeps the three placers within one bound.
- Order journal: two callers may name one `clientOrderId`, and a crash is a
  fault like a lost answer, a failed write or a request given up; two faults are
  a lost answer and a crash, or a failed write and a crash.
- Live trading: every state of every component at once is out of reach, so a
  behaviour draws one of seven budgets (`MCLiveTrading`): two resting orders, in a
  cluster or not, with a failure, or with a crash; a resting and a market order,
  closed and polled; one order of any kind through all of reporting, with a failure,
  a crash and a rotation; two market orders, recorded and crashed over, whose
  outcomes may share an id; the kill switch through a whole recovery and a restart;
  a second order too long after the first close. The proofs need none of them.
- Supervisor: three callers and two jobs for two permits give two waiters behind
  two holders, so that a permit can be handed to one waiter, refused by it and
  owed to the next; a queue of two is full while protection work comes.

`CHECK_DEADLOCK FALSE` is set for the store, the sniper, the order journal and
live trading because their bounds on trades, calls and failures stop the model;
the service state and the supervisor always have a step and their deadlock check
is on. Symmetry is used only where no liveness property is checked: keys, orders
and candles are never compared or ordered by the modules. `live_trading` checks
`Delivers`, `ProbationServed` and `LateExitStops` under symmetry, all of them safety
properties.

### Fairness

- `WF(LockStep)` in the store and the order journal: the head of the queue is
  running code or an awaited file operation, which node completes or rejects.
- `WF(Recover)`: `initDemoTradeStore` runs at every start of the process. That
  the process is started again at all is part of that assumption.
- `WF(Monitor)` in the sniper: `setInterval` starts the pass again and again,
  and each of its requests has a timeout. Nothing is assumed of the placers, of
  the operator or of the exchange. A monitor that could only fail is not
  excluded by fairness but by the bound on failures.
- `WF(CallGoesOn)` and `WF(JobGoesOn)` in the supervisor: the event loop resumes
  what can resume, and work ends by itself or by the timeout that both
  `_execute_with_retries` and `_run_once` give it. Nothing is assumed of callers,
  of queue timeouts, of intervals or of when stop() is called.
- None in live trading and in the service state, of which only safety is
  claimed: a live position need not close, and the watcher does not poll after a
  restart before the next order.

### Properties

`PROJECT.json` names for each property a mutant of the code that breaks it; the
mutants are the definitions commented "Mutant" in the modules.

## 4. What is proved

Every theorem is of the form `Spec => []P` or `Spec => [][A]_vars`, or, for the
four refinements, `Spec => A!Spec`, for all values of the constants that satisfy
the module's named assumption (`StoreConstants`, `ServiceConstants`,
`SniperConstants`, `OrderConstants`, `LiveConstants`, `SupervisorConstants`):
bounds are natural numbers, thresholds and caps are positive, loss limits
negative, 0 is not an order of the store, the reconciliation is no caller of the
journal, the outcomes are those of the orders; the sniper's keys, the live orders
and the supervisor's callers and jobs are finite. Nothing is
assumed about how many orders, keys, crashes or failures there are.

- **Store** (`DemoTradeStoreProofs`): `TypeCorrect`, `LedgerOnceHolds`,
  `NeverReopensHolds`, `OneOpenTradePerOrderHolds`, `OpenTradesSurviveHolds`,
  `FileMirrorsMemoryHolds`, `CampaignOneKeyHolds`, `KeepsPromiseHolds`. None of the properties is
  inductive alone. The strengthening says, stage by stage, what the lock holder
  has done already (in `append` the trade is off the maps and off the open file
  but not in the ledger), what a `.tmp` file may hold at each stage and after a
  crash, and that a trade in the ledger is in no file that a restart would load.
  Nothing is assumed about torn writes: `SurviveInv` keeps an acknowledged trade in
  the open file or among what a promoted `.tmp` lacked, and `DurableInv` says what a
  `.tmp` of each stage lacks (`missing`).
  `OpenTradesSurvive` (an open trade on disk stays there until its close, or was
  cut) is in no run because the refinement says it step by step.
  `WholeWritesCutNothing`: where a write leaves all or nothing, nothing is ever cut,
  so the half-written `.tmp` is the only hole.
- **Service state** (`ServiceStateProofs`): `ServiceTypeCorrect`,
  `BreakersAlwaysHold`, `LossPctAlwaysCurrent`, `RelaxesOnlyOnSignal`. The
  arguments go by cases over the recorders; the key lemma is that `transition`
  never lowers the severity.
- **Sniper** (`DemoSniperProofs`): `SniperTypeCorrect`, `CapHoldsAlways`,
  `PauseStopsEntriesAlways`, `WatchedClosedAlways`, `LiveEntriesTrackedAlways`,
  `OpenTradesWatchedAlways`.
  `IInv` collects the type
  facts with the shape of a placer's and the monitor's local state (`HandOK`,
  `JournalOK`: an order whose answer is awaited is executed and has its entry). `CapInv`
  weighs what is open together with what is under way: open entries, the
  sniper's remaining headroom and the entries past their gate never exceed twice
  the cap plus the failures; a save that fails keeps its headroom, which is what
  the failure pays for. `PauseInv` says that in a paused service every order
  past its gate was past it when the pause came. `WatchInv` says that the keys
  without a position in the monitor's snapshot, however old it is, are still without
  a watched open order, because a
  watched order was executed before the snapshot and orders execute once. `PosInv` says that
  every open quantity is of an executed order, and `MissInv` that the
  executed orders which are in nobody's hand, not in the monitor's map, not
  recorded and not `oversized` are at most as many as the failures until a crash.
  `OpenTradesWatchedAlways` needs `KeptInv`: an order has at most one open trade,
  what a cycle is about to store is in the monitor's map or already recorded, so
  is the order of every open trade, and one that was recorded belongs to a late
  trade or to the trade being closed.
- **Order journal** (`VstOrdersProofs`): `TypeCorrect`, `ExecutedAccountedHolds`,
  `KnownStaysHolds`, `WritesAheadHolds`, `AwaitedJournalKeepsAll`. `OrderInv` says what a file or `.tmp` of any moment is worth
  after a crash: every queued write carries an entry that may be written, and
  once per client (`QueueInv`); every entry is unresolved or names its order,
  unless the exchange refused one, and names only an executed one (`SoundInv`); before the map is loaded, the
  first entry recorded overlooks what the file holds (`EarlyInv`); what the map
  holds is in the file or being written (`MapInv`, `TmpInv`, `HeldInv`); an order
  that is sent or may have been executed stays listed (`AccountInv`), and so does what
  else the file lists (`ListedInv`) and an `exchangeOrderId` (`KnownInv`). The
  properties need all of it, because the next rename puts the `.tmp` in the file's
  place and the next crash the file in the map's. The refinement goes by who may
  send: one client per step, of an order that `AccountInv` lists. It says more than
  `KnownStays`, which is in no run for that reason. `AwaitedJournalKeepsAll` takes the
  exemptions away: if the lock is only used once the journal is loaded (`Awaited`)
  and the file can be read and written (`Intact`), nothing is overlooked or unsaved,
  and what is left, lost answers, requests given up and crashes, loses no order but
  one whose `clientOrderId` was refused as well.
- **Live trading** (`LiveTradingProofs`): `TypeCorrect`, `ProbationServedHolds`,
  `EntriesAccountedHolds`, `SeenClosedHolds`, `RestingOrdersGuardedHolds`,
  `ClusterExclusiveHolds`, `OneExecutionHolds`, `OutcomesSurviveHolds`,
  `DeliversHolds`, `LateExitStopsHolds`, and, for behaviours without a kind of fault,
  `CrashesTradeNothingTwice`, `FailuresLoseNoOutcome`, `InterleavingsLoseNothing`.
  Each component's steps have lemmas of
  their own, which the composition cites. `OrderInv` adds to the types that an
  answer under way is of an order on the exchange, and an order not sent yet is
  not there. Accounting needs that the watcher's journal lacks only the mislaid
  entries (`JournalInv`), so that a restart finds the rest. `ProbationServed` is
  an action property about the steps that admit an order: in no state between a
  pause and the end of its recovery but `RECOVERY` itself does the switch admit one.
  `SeenClosed` needs that
  what the poll under way may still record has no quantity, `misled` apart,
  although new entries of the key may come meanwhile (`SeenInv`). Outcomes need
  that what the outbox file lists is pending or delivered, and that every recorded
  entry has an id, of its own or of another (`OutcomeInv`). One
  execution per candle needs that an accepted order's claim is in the set and in
  the file, and that a claim which a refusal will release is that of no accepted
  order (`ClaimInv`). `LateExitStops` relates two states and follows by cases over
  the steps of a stranded one (`StaysStranded`). The last three theorems take the
  exemptions away: `BlamelessStep` says which exemption no step makes unless its
  budget pays for the fault, so with no failures in the budget a candle is traded
  once over any number of crashes, with no crashes no failure and no rotation loses an outcome but one
  whose id is another's too, and with neither, and no entry too old to be watched, no order is lost, and one
  left on the book without a cancel to come is one presumed filled. (TLC agrees on the instance of `live_trading` with such
  budgets; these are no runs of their own, because they follow.)
- **Supervisor** (`JobSupervisorProofs`): `SupervisorTypeCorrect`,
  `PermitsConservedAlways`, `LocksExactAlways`, `QueueExactAlways`,
  `SlotsFairAlways`. Each operator
  of the semaphore has a lemma that says what it adds to the permits nobody
  holds: a wake-up nothing, a release one, a resumed waiter minus one, a withdrawn
  one nothing. They need `SemOK`: the waiters' places are numbered without gaps, so
  that a wake-up serves exactly one, and only waiters hold promised permits.
  `IInv` adds that a call which waits is not protection work and that jobs are
  started and stopped together. For the refinement every step is one of seven uses
  of the semaphore (`SemUse`), no permit is free while an unpromised waiter is there
  (`NotIdle`), and a wake-up promises its permit to the lowest place, so that
  whoever is promised one came before all that still wait.
- **The findings.** For each of the four runs that find a disagreement, a theorem
  says that the cause shown there is the only one. They have the form
  `Spec /\ H => []P` where P is the very property the run violates and H says
  that the cause stays away.
  - `ArchiveRaceIsTheOnlyLoss`: with `ArchiveApart` (no line waits to be appended
    between the archive's rename and its truncation, which is what taking
    `_writeLock` would give) and no line glued to half a line that an interrupted
    append had left (`LineGlued`), `CompletedCloseLedgered` holds.
  - `LossesAreNamed`: if besides no crash and no failed write cuts a close
    short after its maps have changed (`CloseCut`), every persisted trade is open or
    closed on disk, or was cut by a promoted `.tmp`: `PersistedTradeAccounted` but for
    that third cause, which `cut` names.
    `AccountedInv` follows a trade from the open file through the close under way
    into the ledger.
  - `RejoiningIsTheOnlyDoubleCount`: if no entry joins a campaign of which entries
    exist but none is open (`Rejoins`), `CountedOnce` holds. `SumInv` says that a
    campaign the pass is about to report has no open entry and no counted one.
  - `WinMasksOnlyDegradation`: a win hides failures only out of a DEGRADED that is
    blamed on losses, and never as many as SHADOW_ONLY takes.

Only model-checked: the liveness properties `QueuedCloseRuns`,
`FlatTradesClose`, `TurnsCome`, `WaitersMove` and `StopReturns`, which are beyond
the prover. Every safety property of a passing run is proved. The hypotheses
`[]ArchiveApart`, `[]Awaited` and `[][~A]_vars` do not empty a theorem: under them
TLC still reaches closes, archives, updates and crashes on the small instances.

## 5. Abstractions

General:

- Scores, prices, sizes, capital, readiness and the order of candidates only
  decide whether an entry is skipped, so a skip is always possible.
- Logging, metrics and session lists that nothing reads back are left out.

Demo side:

- In `DemoTradeStore` and `DemoSniper` start-up is one step. In the code
  `initDemoTradeStore` runs while routes are already served; that race is listed
  as a hazard without a property. `VstOrders` models it for the journal.
- One `archiveClosedIfNeeded` at a time: the sniper cycle is the only caller
  and is guarded by its in-flight flag.
- `TornWrites` says whether a crash or an error can leave part of a write. It is
  TRUE in the passing runs of the store, and no theorem but `WholeWritesCutNothing`
  assumes otherwise. A torn write is a prefix in whole lines; an incomplete last line
  of `demo-open.jsonl` is skipped at the start.
- In `DemoSniper` a write of the journal is one step that succeeds, fails, or is
  caught half-way by a crash; its lock and the start-up race are in `VstOrders`.
- Quantities are not numbers: a repeated attempt may be larger than the entry it
  finds or not (`over`, `found`), at any time that this is possible at all.
- Entries that were recorded before are dropped from `sniperOpenTrades` when the
  monitor's pass resumes, in the code when its iterator meets them. No property
  looks in between.
- The session's list of manual entries and the reconciliation of balance and PnL
  feed telemetry only and are left out.

Live side:

- Sizes: that a request may set its own margin and so escape the recovery
  multiplier is not part of `ProbationServed`, which is about the states in which
  orders are admitted.
- The telemetry file holds the outcomes of other accounts as well, so it may be
  rotated at any time; that one of those shares an id with an outcome of the live
  account is left out.
- The kill switch's triggers count as the worst of them; which condition raised
  it is any. Only the exit monitor's delay is a trigger of its own, because it
  depends on state that the model has (`lastClose`).
- Which exits belong to which entries depends on times and quantities:
  `HistoryComes` records any entries of the key, at most as many as it has exits.
- The outbox lock is granted in any order, and a flush that would wait is one
  whose timer fires later.
- The claims, the watcher's journal, the outbox and the telemetry file are written
  with synchronous calls whose failure is caught and logged: each write is one
  step that succeeds or leaves the file as it was.
- Limits that are not reached: `MAX_TRACKED_ENTRIES` (500), `MAX_PENDING_OUTCOMES`
  (1000), `OUTCOME_SYNC_BATCH_SIZE` (25). Left out: the pruning of claims after 24
  hours, the mux-lock flag that status routes show, the dedupe claims of the
  mass-entry route, the tag of a partial fill, the queue of trigger outcomes, and
  the eligibility of an outcome (all are eligible).
- `POST /bot/order`, the bulk route and autopilot repeat the steps of
  `executeSingleOrder` and are not modelled separately.

Supervisor:

- Durations and the counters of `status()` are left out; that `_stopping` is
  never reset is kept, so a job started after `stop()` ends without running.

## 6. Findings

1. `demo_archive_race`: archiving renames the ledger and empties it without the
   write lock; a close appended in between is lost, although the comment says it
   is safe at the start of each cycle. `ArchiveRaceIsTheOnlyLoss` proves that no
   other step loses a completed close.
2. `demo_crash_close`: closing rewrites the open file before it appends the
   ledger line; a crash between the two leaves the trade in neither. `LossesAreNamed` proves that a
   close cut short there, by a crash or a failed append, and a half-written `.tmp`
   that is promoted are all that is missing.
3. `service_win`: a win after losses resets the whole service even when
   exchange or brain failures have reached their thresholds since.
   `WinMasksOnlyDegradation` bounds what it can hide.
4. `demo_sniper_double_count`: a campaign can be reported more than once, with
   its earlier trades counted again. `RejoiningIsTheOnlyDoubleCount` proves that it
   takes an entry which joins a campaign with nothing open.

### Observations

What the modelling met besides, where the models follow the code. Exceptions in
the properties (`excused`, `misled`, `mislaid`, `overlooked`, `late` ...) stand
for most of them.

Demo side:

- `rewriteOpenFile` truncates the `.tmp` and writes it (`lib/demoTradeStore.ts:195`).
  A crash in between leaves a `.tmp` that is newer than `demo-open.jsonl` and
  shorter, and `initDemoTradeStore` takes it for the intended state (:214-223), so
  the open trades it lacks are gone, although the header promises crash-safe
  atomic renames (:5). The store's models follow the code; `TradeLedger`,
  `OpenTradesSurvive` and `LossesAreNamed` name this loss.
- An entry of the order journal that a refused, failed or unheard attempt left
  keeps its quantity (`lib/vstOrderJournal.ts:89-90`). When the sniper builds the
  same `clientOrderId` again with a larger quantity and the order fills,
  `updateOrderState` throws on its quantity check (:116-118): the position is
  open, the journal does not name it and no map of the monitor has it
  (`routes/demo.ts:362-371`). `LiveEntriesTracked` names these as `oversized`.
- The monitor iterates the live map against an older answer, so an entry opened
  in between is recorded as closed. `WatchedClosedOnlyWhenFlat` speaks only of
  entries the monitor knew when it asked.
- An order that is stored after it was recorded stays open in the store for good
  (the exception in `FlatTradesClose`).
- `/demo/order` does not look at the service state, although
  `artifacts/api-server/README.md:308` and `lib/serviceState.ts:9` say that
  PAUSED admits no new entries; `PauseStopsEntries` is about the two cycles.
- A position of the sniper closed through `/demo/close` is recorded by the route
  and again by the monitor, under two different ids.
- The monitor divides a key's income by the quantities tracked when its pass
  began (`routes/demo.ts:2736`) and asks for it again in a later pass, so a
  skipped entry leaves income that is attributed twice.
- The campaign window starts anew with every entry
  (`lib/demoTradeStore.ts:286`), so a campaign can outlive `CAMPAIGN_WINDOW_MS`.
- Order journal: an order recorded before the map is loaded hides or replaces
  what the file held; after a failed write a repeated request sends an order that
  the file does not name; a repeated request that the exchange refuses as a
  duplicate is journaled REJECTED, and no reconciliation asks for it any more.

Live side:

- The kill switch lives in memory: a restart clears a pause or a recovery, and the
  next order is admitted at full size. Grids of the mass-entry route do not ask the
  switch at all, and a request with its own margin (`routes/bot.ts:3024`, :3039)
  is not reduced by the recovery multiplier (`lib/killSwitch.ts:196-203`, :358).
  `ProbationServed` names the first two.
- The watcher falls back to the entry order in the same place of the history
  (`lib/livePositionWatcher.ts:442-444`), so two outcomes may get one id; the
  telemetry store then returns the record it has (`lib/telemetryStore.ts:526-541`,
  :692) and the second outcome is dropped without a word.
- A rotation moves the telemetry file away (`lib/telemetryStore.ts:111-146`) and no
  start reads the backups, so an outcome that was in no other file is owed no
  longer after a crash.
- A grid level whose answer is lost is sent again without a `clientOrderID`
  (`lib/gridTriggerManager.ts:150-166`) and may rest on the book twice, once unknown.
- Two minutes after the last close with nothing tracked, `exit_monitor_delay` is
  a hard trigger on every evaluation, and no order can end it but one of the
  mass-entry route, which does not ask the kill switch (`LateExitStops`).
- Rejections for spread or tick density come after the claim and keep it, so the
  candle stays barred.
- The grid path of `executeSingleOrder` returns `qty` before its declaration is
  reached, which throws after the levels have been sent; it takes no claim.
- A fill detector looks at the key's position: a partial fill, or another order's
  position, marks the order PRESUMED_FILLED and leaves the rest of it on the book
  without anybody to cancel it. An order that filled whole may still be recorded
  as expired.
- A limit entry that has not filled may be recorded with another order's exit and
  fill untracked afterwards.
- `fetchOpenPositions` returns an empty list for an error code, which looks like
  a flat account to the watcher.
- After a restart the watcher has no credentials and does not poll until the next
  order. It reads the answer's `data` as an array, the fill poller reads
  `data.positions`.
- The telemetry buffer is emptied before it is written. Twenty-five outcomes that
  the brain blocks fill every batch of the outbox.

Supervisor: the preemption credit that protection work leaves at a full queue is
never withdrawn (`job_supervisor.py:141`).

## 7. Plan

Done, in this order: store, service state, sniper and monitor, supervisor; then
the order journal, live trading with its five components, the manual routes, the
two refinements, and the proofs of all their safety properties; then `FairSlots`
and `WriteAhead` with their refinements, `OpenTradesWatched`, the theorems
on the four findings, and those on live trading without faults.

Left:

1. `Policies`: stacking, governance, aggression and entry protection as operators
   over bounded inputs.
2. The start-up race of the trade store, and campaign sums when the cache of
   closed trades has evicted some.
3. The batch limit and the limit on pending outcomes of the outbox; predictions
   with their circuit breaker.
4. `POST /bot/order`, the bulk route and autopilot as callers of the live entry;
   the mass-entry route's dedupe claims.

### Not modelled

- HTTP, logging, metrics and the dashboard: input and output without state of
  the system.
- Scores, learning, sentiment, candle edge and replay: floating-point arithmetic
  over market data, of which the models use only that it may skip an entry.
- The champion registry `model_governance.py`: only tests import it.
- The SQLite variant of the telemetry store, which a configuration has to select.
- The migration backup, an older copy of the same program, and the generated API
  clients.

The notes in `PROJECT.json` say so component by component.
