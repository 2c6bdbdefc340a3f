# Formal models of rotonda's external-data refresh, Kafka ingestion and RIB storage

This directory holds TLA+ models of the three source files under `src/`.
There are TLC configurations that model-check them on small instances, and
TLAPS proofs of their main invariants. `PROJECT.json` lists the components,
runs, mutants, findings, hazards and theorems, and maps every model
definition to the source lines it translates.

## 1. Inventory

### Components

| Component | Source | State | Operations |
|---|---|---|---|
| ExternalDataManager | `roto_runtime/external_data.rs` 325-458 | `sources: HashMap<id, ExternalDataSource>` (the catalog), `cache: Arc<RwLock<HashMap<id, CachedData>>>`, `refresh_tx` (an unbounded mpsc sender) | `new` (spawns `refresh_task`), `add_source`, `remove_source`, `get_data`, `start_auto_refresh`, drop |
| refresh task | same file, 395-429 | the receiver and the shared cache | loop: `recv`, build the placeholder value (wall-clock `unwrap`), `CachedData::new(.., 300 s)`, write-lock and insert; ends when `recv` yields `None` |
| auto-refresh tickers | same file, 432-451 | a `refresh_tx` clone and a source id per ticker | build `interval(refresh_interval)` (panics on zero); every tick: `send(id)`; break on a send error |
| CachedData | 303-322 | value, `fetched_at: Instant`, `ttl` | `is_expired` = `elapsed > ttl` |
| ExternalDataAccess | 461-500 | none (a trait with no implementor in src/) | typed coercions |
| KafkaInRunner | `units/kafka_in/unit.rs` 201-266 | config, gate, waitpoint | `run`: `process_until(ready)`, `running()`, spawn the consumer task, then `select!` over `gate.process()` and the task's `JoinHandle` |
| consumer task | same file, 268-344 | `retry_count`, `delay`, and `message_count` per `run_consumer` call | `run_consumer` (emit a payload per tick, `Ok` after 10); on `Err`, check the budget, `retry_count += 1`, `sleep(delay)`, then `delay = min((delay * mult) as u64, max)` |
| StorageConfig | `units/rib_unit/storage.rs` 5-165 | the unit's `StorageConfig` (Memory, Disk or Hybrid) | `to_rib_config`, `is_persistent`, `storage_type` (pure), used once when the unit builds its store |

### Interactions

The manager and the refresh task share the cache through an `RwLock`. They
also share the channel: the manager, `get_data` and every ticker send on it,
and the refresh task alone receives. `remove_source` and `add_source` take
`&mut self`. So they never overlap a `get_data` call (`&self`), but they do
overlap the refresh task and the tickers, which are separate tokio tasks.
`start_auto_refresh` takes `&self` and may overlap a `get_data` call.

The Kafka runner drives the consumer task it spawned only by watching its
`JoinHandle`. The consumer task talks to the pipeline through
`gate.update_data`, and the runner answers gate commands.

### What is hard

- Interleavings: `get_data`'s two read-lock acquisitions race the refresh
  task, while add/remove/tickers race buffered requests.
- Ordering: a request buffered before `remove_source` is applied after it.
- Shutdown and liveness: the channel closes only when *every* sender is gone.
  Terminating the runner does not abort its spawned consumer task.
- Failure: `run_consumer` errors are retried with backoff under a budget. A
  panic in the refresh task closes the channel for good.
- Numeric edges: the retry-budget comparison, the uncapped first delay,
  truncating float-to-integer backoff, and a zero `refresh_interval_secs`
  (tokio's `interval` panics on a zero period).
- Completion: the placeholder `run_consumer` returns `Ok` after 10
  messages, the task then leaves its loop, and `run` treats the task's end
  as a termination.

### Properties that make each part correct

- Cache: entries exist only for registered sources. A hit is within the
  source's `cache_ttl_secs`. A stale or missing read always leaves a refresh
  pending or done, and no buffered request is lost.
- The cache's promise (`RefreshCache`): an entry is written only for a
  requested id, stamped with the instant of the write, and a request
  disappears only by being served or by the refresh task crashing.
- Shutdown: dropping the manager ends the refresh task and the tickers.
  While the channel is open, every ticker that was started keeps running.
- Consumer: exactly `max_retries + 1` calls before a fatal stop, delays
  within `max_delay_ms` that follow `min(initial * mult^n, max)`, nothing
  emitted after the unit terminates, `run` returns once the consumer task
  has ended, and the unit ends only when told to stop or after the task
  gave up.
- Storage: the unit runs on the configuration the spec's resolution table
  names and reports the declared type and persistence.

## 2. Modules

### `ExternalData.tla`: the manager, the refresh task and the tickers

| Variable | Code |
|---|---|
| `sources[id]` | `self.sources` (a `SourceConfig` record of `autoRefresh`, `cacheTtl`, `refreshInterval`, or `NoSource`) |
| `cache[id]` | the shared map; an entry is `[fetchedAt, ttl]` or `NoEntry` |
| `queue` | the ids buffered in the unbounded channel |
| `rxAlive` | the refresh task still owns the receiver |
| `managerAlive` | the manager (and its `refresh_tx`) exists |
| `tickers[id]` | the number of running ticker tasks for `id` |
| `spawned[id]` | the number of ticker tasks `start_auto_refresh` spawned for `id` (a history variable) |
| `caller[c]` | a `get_data` call between its first and second read lock |
| `now` | `Instant::now()` |

Actions: `AddSource`, `RemoveSource`, `GetDataCheck` (the first read,
returning a hit or sending a refresh), `GetDataFallback` (the second read),
`RefreshTask` (one loop iteration: pop, stamp `now` with the 300 s TTL,
insert), `RefreshPanic` (the `duration_since(UNIX_EPOCH).unwrap()` panic,
enabled by the constant `ClockBeforeEpoch`), `RefreshExit` (`recv()` yields
`None`: no sender left and nothing buffered), `StartAutoRefresh`,
`TickerTick` (send, or break on a failed send), `DropManager` and `Tick`.
`StartAutoRefresh` spawns a task per auto-refresh source; the task of a
source whose `refresh_interval_secs` is 0 panics in `interval` before its
first tick, so it counts in `spawned` and not in `tickers`.
`NoCallInProgress` guards the `&mut self` methods and the drop, which is
what the borrow checker guarantees.

The first read and the send of `get_data` are one step. That is sound
because the send only appends to the channel, and so commutes with any
cache write the refresh task makes in between. The value the placeholder
fetch builds depends only on the id and the time, so an entry is its
timestamp.

### `RefreshCache.tla`: what the cache promises

The abstract specification has four variables: `cache`, `pending` (the
ids whose refresh is requested), `open` (the refresher runs) and `now`.
Its actions are `Request`, `Serve` (write an entry stamped `now`; another
request for the id may remain), `Evict`, `Exit` (only with nothing
pending), `Crash` (drops every pending request; enabled by the constant
`CanCrash`) and `Tick`. `ExternalData` defines the refinement mapping
`Abs == INSTANCE RefreshCache WITH pending <- PendingIds, open <- rxAlive,
CanCrash <- ClockBeforeEpoch`. `PendingIds` is the set of ids buffered in
the channel. Under it, `RefreshTask` is `Serve(Head(queue))`, a send to
the open channel is `Request`, `RemoveSource` is `Evict`, `RefreshExit` is
`Exit` and `RefreshPanic` is `Crash`. Every other step leaves the mapped
state alone.

### `KafkaIn.tla`: the runner and its consumer task

Variables: `unit` (awaiting / running / terminated, where `run` is),
`consumer` (none / consuming / sleeping / done), and `retryCount`, `delay`
and `msgCount`, the task's locals. `attempts` and `sent` (payloads handed
to the gate) are history counters. `sentAtTerm` is the value of `sent`
when `run` returned. `cfg` is one of `RetryConfigs`; the f64 multiplier is
the fraction `num/den`, and `(x as f64 * m) as u64` becomes
`(x * num) \div den`.

The environment's actions are `BecomeReady` (the waitpoint) and
`RequestTermination` (a gate command). The code's actions are
`StartRunning`, `GateTerminated`, `ConsumerTaskCompleted`, `Emit`,
`ConsumeSucceeded`, `ConsumeFailed` and `Wake`. The placeholder
`run_consumer` never fails, but its `Result` and the retry loop around it
are the code under test, so a failure is an environment choice at any
tick.

### `RetryLoop.tla`: what the consumer task promises

The abstract retried task has `budget` (the retries allowed), `phase`
(idle, calling, waiting, succeeded, failed) and `calls`. `Start` makes the
first call. `Succeed` stops the task. `Fail` waits while `calls <= budget`.
`GiveUp` fails for good at `calls = budget + 1`. `Retry` makes the next
call. `KafkaIn` maps onto it with `budget <- cfg.maxRetries`,
`calls <- attempts` and `phase <- TaskPhase`. `TaskPhase` sends `none` to
idle, `consuming` to calling and `sleeping` to waiting. It sends `done` to
succeeded when the message count reached its bound and to failed
otherwise. Success and failure are separate phases so that a budget
spent one call early or late is not a legal abstract step.

### `RibStorage.tla`: the storage tier selection

`intent` is the unit's `StorageConfig`, any member of the record sets
that translate the enum and its `DiskStorageConfig` and
`HybridStorageConfig` (paths, sizes and the store's `MemoryOnlyConfig` are
model values). `resolved` is what the unit built and reported. The single
action `Resolve` applies `ToRibConfig`, `StorageType` and `IsPersistent`.
`SpecResolution` is the table of spec sections 3, 4.5 and 8, written
independently of the code.

## 3. Runs

| Run | Expect | Checks | Shows |
|---|---|---|---|
| external_data_safety | pass | `TypeOK`, `RefreshAheadPending`, `RefinesRefreshCache` | refresh-ahead is never lost while the refresh task lives, and the manager implements `RefreshCache` |
| external_data_live | pass | `RequestServed` | every buffered request becomes a fresh entry, also across the manager's drop |
| external_data_resurrect | violation | `CacheOnlyRegistered` | the refresh task recreates entries of removed or unknown sources |
| external_data_ttl | violation | `HitWithinCacheTtl` | hits outlive a `cache_ttl_secs` shorter than 300 s |
| external_data_shutdown | violation | `ShutdownStopsRefresh` | tickers keep the channel open after the manager drop |
| external_data_zero_interval | violation | `TickersRunWhileOpen` | a zero `refresh_interval_secs` kills its ticker while the channel is open |
| kafka_runner | pass | `TypeOK`, `RetryBudgetExact`, `TaskEndLeadsToTermination`, `BackoffNonDecreasing`, `ImplementsRetryLoop` | exactly `max_retries + 1` calls before giving up; `run` returns once the consumer task has ended; the backoff never shrinks when `initial <= max` and the multiplier is at least 1; the task implements `RetryLoop` |
| kafka_success_stops | violation | `UnitEndsOnlyOnStopOrFailure` | a successful consume cycle ends the task, and with it the unit |
| kafka_emit_after_term | violation | `NoEmitAfterTermination` | the detached consumer task emits after `run` returns |
| kafka_delay_cap | violation | `SleepWithinMaxDelay` | the first sleep ignores `max_delay_ms` |
| kafka_delay_formula | violation | `DelayMatchesSpec` | truncation stalls a 1.5× backoff at 1 ms |
| rib_storage | pass | `TypeOK`, `DegradationObservable` | every storage configuration resolves as the spec's table says |

Bounds for ExternalData (`MC_ExternalData`): two sources, so a request for
one id can sit behind another. One `get_data` caller. Time 0..3, with the
refresh TTL at 1 tick and `cache_ttl_secs` at 0 or 2 ticks, so entries
expire and a TTL below 300 s is represented. A channel of at most 2 and one
ticker task per source. `refresh_interval_secs` is positive in the passing
runs and may also be 0 in `external_data_zero_interval`. These reach every action (including panic, exit and the
ticker's break) and every ordering of remove / buffered refresh / read. The
safety run explores 542 050 distinct states in seconds, and checks the
refinement property over all of them.

Bounds for KafkaIn (`MC_KafkaIn`): 2 messages per `run_consumer` call. Four
retry configurations: `max_retries` of 0 to 3 (both edges of the budget
check), a doubling backoff that hits its cap, a 1.5 multiplier from 1 ms,
and an initial delay above the cap.

Bounds for RibStorage (`MC_RibStorage`): one path, one size and two
memory configurations (the default and another). With both Booleans,
every `SyncMode` and `PlacementStrategy`, and `max_size_bytes` present or
`None`, all 206 configurations are initial states (412 states with their resolution). That covers every arm
of the three functions and the difference between the default and a
configured memory backend.

Fairness: weak fairness on the refresh task, its exit, each ticker, the
second read of `get_data`, and every step of the runner and the consumer
task. They are tokio tasks, and the runtime keeps polling a task that can
progress. Neither `run_consumer` failures nor the environment (readiness,
terminate commands, adding or reading sources, time) are fair. Deadlock is
not checked: the modelled system really stops once the manager and its
tasks are gone or the unit has terminated, and the clock bound stops
`Tick`.

## 4. Findings

All eight are disagreements between the code and `spec.md`; `PROJECT.json`
gives the lines.

1. `refresh_task` never checks the catalog. A refresh buffered before
   `remove_source`, a ticker left running for a removed source, or a
   `get_data` on an unknown id recreates the cache entry. After that,
   `get_data` returns data for a source that is not registered.
2. Entries get a fixed 300 s TTL and ignore `cache_ttl_secs`.
3. Tickers hold `refresh_tx` clones, so dropping the manager stops neither
   the tickers nor the refresh task.
4. Terminating the Kafka unit leaves the consumer task running and emitting.
5. The first backoff sleep is `initial_delay_ms` even above `max_delay_ms`.
6. The truncating, iterated backoff departs from the spec's closed formula.
7. A source with `refresh_interval_secs = 0` gets a ticker that panics in
   `tokio::time::interval` before its first tick. Deserialisation accepts
   0, and the spec says a ticker stops only when its enqueue fails.
8. When `run_consumer` returns `Ok`, `start_consumer_task` breaks out of
   its loop and the task ends. The placeholder does this after 10 messages.
   `run`'s `select!` arm on the task's `JoinHandle` then returns
   `Err(Terminated)`, and the code's own comment there says this
   "shouldn't happen in normal operation". The unit terminates with no
   terminate command and no failure. Spec section 4.4 says that on success
   the consume task keeps running until told to stop. The trace needs no
   injected failure.

## 5. Proofs

`ExternalData_proofs.tla` proves three results for every value of the
constants, under `ConstantsAssumption`. That assumption says the bounds are
naturals, `ClockBeforeEpoch` is Boolean, and `NoEntry` is not an entry
record.

- `TypeCorrect`: `Spec => []TypeOK`. Each action is proved well typed in its
  own step (`TypeStep`). Zenon first extracts the action's effect, because
  SMT does poorly with the Boolean-valued guards, and then SMT checks the
  types.
- `RefreshAheadInvariant`: `Spec => []RefreshAheadPending`. This invariant
  is not inductive as it stands. In `RefreshTask`, the entry written for the
  caller's id carries `now`, which must not be earlier than the caller's
  first read. So the proof uses `IInv == TypeOK /\ CallerNotAhead /\
  RefreshAheadPending`. TLC checked `IInv` as an invariant of the safety
  instance first. The lemmas `AppendInQueue` and `TailInQueue` carry
  membership in the channel across `Append` and `Tail`, and `SendType`
  gives the effect of a send. `IInvFrame` and `IInvAppend` cover the
  actions that leave the cache, callers and clock alone.
- `RefreshCacheRefinement`: `Spec => RefinesRefreshCache`. The initial
  state maps to `Abs!Init`. `RefineStep` shows, one step per action, that
  every step of `Next` from a `TypeOK` state is a step of `Abs!Next` or
  leaves `<<cache, PendingIds, rxAlive, now>>` alone. The lemmas `RngAppend`
  (appending adds exactly the appended id to the ids held) and `RngTail`
  (removing the head removes the head's id or nothing) carry the mapping
  across the channel operations. The temporal step combines these with
  `TypeCorrect` by PTL.

`KafkaIn_proofs.tla` proves four results for every retry configuration and
message bound, under `KafkaConstantsAssumption`.

- `TypeCorrect`: `Spec => []TypeOK`. `TypeOK` is split into `TypeCtrl`
  (the configuration, the Booleans and the control states) and `TypeData`
  (the counters and the delay). Each part is proved per action, because SMT
  fails on the whole conjunction. The delay step needs
  `(delay * num) \div den \in Nat`, proved in three sub-steps.
- `RetryBudgetInvariant`: `Spec => []RetryBudgetExact`. The strengthening
  `AttemptsTrack` ties the history counter to the task's locals:
  `attempts = 0` before the task starts, `attempts = retryCount + 1` while
  consuming or done, `attempts = retryCount` while sleeping, and
  `retryCount = max_retries` when the task gave up. TLC checked
  `TypeOK /\ AttemptsTrack` as an invariant of the Kafka instance first.
- `BackoffMonotone`: `Spec => BackoffNonDecreasing`, an action property.
  The lemma `NextDelayBounds` states three facts about one backoff step
  `NextDelay(d)` for every configuration and every natural `d`. It is a
  natural. It is at most `max_delay_ms`. When `d <= max_delay_ms` and
  `num >= den`, it is at least `d`; the proof goes through
  `d * (num - den) \in Nat`. The step lemma needs two more invariants.
  `DelayCapped` says the delay is within the cap when the initial delay is.
  `AwaitingIdle` says the task has not started while `run` is awaiting,
  which rules out `StartRunning` as the sleeping-to-consuming step.
  `BInv == TypeOK /\ DelayCapped /\ AwaitingIdle` is proved inductive
  (`BInvInit`, `BInvStep`). `BackoffStep` then shows every step satisfies
  the implication, and PTL concludes.
- `RetryLoopRefinement`: `Spec => ImplementsRetryLoop`. `Init` maps to
  `Loop!Init`. `LoopStep` shows that under `IInv` and `BInv` every step of
  `Next` is a step of `RetryLoop` or leaves `<<cfg.maxRetries, TaskPhase,
  attempts>>` alone. `ConsumeSucceeded` is `Succeed` or a stutter.
  `ConsumeFailed` is `Fail` or `GiveUp`, and `AttemptsTrack` gives the call
  count that decides which. `Wake` is `Retry`, and `StartRunning` is
  `Start`.

`RibStorage_proofs.tla` proves two results for every set of paths, sizes
and memory configurations, under `StorageConstantsAssumption`.

- `TypeCorrect`: `Spec => []TypeOK`, with `ToRibConfigType`.
- `DegradationInvariant`: `Spec => []DegradationObservable`. The lemma
  `ResolutionAgrees` shows that `ToRibConfig`, `StorageType` and
  `IsPersistent` agree with the spec's table `SpecResolution` on every
  configuration. This comparison is the heart of the proof, and the
  invariant follows with `TypeOK` as its strengthening.

Only TLC checks the liveness properties (`RequestServed`,
`TaskEndLeadsToTermination`). Their proofs need fairness and ENABLED, which
the installed provers do not reason about. The properties of the
violation runs are false of the code, so they are not proved; TLC's
counterexamples are their evidence.

## 6. Plan

Done so far:
- the inventory;
- `ExternalData` with its runs, its proofs (types, refresh-ahead) and the
  `RefreshCache` refinement;
- `KafkaIn` with its runs and proofs (types, retry budget, backoff
  monotonicity) and the `RetryLoop` refinement;
- `RibStorage` with its proofs.

Next, in order:

1. A liveness form of the refinements: `RefreshCache` with weak fairness on
   `Serve`, checked by TLC against `RequestServed`; `RetryLoop` with weak
   fairness on every step but `Fail` and `Succeed`.
2. An action property of `ExternalData`: a cache entry's `fetchedAt` never
   decreases while the source stays registered, proved from `IInv`.
3. Compose `KafkaIn` with a model of the gate's downstream, if the pipeline
   framework comes under `src/`.

## 7. Not modelled

- The content of fetched values and payloads.
- The source kinds and the external-data `RetryConfig`: the code never
  reads them.
- Poisoned locks: no code path panics while holding the lock.
- The interval lengths of the tickers, apart from zero.
- Reconfiguring and ReportLinks: they change no state.
- `ExternalDataAccess`: typed coercions of an untagged value enum, with no
  implementor in `src/`. Modelling them faithfully means modelling Rust's
  string and float conversions, which would take more text than the code,
  and no property of the system depends on them.
- The Kafka configuration fields other than the retry configuration, and
  the route and ASN of a placeholder payload.
- The pipeline framework (gate, waitpoint): not under `src/`; its commands
  are environment actions of `KafkaIn`.
- Configuration deserialisation.
