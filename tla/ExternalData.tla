---------------------------- MODULE ExternalData ----------------------------
(***************************************************************************)
(* The external-data manager of src/roto_runtime/external_data.rs: the     *)
(* source catalog (ExternalDataManager.sources), the shared cache          *)
(* (Arc<RwLock<HashMap<String, CachedData>>>), the unbounded refresh       *)
(* channel (mpsc::unbounded_channel), the background refresh task, the     *)
(* auto-refresh ticker tasks, concurrent get_data callers and the drop of  *)
(* the manager.  A cache entry is abstracted to its timestamp and TTL: the *)
(* placeholder value the refresh task writes is determined by the source   *)
(* id and the time of the fetch.                                           *)
(***************************************************************************)
EXTENDS Naturals, Sequences

CONSTANTS
    Ids,          \* source identifiers
    Callers,      \* tasks calling get_data concurrently through &self
    CacheTtls,    \* values of cache_ttl_secs a source may be configured with
    RefreshIntervals, \* values of refresh_interval_secs
    RefreshTtl,   \* the TTL the refresh task stamps on every entry (300 s)
    MaxTime,      \* bound on the Instant clock
    MaxQueue,     \* bound on the length of the refresh channel
    MaxTickers,   \* bound on the ticker tasks of one source
    ClockBeforeEpoch, \* SystemTime::now() may precede UNIX_EPOCH
    NoSource,     \* marks an id absent from the catalog
    NoEntry       \* marks an id absent from the cache

ASSUME ConstantsAssumption ==
    /\ RefreshTtl \in Nat
    /\ CacheTtls \subseteq Nat
    /\ RefreshIntervals \subseteq Nat
    /\ MaxTime \in Nat
    /\ MaxQueue \in Nat \ {0}
    /\ MaxTickers \in Nat
    /\ ClockBeforeEpoch \in BOOLEAN
    /\ NoEntry \notin [fetchedAt : Nat, ttl : Nat]

VARIABLES
    sources,       \* ExternalDataManager.sources
    cache,         \* the shared cache map
    queue,         \* requests buffered in the refresh channel
    rxAlive,       \* the refresh task still holds the receiver
    managerAlive,  \* the manager (holding refresh_tx) has not been dropped
    tickers,       \* number of running auto-refresh tickers per source id
    spawned,       \* number of ticker tasks spawned per source id
    caller,        \* control state of each get_data call
    now            \* Instant::now()

vars == <<sources, cache, queue, rxAlive, managerAlive, tickers, spawned,
          caller, now>>

SourceConfig ==
    [autoRefresh : BOOLEAN, cacheTtl : CacheTtls, refreshInterval : RefreshIntervals]

Entry == [fetchedAt : 0..MaxTime, ttl : {RefreshTtl}]

Time == 0..MaxTime

CallerState == [st : {"idle", "fallback"}, id : Ids, at : Time]

-----------------------------------------------------------------------------
(* CachedData::is_expired: fetched_at.elapsed() > ttl.                     *)
IsExpired(e) == now - e.fetchedAt > e.ttl

(* The first read lock of get_data finds an entry that has not expired.    *)
HasFreshEntry(id) == cache[id] # NoEntry /\ ~IsExpired(cache[id])

(* The channel is open for sending while some sender is alive and the      *)
(* receiver has not been dropped; UnboundedSender::send fails otherwise.    *)
Send(id) ==
    IF rxAlive THEN queue' = Append(queue, id) ELSE UNCHANGED queue

(* A request for id is buffered in the channel.                            *)
InQueue(id) == \E k \in 1..Len(queue) : queue[k] = id

(* Methods taking &mut self cannot run while a get_data call holds &self.  *)
NoCallInProgress == \A c \in Callers : caller[c].st = "idle"

-----------------------------------------------------------------------------
Init ==
    /\ sources = [i \in Ids |-> NoSource]
    /\ cache = [i \in Ids |-> NoEntry]
    /\ queue = <<>>
    /\ rxAlive = TRUE
    /\ managerAlive = TRUE
    /\ tickers = [i \in Ids |-> 0]
    /\ spawned = [i \in Ids |-> 0]
    /\ \E i0 \in Ids :
         caller = [c \in Callers |-> [st |-> "idle", id |-> i0, at |-> 0]]
    /\ now = 0

(* add_source: insert into the catalog, then trigger the initial fetch.    *)
AddSource(id, cfg) ==
    /\ managerAlive
    /\ NoCallInProgress
    /\ Len(queue) < MaxQueue
    /\ sources' = [sources EXCEPT ![id] = cfg]
    /\ Send(id)
    /\ UNCHANGED <<cache, rxAlive, managerAlive, tickers, spawned, caller, now>>

(* remove_source: remove from the catalog and evict the cache entry.       *)
RemoveSource(id) ==
    /\ managerAlive
    /\ NoCallInProgress
    /\ sources' = [sources EXCEPT ![id] = NoSource]
    /\ cache' = [cache EXCEPT ![id] = NoEntry]
    /\ UNCHANGED <<queue, rxAlive, managerAlive, tickers, spawned, caller, now>>

(* Mutant: get_data falls back to stale data without triggering a refresh.*)
GetDataCheckNoTrigger(c, id) ==
    /\ managerAlive
    /\ caller[c].st = "idle"
    /\ \/ /\ HasFreshEntry(id)
          /\ UNCHANGED <<queue, caller>>
       \/ /\ ~HasFreshEntry(id)
          /\ caller' = [caller EXCEPT ![c] = [st |-> "fallback", id |-> id, at |-> now]]
          /\ UNCHANGED queue
    /\ UNCHANGED <<sources, cache, rxAlive, managerAlive, tickers, spawned, now>>

(* get_data, first read lock: a fresh entry is returned; otherwise a       *)
(* refresh is sent and the call goes on to the stale-data read.            *)
GetDataCheck(c, id) ==
    /\ managerAlive
    /\ caller[c].st = "idle"
    /\ \/ /\ HasFreshEntry(id)
          /\ UNCHANGED <<queue, caller>>
       \/ /\ ~HasFreshEntry(id)
          /\ Len(queue) < MaxQueue
          /\ Send(id)
          /\ caller' = [caller EXCEPT ![c] = [st |-> "fallback", id |-> id, at |-> now]]
    /\ UNCHANGED <<sources, cache, rxAlive, managerAlive, tickers, spawned, now>>

(* get_data, second read lock: return the entry, stale or not, if any.     *)
GetDataFallback(c) ==
    /\ caller[c].st = "fallback"
    /\ caller' = [caller EXCEPT ![c].st = "idle"]
    /\ UNCHANGED <<sources, cache, queue, rxAlive, managerAlive, tickers, spawned, now>>

(* Mutant: the entry is stamped with its expiry instant instead of the    *)
(* instant it was fetched.                                                 *)
RefreshTaskStampsExpiry ==
    /\ rxAlive
    /\ queue # <<>>
    /\ cache' = [cache EXCEPT ![Head(queue)] =
                    [fetchedAt |-> now + RefreshTtl, ttl |-> RefreshTtl]]
    /\ queue' = Tail(queue)
    /\ UNCHANGED <<sources, rxAlive, managerAlive, tickers, spawned, caller, now>>

(* refresh_task, one iteration: receive an id, build the placeholder and   *)
(* insert it into the cache for that id, whatever the catalog holds.       *)
RefreshTask ==
    /\ rxAlive
    /\ queue # <<>>
    /\ cache' = [cache EXCEPT ![Head(queue)] = [fetchedAt |-> now, ttl |-> RefreshTtl]]
    /\ queue' = Tail(queue)
    /\ UNCHANGED <<sources, rxAlive, managerAlive, tickers, spawned, caller, now>>

(* refresh_task, an iteration whose duration_since(UNIX_EPOCH).unwrap()   *)
(* panics: the task dies, dropping the receiver and every buffered id.     *)
RefreshPanic ==
    /\ ClockBeforeEpoch
    /\ rxAlive
    /\ queue # <<>>
    /\ rxAlive' = FALSE
    /\ queue' = <<>>
    /\ UNCHANGED <<sources, cache, managerAlive, tickers, spawned, caller, now>>

(* Mutant: the task stops once all senders are gone, dropping what is     *)
(* still buffered.                                                         *)
RefreshExitEarly ==
    /\ rxAlive
    /\ ~managerAlive
    /\ \A i \in Ids : tickers[i] = 0
    /\ rxAlive' = FALSE
    /\ UNCHANGED <<sources, cache, queue, managerAlive, tickers, spawned, caller, now>>

(* refresh_task: recv() yields None once every sender is dropped and the   *)
(* channel is drained, and the task returns.                               *)
RefreshExit ==
    /\ rxAlive
    /\ queue = <<>>
    /\ ~managerAlive
    /\ \A i \in Ids : tickers[i] = 0
    /\ rxAlive' = FALSE
    /\ UNCHANGED <<sources, cache, queue, managerAlive, tickers, spawned, caller, now>>

(* start_auto_refresh (&self, so it may overlap a get_data call): spawn   *)
(* one ticker task per catalog entry with auto_refresh.  tokio's interval  *)
(* panics on a zero period, so the task of a source with                   *)
(* refresh_interval_secs = 0 dies before its first tick.                   *)
StartAutoRefresh ==
    LET auto(i) == sources[i] # NoSource /\ sources[i].autoRefresh IN
    /\ managerAlive
    /\ \A i \in Ids : spawned[i] < MaxTickers
    /\ spawned' = [i \in Ids |-> IF auto(i) THEN spawned[i] + 1 ELSE spawned[i]]
    /\ tickers' = [i \in Ids |->
                     IF auto(i) /\ sources[i].refreshInterval > 0
                     THEN tickers[i] + 1 ELSE tickers[i]]
    /\ UNCHANGED <<sources, cache, queue, rxAlive, managerAlive, caller, now>>

(* A ticker task, one interval tick: send the id; stop if the send fails.  *)
TickerTick(id) ==
    /\ tickers[id] > 0
    /\ \/ /\ rxAlive
          /\ Len(queue) < MaxQueue
          /\ queue' = Append(queue, id)
          /\ UNCHANGED tickers
       \/ /\ ~rxAlive
          /\ tickers' = [tickers EXCEPT ![id] = @ - 1]
          /\ UNCHANGED queue
    /\ UNCHANGED <<sources, cache, rxAlive, managerAlive, spawned, caller, now>>

(* Dropping the ExternalDataManager drops its refresh_tx.                  *)
DropManager ==
    /\ managerAlive
    /\ NoCallInProgress
    /\ managerAlive' = FALSE
    /\ UNCHANGED <<sources, cache, queue, rxAlive, tickers, spawned, caller, now>>

(* Time passes.                                                            *)
Tick ==
    /\ now < MaxTime
    /\ now' = now + 1
    /\ UNCHANGED <<sources, cache, queue, rxAlive, managerAlive, tickers, spawned, caller>>

Next ==
    \/ \E id \in Ids, cfg \in SourceConfig : AddSource(id, cfg)
    \/ \E id \in Ids : RemoveSource(id)
    \/ \E c \in Callers, id \in Ids : GetDataCheck(c, id)
    \/ \E c \in Callers : GetDataFallback(c)
    \/ RefreshTask
    \/ RefreshPanic
    \/ RefreshExit
    \/ StartAutoRefresh
    \/ \E id \in Ids : TickerTick(id)
    \/ DropManager
    \/ Tick

(* The refresh task, the tickers and a started get_data call are tokio     *)
(* tasks that the runtime keeps polling while they can make progress.      *)
Fairness ==
    /\ WF_vars(RefreshTask)
    /\ WF_vars(RefreshExit)
    /\ \A id \in Ids : WF_vars(TickerTick(id))
    /\ \A c \in Callers : WF_vars(GetDataFallback(c))

Spec == Init /\ [][Next]_vars /\ Fairness

-----------------------------------------------------------------------------
(* Every variable holds a value of its type.                               *)
TypeOK ==
    /\ sources \in [Ids -> SourceConfig \cup {NoSource}]
    /\ cache \in [Ids -> Entry \cup {NoEntry}]
    /\ queue \in Seq(Ids)
    /\ rxAlive \in BOOLEAN
    /\ managerAlive \in BOOLEAN
    /\ tickers \in [Ids -> Nat]
    /\ spawned \in [Ids -> 0..MaxTickers]
    /\ caller \in [Callers -> CallerState]
    /\ now \in Time

(* The refresh caller c triggered is still buffered, or an entry fetched  *)
(* no earlier than c's first read is in the cache.                         *)
RefreshBufferedOrDone(c) ==
    LET i == caller[c].id IN
    \/ InQueue(i)
    \/ cache[i] # NoEntry /\ cache[i].fetchedAt >= caller[c].at

(* Refresh-ahead: while a get_data call that found no fresh entry is       *)
(* between its two reads and the refresh task is alive, a refresh of that  *)
(* id is still buffered in the channel or has already written an entry     *)
(* fetched no earlier than the first read (get_data, the send after the    *)
(* first read lock, racing refresh_task).                                  *)
RefreshAheadPending ==
    \A c \in Callers :
        caller[c].st = "fallback" /\ rxAlive => RefreshBufferedOrDone(c)

(* No refresh request is lost: once a request for id is in the channel at  *)
(* time t, the cache eventually holds an entry for id fetched at t or      *)
(* later (refresh_task drains the channel before recv() returns None).     *)
RequestServed ==
    \A id \in Ids, t \in Time :
        (InQueue(id) /\ now = t)
            ~> (cache[id] # NoEntry /\ cache[id].fetchedAt >= t)

(* remove_source leaves the cache without an entry for the removed source  *)
(* for as long as it stays unregistered (spec section 8 scenario): the     *)
(* cache only holds entries of registered sources.                         *)
CacheOnlyRegistered ==
    \A id \in Ids : cache[id] # NoEntry => sources[id] # NoSource

(* The freshness budget: every entry of a registered source that get_data  *)
(* would serve as a cache hit is no older than that source's               *)
(* cache_ttl_secs.                                                         *)
HitWithinCacheTtl ==
    \A id \in Ids :
        (HasFreshEntry(id) /\ sources[id] # NoSource)
            => now - cache[id].fetchedAt <= sources[id].cacheTtl

(* Dropping the manager shuts the refresh machinery down: the refresh task *)
(* and every ticker eventually stop (spec sections 4.2 and 4.3).           *)
ShutdownStopsRefresh ==
    ~managerAlive ~> (~rxAlive /\ \A i \in Ids : tickers[i] = 0)

(* A ticker stops only when its send fails (spec section 4.3): while the   *)
(* refresh channel is open, every ticker task start_auto_refresh spawned   *)
(* is still running.                                                       *)
TickersRunWhileOpen == rxAlive => tickers = spawned

-----------------------------------------------------------------------------
(* The refinement mapping onto the promise of RefreshCache: the pending    *)
(* requests are the ids buffered in the channel, and the refresher is      *)
(* open while the refresh task holds the receiver.                         *)
PendingIds == {queue[k] : k \in 1..Len(queue)}

Abs == INSTANCE RefreshCache
         WITH pending <- PendingIds, open <- rxAlive, CanCrash <- ClockBeforeEpoch

(* The manager, the refresh task and the tickers together keep the cache's *)
(* promise: refresh_task writes only ids somebody sent, stamps each entry  *)
(* with the instant of the write, and no buffered request disappears       *)
(* except by being served or by the refresh task panicking.                *)
RefinesRefreshCache == Abs!Spec
=============================================================================
