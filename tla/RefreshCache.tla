----------------------------- MODULE RefreshCache -----------------------------
(***************************************************************************)
(* What the external-data cache promises (spec sections 4.1 and 4.2),      *)
(* without the channel, the catalog, the tickers or the callers: a map     *)
(* from source id to a cached entry, and a set of ids whose refresh has    *)
(* been requested.  An entry is only written by serving a requested id,    *)
(* and is stamped with the instant it is written.  A request is never      *)
(* dropped while the refresher runs; the refresher stops only with nothing *)
(* pending, unless it crashes, and a crash drops every pending request.    *)
(***************************************************************************)
EXTENDS Naturals

CONSTANTS
    Ids,          \* source ids
    RefreshTtl,   \* the TTL a refreshed entry carries
    MaxTime,      \* bound on the clock
    CanCrash,     \* whether the refresher may crash
    NoEntry       \* no cache entry for the id

VARIABLES
    cache,     \* id -> [fetchedAt, ttl] or NoEntry
    pending,   \* ids whose refresh is requested and not yet served
    open,      \* the refresher runs and accepts requests
    now        \* the clock

avars == <<cache, pending, open, now>>

Init ==
    /\ cache = [i \in Ids |-> NoEntry]
    /\ pending = {}
    /\ open = TRUE
    /\ now = 0

(* Ask for a refresh of id.                                                *)
Request(id) ==
    /\ open
    /\ pending' = pending \cup {id}
    /\ UNCHANGED <<cache, open, now>>

(* Serve a pending request: write a fresh entry stamped now.  Another      *)
(* request for the same id may still be pending afterwards.                *)
Serve(id) ==
    /\ open
    /\ id \in pending
    /\ cache' = [cache EXCEPT ![id] = [fetchedAt |-> now, ttl |-> RefreshTtl]]
    /\ pending' \in {pending, pending \ {id}}
    /\ UNCHANGED <<open, now>>

(* Drop the entry of id.                                                   *)
Evict(id) ==
    /\ cache' = [cache EXCEPT ![id] = NoEntry]
    /\ UNCHANGED <<pending, open, now>>

(* The refresher stops with nothing pending.                               *)
Exit ==
    /\ open
    /\ pending = {}
    /\ open' = FALSE
    /\ UNCHANGED <<cache, pending, now>>

(* The refresher crashes, dropping every pending request.                  *)
Crash ==
    /\ CanCrash
    /\ open
    /\ pending # {}
    /\ open' = FALSE
    /\ pending' = {}
    /\ UNCHANGED <<cache, now>>

Tick ==
    /\ now < MaxTime
    /\ now' = now + 1
    /\ UNCHANGED <<cache, pending, open>>

Next ==
    \/ \E id \in Ids : Request(id) \/ Serve(id) \/ Evict(id)
    \/ Exit
    \/ Crash
    \/ Tick

Spec == Init /\ [][Next]_avars
=============================================================================
