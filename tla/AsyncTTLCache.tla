----------------------------- MODULE AsyncTTLCache -----------------------------
(***************************************************************************)
(* core/cache.py: AsyncTTLCache with stale-while-revalidate, stampede      *)
(* protection and LRU eviction, shared by the coroutines of one event loop.*)
(*                                                                         *)
(* Atomicity.  No `async with self._lock' body suspends, so get_or_fetch   *)
(* runs in one step up to the await of fetch_fn or of an Event, and        *)
(* _refresh in one step from the result of fetch_fn to its end.  A task    *)
(* made by create_task starts in a later step, and so does a coroutine     *)
(* whose Event has been set.                                               *)
(*                                                                         *)
(* Values are versions of what OpenStack holds.  Times are entry ages.     *)
(***************************************************************************)
EXTENDS Integers, SequencesExt

CONSTANTS
  Keys,
  Callers,       \* coroutines that call get_or_fetch
  Refreshers,    \* bound: background tasks alive at once
  None,
  Ttl,           \* _ttl
  StaleTtl,      \* _stale_ttl
  KeyTtl,        \* per key: the ttl its @cached gives to get_or_fetch
  MaxSize,       \* _max_size
  MaxAge,        \* ages stop here, where no comparison tells them apart
  MaxVersion     \* bound: changes of the cloud per key

Tasks == Callers \cup Refreshers

ASSUME CacheAssumption ==
  /\ None \notin Tasks /\ None \notin Keys /\ None \notin Nat
  /\ Ttl \in Nat /\ StaleTtl \in Nat /\ MaxAge \in Nat
  /\ KeyTtl \in [Keys -> 0..MaxAge-1]
  /\ Ttl <= MaxAge /\ StaleTtl <= MaxAge
  /\ MaxSize \in Nat \ {0}
  /\ MaxVersion \in Nat

VARIABLES
  store,         \* _store, the OrderedDict: entries from oldest to newest use
  inflight,      \* _inflight: whose Event is registered for the key
  task,          \* where each coroutine is
  cloud          \* what OpenStack would answer now, per key

cacheVars == <<store, inflight, task, cloud>>

Versions == 0..MaxVersion

\* "scheduled": create_task has been called; "fetching": in fetch_fn;
\* "fetched": fetch_fn has its answer; "waiting": on the Event of `on';
\* "woken": that Event is set, get has not run yet.
Idle == [pc |-> "idle", key |-> None, val |-> None, on |-> None]

CacheTypeOK ==
  /\ store \in Seq([key : Keys, val : Versions \cup {None}, age : 0..MaxAge])
  /\ inflight \in [Keys -> Tasks \cup {None}]
  /\ task \in [Tasks ->
       [pc : {"idle", "scheduled", "fetching", "fetched", "waiting", "woken"},
        key : Keys \cup {None}, val : Versions \cup {None}, on : Tasks \cup {None}]]
  /\ \A t \in Tasks : task[t].pc # "idle" => task[t].key \in Keys
  /\ cloud \in [Keys -> Versions]

CacheInit ==
  /\ store = << >>
  /\ inflight = [k \in Keys |-> None]
  /\ task = [t \in Tasks |-> Idle]
  /\ cloud = [k \in Keys |-> 0]

-----------------------------------------------------------------------------
(* The OrderedDict *)

Cached(k) == \E i \in DOMAIN store : store[i].key = k
Position(k) == CHOOSE i \in DOMAIN store : store[i].key = k
Entry(k) == store[Position(k)]
Without(k) == IF Cached(k) THEN RemoveAt(store, Position(k)) ELSE store
MovedToEnd(k) == Append(Without(k), Entry(k))

\* Mutation: the size is looked at before the new entry is in.
StoredOneMore(k, v) ==
  LET s == Append(Without(k), [key |-> k, val |-> v, age |-> 0])
  IN  IF Len(store) > MaxSize THEN Tail(s) ELSE s

\* Mutation: room is made before it is known to be needed.
StoredEvictsFirst(k, v) ==
  LET s == Append(Without(k), [key |-> k, val |-> v, age |-> 0])
  IN  IF Len(store) >= MaxSize THEN Tail(s) ELSE s

\* set(): the entry goes to the end, and the first one goes if that is too many.
Stored(k, v) ==
  LET s == Append(Without(k), [key |-> k, val |-> v, age |-> 0])
  IN  IF Len(s) > MaxSize THEN Tail(s) ELSE s

\* get_stale(): a fresh entry is moved to the end, a stale one stays where it
\* is, an entry beyond stale_ttl is dropped.  Freshness is asked of _ttl; the
\* ttl the entry was stored with is not looked at.
Fresh(k) == Cached(k) /\ Entry(k).age < Ttl
Stale(k) == Cached(k) /\ ~Fresh(k) /\ Entry(k).age < StaleTtl

AfterGetStale(k) ==
  CASE Fresh(k) -> MovedToEnd(k)
    [] Stale(k) -> store
    [] OTHER    -> Without(k)

\* get(): the stored ttl decides, and an expired entry is dropped.
AfterGet(k) ==
  IF Cached(k) /\ Entry(k).age <= KeyTtl[k] THEN MovedToEnd(k) ELSE Without(k)

\* A cached None is, for get_or_fetch, no value at all.
HasValue(k) == Entry(k).val # None

-----------------------------------------------------------------------------
(* get_or_fetch() *)

HitFresh(c, k) ==
  /\ task[c].pc = "idle"
  /\ Fresh(k) /\ HasValue(k)
  /\ store' = AfterGetStale(k)
  /\ UNCHANGED <<inflight, task, cloud>>

\* The old value is returned; unless a fetch is registered, a task that will
\* refresh the key is created.  It registers itself only when it starts.
HitStale(c, k) ==
  /\ task[c].pc = "idle"
  /\ Stale(k) /\ HasValue(k)
  /\ IF inflight[k] = None
     THEN \E b \in Refreshers :
            /\ task[b].pc = "idle"
            /\ task' = [task EXCEPT ![b] = [Idle EXCEPT !.pc = "scheduled", !.key = k]]
     ELSE UNCHANGED task
  /\ UNCHANGED <<store, inflight, cloud>>

Miss(c, k) ==
  /\ task[c].pc = "idle"
  /\ ~((Fresh(k) \/ Stale(k)) /\ HasValue(k))
  /\ store' = AfterGetStale(k)

WaitForLeader(c, k) ==
  /\ Miss(c, k)
  /\ inflight[k] # None
  /\ task' = [task EXCEPT ![c] =
                [Idle EXCEPT !.pc = "waiting", !.key = k, !.on = inflight[k]]]
  /\ UNCHANGED <<inflight, cloud>>

\* Mutation: the miss path does not look at _inflight.
LeadAlways(c, k) ==
  /\ Miss(c, k)
  /\ inflight' = [inflight EXCEPT ![k] = c]
  /\ task' = [task EXCEPT ![c] = [Idle EXCEPT !.pc = "fetching", !.key = k]]
  /\ UNCHANGED cloud

Lead(c, k) ==
  /\ Miss(c, k)
  /\ inflight[k] = None
  /\ inflight' = [inflight EXCEPT ![k] = c]
  /\ task' = [task EXCEPT ![c] = [Idle EXCEPT !.pc = "fetching", !.key = k]]
  /\ UNCHANGED cloud

GetOrFetch(c, k) == HitFresh(c, k) \/ HitStale(c, k) \/ WaitForLeader(c, k) \/ Lead(c, k)

-----------------------------------------------------------------------------
(* _refresh(), run by a caller or by a background task *)

\* Mutation: the background task starts without its key.
BeginRefreshKeyless(b) ==
  /\ task[b].pc = "scheduled"
  /\ inflight' = [inflight EXCEPT ![task[b].key] = b]
  /\ task' = [task EXCEPT ![b] = [Idle EXCEPT !.pc = "fetching"]]
  /\ UNCHANGED <<store, cloud>>

\* First step of a background task: its Event replaces any that is registered.
BeginRefresh(b) ==
  /\ task[b].pc = "scheduled"
  /\ inflight' = [inflight EXCEPT ![task[b].key] = b]
  /\ task' = [task EXCEPT ![b].pc = "fetching"]
  /\ UNCHANGED <<store, cloud>>

\* fetch_fn is answered, with what OpenStack holds or with None.
Answer(t) ==
  /\ task[t].pc = "fetching"
  /\ \E v \in {cloud[task[t].key], None} :
       task' = [task EXCEPT ![t].pc = "fetched", ![t].val = v]
  /\ UNCHANGED <<store, inflight, cloud>>

WaitsFor(u, t) == task[u].pc = "waiting" /\ task[u].on = t

\* Mutation: the Event is set before it is registered for the last time, so
\* only waiters of the registered Event are woken.
FinishOnlyIfRegistered(t) ==
  /\ inflight' = [inflight EXCEPT ![task[t].key] = None]
  /\ task' = [u \in Tasks |->
       IF u = t THEN Idle
       ELSE IF WaitsFor(u, t) /\ inflight[task[t].key] = t
            THEN [task[u] EXCEPT !.pc = "woken", !.on = None]
            ELSE task[u]]

\* Mutation: the Event is set, but stays registered.
FinishWithoutPop(t) ==
  /\ UNCHANGED inflight
  /\ task' = [u \in Tasks |->
       IF u = t THEN Idle
       ELSE IF WaitsFor(u, t) THEN [task[u] EXCEPT !.pc = "woken", !.on = None]
       ELSE task[u]]

\* The finally clause, on every way out: the own Event is set, and whatever
\* Event is registered for the key is removed.
Finish(t) ==
  /\ inflight' = [inflight EXCEPT ![task[t].key] = None]
  /\ task' = [u \in Tasks |->
       IF u = t THEN Idle
       ELSE IF WaitsFor(u, t) THEN [task[u] EXCEPT !.pc = "woken", !.on = None]
       ELSE task[u]]

Refreshed(t) ==
  /\ task[t].pc = "fetched"
  /\ store' = Stored(task[t].key, task[t].val)
  /\ Finish(t)
  /\ UNCHANGED cloud

\* fetch_fn raises.
RefreshFailed(t) ==
  /\ task[t].pc = "fetching"
  /\ Finish(t)
  /\ UNCHANGED <<store, cloud>>

\* A waiter whose Event is set looks the key up with get() and returns that.
Resume(c) ==
  /\ task[c].pc = "woken"
  /\ store' = AfterGet(task[c].key)
  /\ task' = [task EXCEPT ![c] = Idle]
  /\ UNCHANGED <<inflight, cloud>>

\* wait_for in BaseTool.__call__ cancels the coroutine: a leader passes through
\* its finally clause, a waiter just leaves.
CancelCaller(c) ==
  /\ \/ task[c].pc \in {"fetching", "fetched"} /\ Finish(c)
     \/ /\ task[c].pc \in {"waiting", "woken"}
        /\ task' = [task EXCEPT ![c] = Idle]
        /\ UNCHANGED inflight
  /\ UNCHANGED <<store, cloud>>

-----------------------------------------------------------------------------
(* Everything else that reaches the cache *)

\* delete(), called by the SET tools for the keys they invalidate.
Delete(k) ==
  /\ Cached(k)
  /\ store' = Without(k)
  /\ UNCHANGED <<inflight, task, cloud>>

Clear ==
  /\ store # << >>
  /\ store' = << >>
  /\ UNCHANGED <<inflight, task, cloud>>

\* OpenStack changes, by one of its own users or by a SET tool.
CloudChanges(k) ==
  /\ cloud[k] < MaxVersion
  /\ cloud' = [cloud EXCEPT ![k] = @ + 1]
  /\ UNCHANGED <<store, inflight, task>>

Aged(e) == [e EXCEPT !.age = IF @ < MaxAge THEN @ + 1 ELSE @]

CacheTick ==
  /\ \E e \in ToSet(store) : e.age < MaxAge
  /\ store' = [i \in DOMAIN store |-> Aged(store[i])]
  /\ UNCHANGED <<inflight, task, cloud>>

-----------------------------------------------------------------------------
CallerStep(c) ==
  \/ \E k \in Keys : GetOrFetch(c, k)
  \/ Resume(c)
  \/ CancelCaller(c)

RefreshStep(t) == Answer(t) \/ Refreshed(t) \/ RefreshFailed(t)

CacheNext ==
  \/ \E c \in Callers : CallerStep(c)
  \/ \E b \in Refreshers : BeginRefresh(b)
  \/ \E t \in Tasks : RefreshStep(t)
  \/ \E k \in Keys : Delete(k) \/ CloudChanges(k)
  \/ Clear
  \/ CacheTick

CacheSpec == CacheInit /\ [][CacheNext]_cacheVars

\* The event loop runs every runnable coroutine, and a fetch ends: run_sdk
\* gives up after its retries.
CacheFairness ==
  /\ \A t \in Tasks : WF_cacheVars(RefreshStep(t))
  /\ \A b \in Refreshers : WF_cacheVars(BeginRefresh(b))
  /\ \A c \in Callers : WF_cacheVars(Resume(c))

CacheFairSpec == CacheSpec /\ CacheFairness

-----------------------------------------------------------------------------
(* Properties *)

InRefresh(t, k) == task[t].pc \in {"fetching", "fetched"} /\ task[t].key = k

\* No lost wake-up: a coroutine that waits on an Event waits for a task that is
\* still in _refresh for the same key, although that task may have lost its
\* place in _inflight to another one.
WaiterHasLeader ==
  \A c \in Callers : task[c].pc = "waiting" =>
    task[c].on \in Tasks /\ InRefresh(task[c].on, task[c].key)

\* A registered Event belongs to a task that will set it: _inflight never
\* blocks a key after its fetch has ended, failed or been cancelled.
InflightIsRunning ==
  \A k \in Keys : inflight[k] # None => InRefresh(inflight[k], k)

\* The OrderedDict holds a key at most once and never more than _max_size.
StoreIsBounded ==
  /\ Len(store) <= MaxSize
  /\ IsInjective([i \in DOMAIN store |-> store[i].key])

\* Every get_or_fetch returns: neither duplicate refreshes, nor a leader that
\* fails or is cancelled, strand the coroutines that wait for it.
EveryCallReturns == \A c \in Callers : task[c].pc # "idle" ~> task[c].pc = "idle"

=============================================================================
