# A TLA+ model of Openstack_MCP

Openstack_MCP lets an LLM operate an OpenStack cloud.  An MCP server (`src/mcp_server`) offers tools that read
from OpenStack through a cache or write to it behind confirmations; a proxy (`src/mcp_proxy`) stands in front of
one or more of these servers; `src/core` holds what the tools share.  Everything runs in one asyncio event loop
per process, with the synchronous OpenStack SDK in threads.

This directory holds TLA+ modules that model its concurrent parts, configurations that check them with TLC, and
proofs of the central invariants with TLAPS.  `PROJECT.json` maps every definition to the lines it models.

## 1. Inventory

Two facts of asyncio decide what can interleave.  A coroutine gives way only at an `await` that really suspends,
and most `async with lock` bodies of this code do not: their lock is then always free and the body is one step.
And `wait_for` around a tool cancels the coroutine, not the thread it waits for.

| component | state it keeps | operations | hard behaviour | what makes it correct |
|---|---|---|---|---|
| Circuit breaker, `core/circuit_breaker.py` | `_state`, `_failures`, `_opened_at`, `_half_trials` | `call`, `_on_success`, `_on_failure`, `_maybe_transition` | a result is recorded in another state than its call was admitted in; cancelled trials; time | opens after `threshold` failures in a row and no other way, is decided by a trial, recovers |
| Connection pool, `core/openstack_client.py` | `_pool`, `_lock` | `get_connection`, `close_all` (no caller) | the lock *is* held across an await (the Keystone connect) | one connect per key; the lock is always handed on |
| SDK retry loops, `core/openstack_client.py` | loop counters in coroutines | `run_sdk`, `list_sdk` | backoffs during which others open the breaker; a generator that is retried | requests end; no attempt past an open breaker; the breaker closes after an outage |
| TTL cache, `core/cache.py` | `_store` (an `OrderedDict`), `_inflight` | `get_or_fetch`, `_refresh`, `get`, `get_stale`, `set`, `delete`, `clear` | stale-while-revalidate, stampede protection, leaders that fail or are cancelled, late answers, LRU | no lost wake-up, no blocked key, bounded; fetches of a key overlap, and an older value replaces a newer one, only through a late background refresh |
| Read tools and warm-up, `get_instances.py`, `get_projects.py`, `get_hypervisors.py`, `warmup.py` | none of their own | cached reads; `warm_cache` at the start | one fetch waits for another key of the same cache; a waiter whose leader failed gets `None` | every read returns; the two keys never wait for each other; a failure has a cause |
| Tools, `mcp_server/tools` | none of their own | `BaseTool.__call__`, GET and SET tools | timeouts of calls whose write is still accepted; invalidation racing a fetch | audit says what happened; gates hold; who was told of a write reads its effects |
| Audit log, `core/audit.py` | `_records` | `record`, `update_result` | calls that never come to their update | pending means running; settled is final |
| Feedback bus and SSE, `core/feedback.py`, `mcp_server/server.py` | `_events`, `_subscribers`, queues | `emit`, `get_recent`, `subscribe`, `unsubscribe`, `clear`, `GET /feedback` | slow streams, streams that die before they start | no silent gaps; queues bounded and forgotten |
| Upstream router, `mcp_proxy/router.py` | per server `healthy`; the round-robin cycle | `pick`, `_check`, `_health_loop` | picks between the checks of a round; verdicts that are old | prefers healthy servers, passes nobody over, notices recovery |
| Rate limiter, `mcp_proxy/middleware.py` | `tokens`, `_last` per client | `consume` | lazy refill | the burst bound |
| MCP proxy, `mcp_proxy/proxy.py` | one `httpx.AsyncClient`; sessions live in the upstreams | `POST/GET/DELETE /mcp`, `_fetch_json` | stateful sessions behind a stateless choice; limited connections without a timeout; clients that leave | a session stays where it is; no way out of a request loses its connection; a client that left is forgotten |
| Registry, metrics, settings, transports | memo, counters | | none of their own | not modelled, see section 7 |

The parts call each other as follows.  A tool call goes through `BaseTool.__call__` (audit record, timeout,
feedback event), a GET tool then through `@cached` into `get_or_fetch`, whose fetch function takes a connection
from the pool and calls `list_sdk` or `run_sdk`, which go through the breaker into a thread.  SET tools skip the
cache on the way in and invalidate it after the write.  Shared state is therefore the cache, the breakers, the
pool, the audit log and the bus; callbacks are the Events of `_inflight`, the subscriber queues and the
background tasks of `create_task`.  In front of all this the proxy takes a token of the rate limiter, picks an
upstream, and tunnels the request through a connection of its HTTP client.

`PROJECT.json` lists the hazards of this code, each at its line, with the
properties that watch over it.

## 2. Modules

| module | models | uses |
|---|---|---|
| `BreakerContract` | what the comment of `circuit_breaker.py` promises: no callers, lock or clock | |
| `CircuitBreaker` | one breaker and the coroutines inside `call` | refines `BreakerContract` |
| `ConnectionPool` | `get_connection`, its fair lock, the keystone breaker | `BreakerContract`, in place of a second breaker |
| `OpenStackClient` | a request: connection, `run_sdk` or `list_sdk`, breaker | `CircuitBreaker`, `ConnectionPool` |
| `CachedRegister` | what the cache promises of a key: no Events, waiters, ages or order of entries | |
| `AsyncTTLCache` | the cache and its coroutines | |
| `CacheOverlap` | the cache with a record of which fetches overlap | `AsyncTTLCache`; refines `CachedRegister` |
| `ReadTools` | the read tools, their nested fetch, the warm-up | `AsyncTTLCache` |
| `AuditContract` | what the audit log promises of a SET tool: no coroutines, cache or timeouts | |
| `InstanceTools` | GET and SET tools, audit log | `AsyncTTLCache`; refines `AuditContract` |
| `EventLog` | what the bus promises its streams: one log, read by cursors | |
| `FeedbackBus` | ring buffer, fan-out, SSE responses | refines `EventLog` |
| `UpstreamRouter` | round robin, health checks | |
| `EagerBucket` | a bucket that is filled in every tick | |
| `TokenBucket` | rate limiter, filled when it is used | refines `EagerBucket` |
| `McpProxy` | the `/mcp` endpoint: rate limit, choice, session | `UpstreamRouter`, `TokenBucket` |
| `ProxyTunnel` | the life of a request on the proxy's HTTP client | |
| `X_proofs`, for `X` one of `CircuitBreaker`, `OpenStackClient`, `AsyncTTLCache`, `ReadTools`, `InstanceTools`, `FeedbackBus`, `McpProxy`, `ProxyTunnel` | theorems | `X` and TLAPS; the proofs of the modules that `X` is made of |

Modules compose by conjunction: an action of the outer module is the action of the inner one and what the caller
does in the same step.  Operators whose comment begins with "Mutation:" are plausible bugs of the operator after
them; no specification uses them.  They show that a property can be broken by a change of the code.

### How they correspond to the code

* **CircuitBreaker.**  `Admit`, `ShortCircuit`: `call` up to the await of `fn`, with `_maybe_transition`.
  `Succeed`, `Fail`: from the result to the end.  `Cancel`: `CancelledError` is no `Exception`, so neither handler
  runs.  Time is the age of the last opening, stopped at `Timeout`; `_failures` is counted up to `Threshold`,
  since it is compared with nothing else.  `streak` is a history variable.
* **ConnectionPool.**  `lock` is the holder followed by the waiters of `asyncio.Lock`, which is fair.  The keystone
  breaker appears as an instance of `BreakerContract`: an outcome of a connect is `Success` or `Failure`, and it
  may cool down at any time.  That is sound because `CircuitBreaker` implements the contract (checked and proved).
* **OpenStackClient.**  `Begin` runs up to the first real suspension: the wait for the lock, the connect, or the
  thread of `run_sdk`.  `GetLock`, `ConnectOk`, `ConnectFails`, `Retry`, `AttemptOk`, `AttemptFails` start where it
  was suspended and run up to the next.  A request is of a kind: something that exists, something that does not
  (OpenStack answers 404), or a listing, whose attempts share one generator (`spent` once it has raised).
* **AsyncTTLCache.**  `task[t].pc` says where a coroutine is in `get_or_fetch` and `_refresh`; `Refreshers` are the
  background tasks of `create_task`, which are "scheduled" before they run.  `store` is the `OrderedDict` as a
  sequence; values are versions of what OpenStack holds (`cloud`), so that one can say which is older.
* **CacheOverlap.**  The history variable `overlap` holds the keys of which a background refresh began in spite of
  another fetch, as long as anybody fetches them.  `CachedRegister` is refined by `Held`, the value stored for a key,
  `Asked` and `Answered`, what a task fetches and has been answered, and `overlap`.
* **ReadTools.**  `_fetch_all_instances` waits for `_fetch_projects` in the same cache, so one coroutine is in
  `get_or_fetch` twice.  The call inside is a caller of its own, the `Frame` of its task.  `AskProjects` begins it
  once the connection is there, `named` says that it has returned.  An exception or a cancellation leaves both calls
  in one step, as the two `finally` clauses run without a suspension between them (`Unwind`).  The warm-up is two
  more callers that read once.  What a woken caller finds, perhaps `None`, decides how it goes on (`Resumes`);
  `blamed` is a history variable.
* **InstanceTools.**  `call` is where `__call__` is; `attempts` counts the attempts of `run_sdk` to write, of which
  `accepted` are those that OpenStack has said yes to.  That is no more than the code knows ("deletion requested",
  "action dispatched"): what a write changes, and when, is `CloudChanges`, like the doings of other users, and may
  come at any time.  A thread goes on when nobody waits any more, and an attempt whose answer was lost is made again,
  so a write may be accepted late, and twice.  `Timeout` is `wait_for` running out, `Abandon` the cancellation of
  `__call__` itself.  `Inputs` are what the gates look at: the two flags of the delete tool; for an action its kind
  (in `DESTRUCTIVE`, another valid one, unknown) and `confirm`.  A request that reads is one step here, with every
  outcome that `OpenStackClient` allows.  `floor` is history.  `AuditContract` sees the inputs and the result field
  of each record (`InputsOf`, `Said`) and the attempts, and says on its own, in the words of the schemas, which inputs
  allow an attempt.
* **FeedbackBus.**  `Emit` is one step, its lock bodies do not suspend.  `stream` is the life of a `GET /feedback`
  response: accepted (subscribed, generator not started), streaming, closing, or orphan, which is a response that
  was dropped before its generator started and so never runs its `finally`.  In the terms of `EventLog` the queue of
  a stream is what lies between the reader's cursor and its `End`; a stream that closes is one that leaves.
* **UpstreamRouter, TokenBucket, McpProxy.**  `Pick` is `pick` with the cycle's position; `BeginRound` and `Checked`
  are the health loop and its concurrent checks; `ahead` and `excess` are history.  `Open`, `Call` and `Close` are
  the requests of a session.  The code's tokens are floats; here they are counted in the part of one that makes
  `Rate` whole, so a request takes `Cost` of them and may be refused although some have come in since.  The `Level`
  of a bucket is what it would hold if it were brought up to date now.
* **ProxyTunnel.**  `pc` is where a request's coroutine is: reading the body, waiting for a connection, with one and
  waiting for the answer, returned as a `StreamingResponse`, or streaming.  The connection pool of httpx is
  external: a limit, and a queue served in order; `busy` counts the connections that are out.  So is Starlette's
  handling of a client that has gone: a response whose generator runs is cancelled (and its `finally` closes the
  upstream's response), one that has not started may be dropped, and then nobody closes it (`dropped` counts these).

## 3. What is checked

Runs that pass:

| run | instance | shows |
|---|---|---|
| `breaker` | 3 coroutines, threshold 2, timeout 2 | types; CLOSED exactly below the threshold; the breaker refines its contract, which opens it only after failures in a row; it recovers |
| `reads` | a tool, the warm-up, 1 background task, 3 keys, room for 1 entry | a waiter always has a running leader; a registered Event always belongs to a running fetch; no tasks wait for each other in a circle; a failure has a cause; every read returns |
| `cache` | 2 keys, room for 1, 2 callers, 1 background task, `stale_ttl = 5 * ttl` as in `get_cache()` | two fetches of a key overlap only through a refresh that began late; a value goes back to an older one only while they do; bounded, no duplicate keys; the cache refines a register per key |
| `client` | 2 requests, threshold 3, 2 retries, keystone threshold 2 | the pool connects once, and its lock is handed on; every request ends; no attempt while open; the breaker closes for good once OpenStack is healthy |
| `tools` | 1 client, 1 background task, 1 instance and the list with room for one, 1 write with 2 attempts, 7 inputs that take every way through the gates | the audit log agrees with the running calls and is final; it refines its contract, by which only what the flags allow is attempted, and nothing after the answer; a cached detail is not older than the last reported write |
| `feedback` | 2 streams, ring 3, queues 2, 6 events | no gap in a stream; the bus refines one log with a cursor per stream; an unread queue is forgotten; `get_recent` is right |
| `proxy` | 3 upstreams, 1 client, a bucket of 3 of which a request takes 2 | the burst bound; the lazy bucket refines one filled in every tick; healthy servers first; nobody passed over; recovery noticed |
| `tunnel` | 2 posts, 2 event streams, 1 feedback call, 2 connections | every connection that is out belongs to a request that will close it, but for one per response dropped before its start; the queue loses nobody; a client that left is forgotten |

Runs that find a disagreement between the code and what its comments say (details under `findings`):

| run | disagreement |
|---|---|
| `breaker_half_open` | `half_open_max` is stored and never compared: HALF admits any number of trials |
| `client_list_complete` | a listing whose first attempt fails is retried over an exhausted generator and succeeds with an empty list |
| `tools_list_stale` | the pattern "get_instances" is not in the key of the cached list, so a delete leaves the list cached |
| `proxy_session` | round robin sends the second request of a session to another upstream |

Nine more disagreements are listed under `findings` without a run, since a step of a model, or the code, shows
them directly: the fallback of `pick`, the per-key ttl that `get_stale` ignores, 404 answers that are retried, an
audit record that is changed in place, the feedback of the proxy that asks only healthy upstreams, `get_projects`,
whose cache key is not the one that the warm-up and the instance list use, `get_recent(0)`, which returns everything,
`suspend`, which needs a confirmation that the schema does not mention, and "one fetch per key", which a stale hit
followed by a miss breaks.  `OnlyRefreshesOverlap`, `GoesBackOnlyInOverlap` and `KeepsRegister` say what is left of
the last claim.  A reader may want to see the overlap: check `overlap = {}` as an invariant of the run `cache`.

`GoneClientsAreForgotten` has a premise, and the model shows why: each response that is dropped before it starts
takes a connection for good.  Without `<>[](dropped < Limit)` TLC finds a behaviour in which every connection is
lost, and every tunnel waits for ever, as nothing bounds its wait (`timeout=None`).  The premise also asks that
upstreams answer and end the streams of clients that stay; nothing in the proxy can make them.

### External behaviour that is assumed

The connections of httpx and their queue, Starlette's treatment of a client that has gone, the fair `asyncio.Lock`,
and OpenStack are modelled as the code uses them, and no property is about them alone.  The end of a request that
reads is an assumption where only the SDK's own timeouts bound it: the warm-up and the background refreshes of
`EveryReadReturns` are not under `wait_for`, which covers the tools.  `timeout=5.0` of a health check or of
`_fetch_json` bounds each wait, not the whole answer; `RecoveryIsNoticed` assumes that a check ends, and nothing is
assumed of `_fetch_json`.

### Bounds, and why they are enough

* *Coroutines.*  Three for the breaker: a late call of an earlier period, a trial, and a newcomer.  For the reads a
  tool, the two warmers and a background task: one may lead the list, another the projects it needs, and a third
  wait for either.  For the cache two callers and a background task: a fetch, a miss beside it, and a late refresh.
  For the tools one client and a background refresh, which races its write; calls side by side, with a record each,
  are left to the proofs, which bound nothing.  Two requests for the client; in the code, too, one request alone
  cannot open the breaker (3 retries, threshold 5), and two can.
* *Thresholds and times* are the smallest that keep every comparison of the code both true and false.  Ages stop
  where no comparison tells them apart, which is no bound on behaviour.
* *`MaxVersion`, `MaxWrites`, `MaxEvents`* cut behaviours.  One change of the cloud is enough for an answer to be
  older than another, and two attempts of one write for it to be accepted twice.  Six events fill ring and queue and
  go once past them.
* *`Given`* are seven of the ten inputs.  Each gate is passed and refused by one of them; the other three differ in a
  flag that is not looked at on their way.
* *Cache size* is below the number of keys, so that something is always evicted.  `reads` has 160,638 states; with
  room for two entries it has 387,565, was checked once, and the same properties held, as did its safety properties
  with two tools.  The per-key ttl is shorter
  than the default one, as in every `@cached` of the tools.
* *Connections.*  Two for four tunnels and a feedback call: event streams can hold both, both can be lost, and
  several requests wait, of which the feedback call gives up in the middle of the queue.  httpx allows 100.
* *Symmetry* is used for streams and callers only in runs without liveness.

### Fairness, and what justifies it

* `BreakerTick`, `ClientTick`: time passes.  `HealthStep`: the loop never ends, and a check is assumed to end.
* `Succeed \/ Fail \/ Cancel` and `ThreadEnds \/ CancelRequest` are weakly fair: `wait_for` bounds every tool call.
  So `RequestEnds` alone would hold of a lock that is never handed on, as cancellation ends the waiters:
  `LockIsHandedOn` is what excludes that.
* `ConnectOk` and `AttemptOk` are strongly fair in `ClientFairSpec`: an OpenStack that is up does not let every
  request run into a timeout.  `GetLock` is strongly fair: a coroutine that has been woken runs in the next turn
  of the event loop.  Without that TLC finds a convoy in which each waiter is cancelled just before it runs.
* `TaskGoesOn`, `AskProjects`, `Resumes`, `BackgroundBegins` of `ReadTools`: the event loop runs what is runnable,
  and requests end, as `get_connection` and `run_sdk` give up after their attempts.  `RequestEnds` of the run
  `client` shows the latter.
* `Responds`, `StreamCancelled`, `BodyFails` of `ProxyTunnel`: what the proxy does on its own.  Nothing is assumed of
  clients, nor of upstreams that they answer or end what they send; feedback calls need not end either.
* `Admit` and `Begin`: there is traffic.  Nothing else makes an open breaker look at its clock.

## 4. What is proved

For every value of the constants, under the assumptions named in the modules, none of which asks for more than the
code gives.  `BreakerAssumption`, `PoolAssumption`, `ClientAssumption`, `FeedbackAssumption`, `RouterAssumption` and
`ToolsAssumption` say that thresholds, sizes and counts are positive (or natural) numbers.  `CacheAssumption` keeps
ages within `MaxAge` and `None` apart from the rest; `BucketAssumption` asks the same of rate, capacity and cost,
and says that elapsed times are counted far enough to fill a bucket; `ReadAssumption` that every task that may fetch
the list has a frame of its own; `TunnelAssumption` that requests are finitely many and of one kind each.

No theorem has a hypothesis of its own.

* **CircuitBreaker_proofs.**  `BreakerInv` is the type invariant with `ClosedIffBelowThreshold` and `CountsARow`.
  The latter two need each other: a late success resets the count while HALF and must not leave a breaker
  CLOSED with failures counted, and a failure that completes a run must find the count equal to the run.  From it:
  `BreakerTypeCorrect`, `ClosedIffBelow`, `FailuresInARow`, and `BreakerImplementsContract`, where every action is
  mapped to `Success`, `Failure`, `CoolDown` or a stutter of the contract.
* **AsyncTTLCache_proofs.**  `CoordInv` joins types, `WaiterHasLeader` and `InflightIsRunning`.  A coroutine starts
  to wait for whatever task `_inflight` names, so the first needs the second; and `Finish` wakes by the task it was
  led by, so the first survives a task that loses its place in `_inflight`.  `StoreInv` says that the entries are
  distinct and bounded.  From them: `CacheTypeCorrect`, `NoLostWakeUp`, `InflightEnds`, `StoreStaysBounded`.  With
  stale-while-revalidate as it is, `OneFetch` says that a key outside `overlap` is fetched by the task registered for
  it and by no other, which gives `FetchesOverlapByRefresh`; `Ordered` says of such a key that neither the entry nor an
  answer on its way is newer than the cloud, or the entry than the answer, which gives `GoesBackByRefresh`.
  `CacheIsRegister` maps every step to the register: what an eviction gives up is one other key, because the store
  outgrows its bound by one entry at most, and none if the key was there before.
* **ReadTools_proofs.**  `ReadInv` keeps `CoordInv` and `StoreInv` through `Unwind`, the one step the cache alone
  does not know.  `FrameInv` says where a call inside can be, and `BlameInv` that a woken caller finds its key
  unless it is known why not.  From them: `ReadTypeCorrect`, `FramesStayNested`, `NestedReadsWake`,
  `NestedReadsUnblock` (the two properties of the cache, now for nested reads) and `FailuresAreCaused`.
  `NobodyWaitsInACircle` follows the edges of a supposed circle: `OnlyCallersWait` (a background task never waits
  for an Event) and `FrameInv` put the tasks into an order, from those that wait for a leader of the list, to such
  leaders, to the calls inside them, to the leaders of the projects, and each needs one that comes later.
* **InstanceTools_proofs.**  `AuditInv` adds to the properties of the audit log what none of them says: no two
  running calls share a record, attempts belong to one whose inputs allow them, and a call that still verifies has
  made none.  From it: `PendingIsRunning`, `AuditStaysFinal`, and `ToolsKeepAuditContract`, where each action is at
  most one step of the contract: what is attempted again belongs to a call that is not answered yet, and what is
  accepted late to an attempt made in time.  `DetailInv` says of every cached detail, and of every answer still on its
  way, that it is not below `floor`: an answer is taken from the cloud, which only grows, and a report that finds an
  answer on its way raises nothing.  It gives `DetailsStayAboveReports`.
* **OpenStackClient_proofs.**  Every action of a request is brought to one shape, what it does to the breaker
  (`StepOf`) and to the pool (`PoolMove`).  `ConnectsOnce` rests on the queue of the lock: whoever connects is at
  its head, nobody is in it twice, and it holds those that wait and nobody else (`QueueOK`, `InLine`).  From them:
  `ClientTypeCorrect`, `OneConnect`, `LockGoesOn`, `OpenMeansNoAttempt`.  `ClientUsesBreaker` proves that
  `ClientSpec` implements `BreakerSpec`, and with `BreakerImplementsContract` it follows that the breaker keeps its
  contract under the client (`ClientKeepsContract`).  The run `client_list_complete` finds a listing that lost its entries; `OnlyRetriesLose`
  says that this is the only way to lose them, since a generator is spent only by an attempt before the current one
  (`SpentOK`).
* **McpProxy_proofs.**  `BurstBounded` needs `Headroom`: what was admitted in excess and what may still be admitted
  at once fit into the capacity together.  `LazyIsEager` needs no more than the types: a tick adds the rate to what
  every bucket would hold, also where ages have stopped counting.  `HealthyFirst` and `NobodyPassedOver` come from
  the distance that the cycle is from each server: a server that is skipped comes nearer, and one that waits comes
  before any that was picked.
* **ProxyTunnel_proofs.**  `OnlyDropsLeak` counts: a connection that is handed over leaves one holder and finds
  another, which must be somebody who waits and holds none yet, so it needs to know that the queue holds every
  waiting request once.  With it: `TunnelTypeCorrect`, `NothingElseLeaks`.
* **FeedbackBus_proofs.**  `BusInv` says that the ring and every queue are runs of consecutive events, within their
  bounds, and where the run of a subscribed stream ends.  The bound of the queues is what `NoGaps` does not say and
  `UnreadIsForgotten` needs.  From it: `FeedbackTypeCorrect`, `StreamsHaveNoGaps`, `LeaksAreBounded`,
  `RecentIsCorrect`, and `BusIsLog`: with queues that are runs of events, a full queue is a reader that lags by as
  much.

Only model-checked: liveness (`Recovers`, `EveryReadReturns`, `RequestEnds`, `ClosesWhenHealthy`,
`RecoveryIsNoticed`, `GoneClientsAreForgotten`), which is out of the reach
of the prover.  Every safety property of a passing run is also proved.  `FailuresInARow` and `FramesStayNested` are
about definitions of the proof modules: the contract and the circle say it to TLC.  `OnlyRetriesLose` is about the
action that the run `client_list_complete` finds.

## 5. Plan

Written in the order of importance: breaker and contract, cache, client, tools, bus, proxy, pool, then the nested
reads and the tunnel.  What is left:

1. The partial result that `_fetch_hypervisors` caches when one of its listings fails.
2. The other strategies of `pick`, the request statistics, and `close_all`, once something selects or calls them.
3. `ReadTools` over `OpenStackClient`, instead of requests that are one step; the instances are too large for TLC
   today, so this would be a refinement by proof.

## 6. Running

`tlc -config X.cfg M` with the module and configuration named in `PROJECT.json`; `tlapm X_proofs.tla`.  All runs
end within two minutes, the proofs of a module within a few.

## 7. Not modelled, and why

* **Registry** (`registry.py`): a memo of imported classes, used without suspending.
* **Filters, sums and formatting** of the read tools, and `get_feedback.py`, which reads the bus without suspending.
* **The merge of feedback answers** in the proxy, `/status` and `/health`: they read what the upstreams say.
* **The partial result of `_fetch_hypervisors`**: the code means it so and logs a warning.
* **Metrics, statistics counters, access log**: no decision reads them.
* **The growth of `_buckets`** (`middleware.py:93`): one bucket per client address is kept for ever; nothing else depends
  on it.
* **Settings**: read once; the values are CONSTANTS.
* **API key check**: `create_app` leaves it without keys, which disables it.
* **`tool_affinity`, `first_healthy`, `close_all`**: never selected or called.
* **Transports, FastAPI, the MCP library**: external; what the code relies on is in `McpProxy`,
  `ProxyTunnel` and `FeedbackBus`.
* **Lengths of backoffs and timeouts**: only their order with other events matters, and every order is allowed.
