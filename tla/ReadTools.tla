------------------------------- MODULE ReadTools -------------------------------
(***************************************************************************)
(* The GET tools and the warm-up on the AsyncTTLCache, with what is between*)
(* two of its keys: _fetch_all_instances, the fetch function of one, first *)
(* waits for a connection and then for _fetch_projects, a read of another, *)
(* before it lists the instances.  A coroutine is then twice in the cache. *)
(*                                                                         *)
(* The call inside is a caller of the cache of its own, its frame.  It runs*)
(* while its task is "fetching", and they fail and are cancelled together, *)
(* in one step: nothing suspends between the two finally clauses.          *)
(*                                                                         *)
(* The tools' filters and sums do not suspend and are left out.  No fetch  *)
(* function of theirs returns None.  What a SET tool deletes from the cache*)
(* is never one of the two keys, and nobody calls clear().                 *)
(***************************************************************************)
EXTENDS AsyncTTLCache

CONSTANTS
  ListKey,       \* compute:_fetch_all_instances
  ProjectsKey,   \* identity:_fetch_projects, which is not the key of get_projects
  Frame,         \* the frame of each task that may run _fetch_all_instances
  WarmProjects,  \* the two coroutines that warm_cache() gathers
  WarmInstances

Frames == Range(Frame)
Warmers == {WarmProjects, WarmInstances}
Tools == Callers \ (Frames \cup Warmers)
Fetchers == DOMAIN Frame

ASSUME ReadAssumption ==
  /\ {ListKey, ProjectsKey} \subseteq Keys /\ ListKey # ProjectsKey
  /\ Fetchers = Tools \cup Refreshers \cup {WarmInstances}
  /\ IsInjective(Frame) /\ Frames \subseteq Callers /\ Callers \cap Refreshers = {}
  /\ Warmers \subseteq Callers \ Frames /\ WarmProjects # WarmInstances

VARIABLES
  named,         \* tasks in _fetch_all_instances that have the project list
  warming,       \* warmers that have not begun
  failed,        \* tools whose last call ended with an error other than a timeout
  blamed         \* history: woken callers of which it is known why there may be
                 \* nothing for them

readVars == <<cacheVars, named, warming, failed, blamed>>

ReadTypeOK ==
  /\ CacheTypeOK
  /\ named \subseteq Fetchers
  /\ warming \subseteq Warmers
  /\ failed \subseteq Tools
  /\ blamed \subseteq {u \in Callers : task[u].pc = "woken"}

ReadInit ==
  /\ CacheInit
  /\ named = {}
  /\ warming = Warmers
  /\ failed = {}
  /\ blamed = {}

-----------------------------------------------------------------------------
(* History *)

Live(entries, k) == \E i \in DOMAIN entries : entries[i].key = k /\ entries[i].age <= KeyTtl[k]

WaitersOf(T) == {u \in Callers : task[u].pc = "waiting" /\ task[u].on \in T}

\* A waiter may find nothing because its leader, one of T, has failed or was
\* cancelled, or because the entry has since been evicted or has expired.
Blame(T) ==
  blamed' = {u \in Callers :
    /\ task'[u].pc = "woken"
    /\ \/ u \in blamed \cup WaitersOf(T)
       \/ task[u].pc = "woken" /\ Live(store, task[u].key) /\ ~Live(store', task[u].key)}

-----------------------------------------------------------------------------
(* Calls *)

\* get_instances reads the list; get_projects, get_hypervisors and
\* get_instance_detail each read a key whose fetch is a plain request.
ToolReads(c, k) ==
  /\ k # ProjectsKey
  /\ GetOrFetch(c, k)
  /\ failed' = failed \ {c}
  /\ Blame({})
  /\ UNCHANGED <<named, warming>>

\* The sleep of warm_cache() is over, and the one task or the other begins.
WarmUp(w) ==
  /\ w \in warming
  /\ GetOrFetch(w, IF w = WarmProjects THEN ProjectsKey ELSE ListKey)
  /\ warming' = warming \ {w}
  /\ Blame({})
  /\ UNCHANGED <<named, failed>>

InFrame(t) == t \in Fetchers /\ task[Frame[t]].pc # "idle"

\* The tasks of one coroutine, when t is the one of them that runs.
Chain(t) == {t} \cup {o \in Fetchers : Frame[o] = t}

\* In get_admin_connection, or in list_sdk.
InRequest(t) == task[t].pc = "fetching" /\ ~InFrame(t)

BeforeProjects(t) == InRequest(t) /\ task[t].key = ListKey /\ t \notin named

\* Mutation: the names are asked for under the key of the list itself.
AskProjectsOwnKey(t) ==
  /\ BeforeProjects(t)
  /\ GetOrFetch(Frame[t], ListKey)
  /\ named' = IF task'[Frame[t]].pc = "idle" THEN named \cup {t} ELSE named
  /\ Blame({})
  /\ UNCHANGED <<warming, failed>>

\* The connection is there: await _fetch_projects().
AskProjects(t) ==
  /\ BeforeProjects(t)
  /\ GetOrFetch(Frame[t], ProjectsKey)
  /\ named' = IF task'[Frame[t]].pc = "idle" THEN named \cup {t} ELSE named
  /\ Blame({})
  /\ UNCHANGED <<warming, failed>>

-----------------------------------------------------------------------------
(* Ends *)

\* Mutation: the Event is set as soon as OpenStack has answered.
RequestOkWakesEarly(t) ==
  /\ InRequest(t) /\ ~BeforeProjects(t)
  /\ task' = [u \in Tasks |->
       IF u = t THEN [task[t] EXCEPT !.pc = "fetched", !.val = cloud[task[t].key]]
       ELSE IF WaitsFor(u, t) THEN [task[u] EXCEPT !.pc = "woken", !.on = None]
       ELSE task[u]]
  /\ Blame({})
  /\ UNCHANGED <<store, inflight, cloud, named, warming, failed>>

RequestOk(t) ==
  /\ InRequest(t) /\ ~BeforeProjects(t)
  /\ Answer(t) /\ task'[t].val # None
  /\ Blame({})
  /\ UNCHANGED <<named, warming, failed>>

\* The answer is stored; inside _fetch_all_instances the outer fetch goes on.
Completes(t) ==
  /\ Refreshed(t)
  /\ named' = (named \ {t}) \cup (Chain(t) \ {t})
  /\ Blame({})
  /\ UNCHANGED <<warming, failed>>

\* The tasks of T are left by an exception; those in _refresh pass through its
\* finally clause.
Unwind(T) ==
  LET leaders == {u \in T : task[u].pc \in {"fetching", "fetched"}}
  IN  /\ inflight' = [k \in Keys |->
            IF \E u \in leaders : task[u].key = k THEN None ELSE inflight[k]]
      /\ task' = [u \in Tasks |->
            IF u \in T THEN Idle
            ELSE IF u \in WaitersOf(leaders) THEN [task[u] EXCEPT !.pc = "woken", !.on = None]
            ELSE task[u]]
      /\ named' = named \ T
      /\ Blame(leaders)
      /\ UNCHANGED <<cloud, warming>>

\* get_admin_connection or list_sdk raises.
RequestFails(t) ==
  /\ InRequest(t)
  /\ UNCHANGED store
  /\ Unwind(Chain(t))
  /\ failed' = failed \cup (Chain(t) \cap Tools)

\* A waiter gets what get() finds.  It may be None: that is no list, and the
\* TypeError that follows fails the call, and the fetch around it.  Only a
\* warmer takes None for a success.
Resumes(u) ==
  /\ task[u].pc = "woken"
  /\ store' = AfterGet(task[u].key)
  /\ IF Live(store, task[u].key)
     THEN /\ task' = [task EXCEPT ![u] = Idle]
          /\ named' = named \cup (Chain(u) \ {u})
          /\ Blame({})
          /\ UNCHANGED <<inflight, cloud, warming, failed>>
     ELSE /\ Unwind(Chain(u))
          /\ failed' = failed \cup (Chain(u) \cap Tools)

\* wait_for of the tool runs out, wherever the coroutine is.
CancelRead(c) ==
  /\ task[c].pc # "idle"
  /\ UNCHANGED <<store, failed>>
  /\ Unwind({c} \cup IF InFrame(c) THEN {Frame[c]} ELSE {})

BackgroundBegins(b) ==
  /\ BeginRefresh(b)
  /\ Blame({})
  /\ UNCHANGED <<named, warming, failed>>

ReadTick ==
  /\ CacheTick
  /\ Blame({})
  /\ UNCHANGED <<named, warming, failed>>

-----------------------------------------------------------------------------
TaskGoesOn(t) == RequestOk(t) \/ RequestFails(t) \/ Completes(t)

ReadNext ==
  \/ \E c \in Tools : (\E k \in Keys : ToolReads(c, k)) \/ CancelRead(c)
  \/ \E w \in Warmers : WarmUp(w)
  \/ \E t \in Fetchers : AskProjects(t)
  \/ \E t \in Tasks : TaskGoesOn(t)
  \/ \E u \in Callers : Resumes(u)
  \/ \E b \in Refreshers : BackgroundBegins(b)
  \/ ReadTick

ReadSpec == ReadInit /\ [][ReadNext]_readVars

\* The event loop runs what is runnable, and requests end: get_connection and
\* run_sdk give up after their attempts.
ReadFairness ==
  /\ \A t \in Fetchers : WF_readVars(AskProjects(t) \/ TaskGoesOn(t))
  /\ \A t \in Tasks \ Fetchers : WF_readVars(TaskGoesOn(t))
  /\ \A u \in Callers : WF_readVars(Resumes(u))
  /\ \A b \in Refreshers : WF_readVars(BackgroundBegins(b))

ReadFairSpec == ReadSpec /\ ReadFairness

-----------------------------------------------------------------------------
(* Properties *)

\* Whom a task needs before it can go on: the leader whose Event it awaits, or
\* the call inside its own fetch.
Needs(t) ==
  IF task[t].pc = "waiting" THEN {task[t].on}
  ELSE IF InFrame(t) THEN {Frame[t]} ELSE {}

\* One fetch waits inside another one's key, and others wait for either, but no
\* tasks ever wait for each other in a circle, also after failures, cancellations
\* and refreshes that ran twice.
NoWaitCycle ==
  ~\E T \in SUBSET {t \in Tasks : Needs(t) # {}} :
     T # {} /\ \A t \in T : Needs(t) \subseteq T

\* Every tool call, warm-up and background refresh ends, although one fetch
\* waits inside another one's key, and any of them may fail or be cancelled
\* there: the two keys never wait for each other.
EveryReadReturns ==
  \A t \in Fetchers \cup Warmers : []<>(task[t].pc = "idle")

\* A tool that waited for somebody else's fetch fails only for a cause: that
\* fetch failed or was cancelled, or its result has left the cache since.  This
\* holds also where what was waited for is needed by the tool's own fetch.
FailuresHaveACause ==
  [][\A c \in failed' \ failed :
       LET u == IF InFrame(c) THEN Frame[c] ELSE c
       IN  task[u].pc = "woken" => u \in blamed]_readVars
=============================================================================
