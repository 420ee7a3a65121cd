---------------------------- MODULE ReadTools_proofs ----------------------------
(***************************************************************************)
(* Proofs about ReadTools, for any tools, background tasks and keys.       *)
(*                                                                         *)
(* The cache's own invariants, CoordInv and StoreInv, must survive the one *)
(* step the cache alone does not know: an exception that leaves two calls  *)
(* of a coroutine at once (Unwind).  FrameInv adds where a call inside can *)
(* be, and BlameInv that a woken caller finds its key unless it is known   *)
(* why not; from it follows that failures have a cause.                    *)
(***************************************************************************)
EXTENDS ReadTools, AsyncTTLCache_proofs

HistoryTypeOK ==
  /\ named \subseteq Fetchers
  /\ warming \subseteq Warmers
  /\ failed \subseteq Tools
  /\ blamed \subseteq {u \in Callers : task[u].pc = "woken"}

\* A call inside runs only inside: its task is registered for the list and
\* waits for the projects, also after failures and cancellations of others.
FramesAreNested ==
  \A t \in Fetchers : InFrame(t) =>
    /\ task[t].pc = "fetching" /\ task[t].key = ListKey /\ t \notin named
    /\ task[Frame[t]].key = ProjectsKey

FrameInv == HistoryTypeOK /\ FramesAreNested

\* A woken caller's value is there, unless somebody is to blame.
BlameInv ==
  \A u \in Callers : task[u].pc = "woken" /\ ~Live(store, task[u].key) => u \in blamed

ReadInv == CoordInv /\ StoreInv /\ FrameInv /\ BlameInv

\* What FailuresHaveACause says of a step.
FailsForACause ==
  \A c \in failed' \ failed :
    LET u == IF InFrame(c) THEN Frame[c] ELSE c
    IN  task[u].pc = "woken" => u \in blamed

-----------------------------------------------------------------------------
(* Who is who *)

\* Frames are callers of their own: neither tools, nor warmers, nor background
\* tasks, and none of them has a frame itself.
LEMMA Actors ==
  /\ Callers \subseteq Tasks /\ Refreshers \subseteq Tasks
  /\ Tools \subseteq Callers /\ Warmers \subseteq Callers /\ Frames \subseteq Callers
  /\ Fetchers \subseteq Tasks
  /\ \A t \in Fetchers : Frame[t] \in Frames /\ Frame[t] \notin Fetchers
  /\ \A t, o \in Fetchers : Frame[t] = Frame[o] => t = o
  /\ Tools \cap Frames = {} /\ Warmers \cap Frames = {}
  /\ Callers \cap Refreshers = {}
  /\ ListKey \in Keys /\ ProjectsKey \in Keys /\ ListKey # ProjectsKey
BY ReadAssumption DEF Tasks, Tools, Frames, Warmers, Fetchers, Range, IsInjective

\* While a call inside runs, its task is in its own fetch and is no frame.
LEMMA InFrameFacts ==
  ASSUME FrameInv, NEW t \in Fetchers, InFrame(t)
  PROVE  /\ task[t].pc = "fetching" /\ task[t].key = ListKey /\ t \notin named
         /\ task[Frame[t]].pc # "idle" /\ task[Frame[t]].key = ProjectsKey
BY DEF FrameInv, FramesAreNested, InFrame

-----------------------------------------------------------------------------
(* The steps, as the tasks see them *)

\* A read moves its caller alone, and perhaps an idle background task; both are
\* then busy with its key.
LEMMA EnterShape ==
  ASSUME CoordInv, NEW c \in Callers, NEW k \in Keys, GetOrFetch(c, k)
  PROVE  /\ task[c].pc = "idle"
         /\ \A t \in Tasks :
              \/ task'[t] = task[t]
              \/ /\ task[t].pc = "idle" /\ (t = c \/ t \in Refreshers)
                 /\ task'[t].pc \in {"scheduled", "waiting", "fetching"}
                 /\ task'[t].key = k
<1>1. task \in [Tasks -> TaskRecord] /\ Callers \subseteq Tasks /\ Refreshers \subseteq Tasks
  BY DEF CoordInv, CoordTypeOK, Tasks
<1>2. CASE HitFresh(c, k)
  BY <1>2 DEF HitFresh
<1>3. CASE HitStale(c, k)
  BY <1>1, <1>3 DEF HitStale, Idle
<1>4. CASE WaitForLeader(c, k)
  BY <1>1, <1>4 DEF WaitForLeader, Miss, Idle
<1>5. CASE Lead(c, k)
  BY <1>1, <1>5 DEF Lead, Miss, Idle
<1> QED BY <1>2, <1>3, <1>4, <1>5 DEF GetOrFetch

\* The end of a refresh: its waiters are woken, everybody else stays.
LEMMA FinishShape ==
  ASSUME CoordInv, NEW t \in Tasks, Finish(t)
  PROVE  /\ task'[t].pc = "idle"
         /\ \A u \in Tasks : u # t =>
              \/ task'[u] = task[u] /\ ~WaitsFor(u, t)
              \/ WaitsFor(u, t) /\ task'[u].pc = "woken" /\ task'[u].key = task[u].key
<1>1. task \in [Tasks -> TaskRecord]
  BY DEF CoordInv, CoordTypeOK
<1>2. task'[t].pc = "idle"
  BY DEF Finish, WaitsFor, Idle
<1>3. ASSUME NEW u \in Tasks, u # t, WaitsFor(u, t)
      PROVE  task'[u].pc = "woken" /\ task'[u].key = task[u].key
  <2>1. task'[u] = [task[u] EXCEPT !.pc = "woken", !.on = None]
    BY <1>3 DEF Finish, WaitsFor
  <2> QED BY <1>1, <2>1 DEF TaskRecord
<1>4. ASSUME NEW u \in Tasks, u # t, ~WaitsFor(u, t) PROVE task'[u] = task[u]
  BY <1>4 DEF Finish, WaitsFor
<1> QED BY <1>2, <1>3, <1>4

\* The tasks of T that are in _refresh.
Leaders(T) == {u \in T : task[u].pc \in {"fetching", "fetched"}}

\* An exception takes the tasks of T away and wakes who waits for one of them.
LEMMA UnwindShape ==
  ASSUME CoordInv, NEW T, Unwind(T)
  PROVE  /\ \A u \in Tasks : u \in T => task'[u] = Idle
         /\ \A u \in Tasks : u \notin T =>
              \/ task'[u] = task[u] /\ u \notin WaitersOf(Leaders(T))
              \/ /\ u \in WaitersOf(Leaders(T))
                 /\ task'[u] \in TaskRecord
                 /\ task'[u].pc = "woken" /\ task'[u].key = task[u].key
         /\ task' \in [Tasks -> TaskRecord]
         /\ \A k \in Keys : inflight'[k] = IF \E u \in Leaders(T) : task[u].key = k
                                           THEN None ELSE inflight[k]
         /\ inflight' \in [Keys -> Tasks \cup {None}]
         /\ Blame(Leaders(T)) /\ named' = named \ T /\ UNCHANGED <<cloud, warming>>
<1>1. /\ task \in [Tasks -> TaskRecord] /\ inflight \in [Keys -> Tasks \cup {None}]
      /\ Idle \in TaskRecord
  BY IdleType DEF CoordInv, CoordTypeOK
<1>2. PICK L : L = Leaders(T)
  OBVIOUS
<1>3. /\ inflight' = [k \in Keys |->
            IF \E u \in L : task[u].key = k THEN None ELSE inflight[k]]
      /\ task' = [u \in Tasks |->
            IF u \in T THEN Idle
            ELSE IF u \in WaitersOf(L) THEN [task[u] EXCEPT !.pc = "woken", !.on = None]
            ELSE task[u]]
      /\ named' = named \ T /\ Blame(L) /\ UNCHANGED <<cloud, warming>>
  BY <1>2 DEF Unwind, Leaders
<1>4. ASSUME NEW u \in Tasks
      PROVE  LET r == [task[u] EXCEPT !.pc = "woken", !.on = None]
             IN  r \in TaskRecord /\ r.pc = "woken" /\ r.key = task[u].key
  BY <1>1 DEF TaskRecord, PCs
<1>5. task' \in [Tasks -> TaskRecord]
  BY <1>1, <1>3, <1>4
<1>6. ASSUME NEW u \in Tasks, u \in T PROVE task'[u] = Idle
  BY <1>3, <1>6
<1>7. ASSUME NEW u \in Tasks, u \notin T
      PROVE  \/ task'[u] = task[u] /\ u \notin WaitersOf(L)
             \/ /\ u \in WaitersOf(L)
                /\ task'[u] \in TaskRecord
                /\ task'[u].pc = "woken" /\ task'[u].key = task[u].key
  BY <1>3, <1>4, <1>7
<1>8. /\ \A k \in Keys : inflight'[k] = IF \E u \in L : task[u].key = k
                                        THEN None ELSE inflight[k]
      /\ inflight' \in [Keys -> Tasks \cup {None}]
  BY <1>1, <1>3
<1> QED BY <1>2, <1>3, <1>5, <1>6, <1>7, <1>8

\* It strands no waiter and leaves no registered Event behind, however many
\* calls of the coroutine it passes through.
LEMMA UnwindInv ==
  ASSUME CoordInv, NEW T, Unwind(T)
  PROVE  CoordInv'
<1>1. /\ task \in [Tasks -> TaskRecord] /\ inflight \in [Keys -> Tasks \cup {None}]
      /\ WaiterHasLeader /\ InflightIsRunning /\ Callers \subseteq Tasks
  BY DEF CoordInv, CoordTypeOK, Tasks
<1>2. /\ \A u \in Tasks : u \in T => task'[u] = Idle
      /\ \A u \in Tasks : u \notin T =>
           \/ task'[u] = task[u] /\ u \notin WaitersOf(Leaders(T))
           \/ /\ u \in WaitersOf(Leaders(T))
              /\ task'[u].pc = "woken" /\ task'[u].key = task[u].key
      /\ task' \in [Tasks -> TaskRecord]
      /\ \A k \in Keys : inflight'[k] = IF \E u \in Leaders(T) : task[u].key = k
                                        THEN None ELSE inflight[k]
      /\ inflight' \in [Keys -> Tasks \cup {None}]
      /\ UNCHANGED cloud
  BY UnwindShape
<1>3. ASSUME NEW u \in Tasks, u \notin T, task[u].pc \in {"fetching", "fetched"}
      PROVE  task'[u] = task[u]
  BY <1>2, <1>3 DEF WaitersOf
<1>4. CoordTypeOK'
  <2>1. \A u \in Tasks : task'[u].pc # "idle" => task'[u].key \in Keys
    BY <1>2 DEF CoordInv, CoordTypeOK, Idle, WaitersOf
  <2> QED BY <1>2, <2>1 DEF CoordInv, CoordTypeOK
<1>5. WaiterHasLeader'
  <2> SUFFICES ASSUME NEW c \in Callers, task'[c].pc = "waiting"
               PROVE  /\ task'[c] = task[c] /\ task[c].on \in Tasks
                      /\ InRefresh(task[c].on, task[c].key)
                      /\ task'[task[c].on] = task[task[c].on]
    BY DEF WaiterHasLeader, InRefresh
  <2>1. task'[c] = task[c] /\ c \notin WaitersOf(Leaders(T))
    BY <1>1, <1>2 DEF Idle
  <2>2. task[c].on \in Tasks /\ InRefresh(task[c].on, task[c].key)
    BY <1>1, <2>1 DEF WaiterHasLeader
  <2>3. task[c].on \notin T
    BY <2>1, <2>2 DEF WaitersOf, Leaders, InRefresh
  <2> QED BY <1>3, <2>1, <2>2, <2>3 DEF InRefresh
<1>6. InflightIsRunning'
  <2> SUFFICES ASSUME NEW k \in Keys, inflight'[k] # None
               PROVE  /\ inflight'[k] = inflight[k] /\ InRefresh(inflight[k], k)
                      /\ task'[inflight[k]] = task[inflight[k]]
    BY DEF InflightIsRunning, InRefresh
  <2>1. inflight'[k] = inflight[k] /\ ~\E u \in Leaders(T) : task[u].key = k
    BY <1>2
  <2>2. inflight[k] \in Tasks /\ InRefresh(inflight[k], k)
    BY <1>1, <2>1 DEF InflightIsRunning
  <2>3. inflight[k] \notin T
    BY <2>1, <2>2 DEF Leaders, InRefresh
  <2> QED BY <1>3, <2>1, <2>2, <2>3 DEF InRefresh
<1> QED BY <1>4, <1>5, <1>6 DEF CoordInv

-----------------------------------------------------------------------------
(* What each step must show *)

\* Frames stay nested if every call inside that runs afterwards ran before, for
\* the same key, in a task that did not move and was not given its list.
LEMMA NestedStep ==
  ASSUME FrameInv,
         \A t \in Fetchers : InFrame(t)' =>
           /\ InFrame(t) /\ task'[t] = task[t]
           /\ task'[Frame[t]].key = task[Frame[t]].key
           /\ t \notin named' \ named
  PROVE  FramesAreNested'
BY InFrameFacts DEF FramesAreNested, InFrame

\* Blame keeps its promise if a caller that is woken now was woken before, or
\* waited for one of those who are blamed, or finds its key.
LEMMA BlameStep ==
  ASSUME BlameInv, NEW T, Blame(T),
         \A u \in Callers : task'[u].pc = "woken" =>
           \/ task[u].pc = "woken" /\ task'[u].key = task[u].key
           \/ u \in WaitersOf(T)
           \/ Live(store', task'[u].key)
  PROVE  BlameInv' /\ blamed' \subseteq {u \in Callers : task'[u].pc = "woken"}
BY DEF BlameInv, Blame

\* Nobody fails in a step that leaves `failed' alone or forgets failures.
LEMMA NoFailure == ASSUME failed' \subseteq failed PROVE FailsForACause
BY DEF FailsForACause

\* What has just been stored is there.
LEMMA StoredIsLive ==
  ASSUME StoreInv, NEW k \in Keys, NEW v \in Versions \cup {None}
  PROVE  Live(Stored(k, v), k)
<1> DEFINE w == Without(k)
           e == [key |-> k, val |-> v, age |-> 0]
           a == Append(w, e)
<1>1. /\ MaxAge \in Nat /\ MaxSize \in Nat \ {0} /\ KeyTtl[k] \in Nat
  BY CacheAssumption
<1>2. e \in EntrySet /\ e.key = k /\ e.age <= KeyTtl[k]
  BY <1>1 DEF EntrySet
<1>3. w \in Seq(EntrySet) /\ Len(w) \in Nat
  BY WithoutProperties, LenProperties DEF StoreInv
<1> HIDE DEF w, e
<1>4. /\ a \in Seq(EntrySet) /\ a # << >>
      /\ Len(a) = Len(w) + 1
      /\ a[Len(w) + 1] = e
  BY <1>2, <1>3, AppendProperties
<1>5. Stored(k, v) = IF Len(a) > MaxSize THEN Tail(a) ELSE a
  BY DEF Stored, a, w, e
<1> HIDE DEF a
<1>6. CASE Len(a) > MaxSize
  <2>1. /\ Tail(a) \in Seq(EntrySet) /\ Len(Tail(a)) = Len(a) - 1
        /\ \A i \in 1..Len(Tail(a)) : Tail(a)[i] = a[i + 1]
    BY <1>4, HeadTailProperties
  <2>2. Len(w) \in 1..Len(Tail(a))
    BY <1>1, <1>3, <1>4, <1>6, <2>1
  <2>3. Tail(a)[Len(w)] = e /\ Len(w) \in DOMAIN Tail(a)
    BY <1>4, <2>1, <2>2, LenProperties
  <2> QED BY <1>2, <1>5, <1>6, <2>3 DEF Live
<1>7. CASE ~(Len(a) > MaxSize)
  <2>1. Len(w) + 1 \in 1..Len(a)
    BY <1>3, <1>4
  <2>2. Len(w) + 1 \in DOMAIN a
    BY <1>4, <2>1, LenProperties
  <2> QED BY <1>2, <1>4, <1>5, <1>7, <2>2 DEF Live
<1> QED BY <1>6, <1>7

\* The part of ReadInv that a step of the cache itself keeps.
LEMMA CachePart ==
  ASSUME ReadInv, [CacheNext]_cacheVars
  PROVE  CoordInv' /\ StoreInv'
BY CoordNextInv, StoreNextInv DEF ReadInv

-----------------------------------------------------------------------------
(* Reads begin *)

\* A read by c, which is no frame of a running call, for key k; `named' grows
\* at most by the task whose frame c is, and only if c is idle again.
LEMMA EnterInv ==
  ASSUME ReadInv, NEW c \in Callers, NEW k \in Keys, GetOrFetch(c, k), Blame({}),
         \A t \in Fetchers : Frame[t] = c => BeforeProjects(t) /\ k = ProjectsKey,
         \/ UNCHANGED named
         \/ \E t \in Fetchers : Frame[t] = c /\
              named' = IF task'[c].pc = "idle" THEN named \cup {t} ELSE named,
         warming' \subseteq warming, failed' \subseteq failed
  PROVE  ReadInv' /\ FailsForACause
<1>1. /\ task[c].pc = "idle"
      /\ \A t \in Tasks :
           \/ task'[t] = task[t]
           \/ /\ task[t].pc = "idle" /\ (t = c \/ t \in Refreshers)
              /\ task'[t].pc \in {"scheduled", "waiting", "fetching"}
              /\ task'[t].key = k
  BY EnterShape DEF ReadInv
<1>2. CoordInv' /\ StoreInv'
  BY CachePart DEF CacheNext, CallerStep
<1>3. BlameInv' /\ blamed' \subseteq {u \in Callers : task'[u].pc = "woken"}
  BY <1>1, Actors, BlameStep DEF ReadInv
<1>4. FramesAreNested'
  <2> SUFFICES ASSUME NEW t \in Fetchers, InFrame(t)'
               PROVE  (/\ task[t].pc = "fetching" /\ task[t].key = ListKey /\ t \notin named
                       /\ task[Frame[t]].key = ProjectsKey)'
    BY DEF FramesAreNested
  <2>1. t \in Tasks /\ Frame[t] \in Callers /\ Frame[t] \in Tasks /\ Frame[t] \notin Refreshers
    BY Actors
  <2>2. CASE Frame[t] = c
    <3>1. /\ task[t].pc = "fetching" /\ task[t].key = ListKey /\ t \notin named /\ k = ProjectsKey
      BY <2>2 DEF BeforeProjects, InRequest
    <3>2. task'[t] = task[t]
      BY <1>1, <2>1, <3>1
    <3>3. task'[c].pc # "idle" /\ task'[c].key = k
      BY <1>1, <2>1, <2>2 DEF InFrame
    <3>4. t \notin named'
      BY <3>1, <3>3
    <3> QED BY <2>2, <3>1, <3>2, <3>3, <3>4
  <2>3. CASE Frame[t] # c
    <3>1. task'[Frame[t]] = task[Frame[t]] /\ InFrame(t)
      BY <1>1, <2>1, <2>3 DEF InFrame
    <3>2. /\ task[t].pc = "fetching" /\ task[t].key = ListKey /\ t \notin named
          /\ task[Frame[t]].key = ProjectsKey
      BY <3>1, InFrameFacts DEF ReadInv
    <3>3. task'[t] = task[t]
      BY <1>1, <2>1, <3>2
    <3>4. t \notin named'
      BY <2>3, <3>2, Actors
    <3> QED BY <3>1, <3>2, <3>3, <3>4
  <2> QED BY <2>2, <2>3
<1>5. HistoryTypeOK'
  BY <1>3 DEF ReadInv, FrameInv, HistoryTypeOK
<1> QED BY <1>2, <1>3, <1>4, <1>5, NoFailure DEF ReadInv, FrameInv

-----------------------------------------------------------------------------
(* Reads go on and end *)

\* OpenStack answers a request.
LEMMA RequestOkInv ==
  ASSUME ReadInv, NEW t \in Tasks, RequestOk(t)
  PROVE  ReadInv' /\ FailsForACause
<1>1. /\ Answer(t) /\ InRequest(t) /\ Blame({}) /\ UNCHANGED <<named, warming, failed>>
  BY DEF RequestOk
<1>2. CoordInv' /\ StoreInv'
  BY <1>1, CachePart DEF CacheNext, RefreshStep
<1>3. task \in [Tasks -> TaskRecord]
  BY DEF ReadInv, CoordInv, CoordTypeOK
<1>4. /\ task[t].pc = "fetching" /\ task'[t].pc = "fetched" /\ task'[t].key = task[t].key
      /\ \A u \in Tasks : u # t => task'[u] = task[u]
  BY <1>1, <1>3 DEF Answer, TaskRecord
<1>5. BlameInv' /\ blamed' \subseteq {u \in Callers : task'[u].pc = "woken"}
  BY <1>1, <1>4, Actors, BlameStep DEF ReadInv
<1>6. FramesAreNested'
  <2> SUFFICES ASSUME NEW u \in Fetchers, InFrame(u)'
               PROVE  InFrame(u) /\ task'[u] = task[u] /\ task'[Frame[u]].key = task[Frame[u]].key
    BY <1>1, NestedStep DEF ReadInv
  <2>1. u \in Tasks /\ Frame[u] \in Tasks
    BY Actors
  <2>2. InFrame(u)
    BY <1>4, <2>1 DEF InFrame
  <2>3. u # t
    BY <1>1, <2>2 DEF InRequest
  <2> QED BY <1>4, <2>1, <2>2, <2>3
<1>7. HistoryTypeOK'
  BY <1>1, <1>5 DEF ReadInv, FrameInv, HistoryTypeOK
<1> QED BY <1>1, <1>2, <1>5, <1>6, <1>7, NoFailure DEF ReadInv, FrameInv

\* An answer is stored; those it wakes find it.
LEMMA CompletesInv ==
  ASSUME ReadInv, NEW t \in Tasks, Completes(t)
  PROVE  ReadInv' /\ FailsForACause
<1>1. /\ Refreshed(t) /\ Blame({}) /\ UNCHANGED <<warming, failed>>
      /\ named' = (named \ {t}) \cup (Chain(t) \ {t})
  BY DEF Completes
<1>2. CoordInv' /\ StoreInv'
  BY <1>1, CachePart DEF CacheNext, RefreshStep
<1>3. task \in [Tasks -> TaskRecord] /\ task[t].pc = "fetched" /\ task[t].key \in Keys
  BY <1>1 DEF ReadInv, CoordInv, CoordTypeOK, Refreshed
<1>4. /\ task'[t].pc = "idle"
      /\ \A u \in Tasks : u # t =>
           \/ task'[u] = task[u] /\ ~WaitsFor(u, t)
           \/ WaitsFor(u, t) /\ task'[u].pc = "woken" /\ task'[u].key = task[u].key
  BY <1>1, FinishShape DEF Refreshed, ReadInv
<1>5. Live(store', task[t].key)
  <2>1. task[t].val \in Versions \cup {None} /\ store' = Stored(task[t].key, task[t].val)
    BY <1>1, <1>3 DEF Refreshed, TaskRecord
  <2> QED BY <1>3, <2>1, StoredIsLive DEF ReadInv
<1>6. BlameInv' /\ blamed' \subseteq {u \in Callers : task'[u].pc = "woken"}
  <2>1. ASSUME NEW u \in Callers, task'[u].pc = "woken"
        PROVE  \/ task[u].pc = "woken" /\ task'[u].key = task[u].key
               \/ Live(store', task'[u].key)
    <3>1. u \in Tasks /\ u # t
      BY <1>4, <2>1, Actors
    <3>2. CASE WaitsFor(u, t)
      <4>1. task[t].key = task[u].key
        BY <3>2 DEF WaitsFor, ReadInv, CoordInv, WaiterHasLeader, InRefresh
      <4> QED BY <1>4, <1>5, <3>1, <3>2, <4>1
    <3> QED BY <1>4, <2>1, <3>1, <3>2
  <2> QED BY <1>1, <2>1, BlameStep DEF ReadInv
<1>7. FramesAreNested'
  <2> SUFFICES ASSUME NEW u \in Fetchers, InFrame(u)'
               PROVE  /\ InFrame(u) /\ task'[u] = task[u]
                      /\ task'[Frame[u]].key = task[Frame[u]].key
                      /\ u \notin named' \ named
    BY NestedStep DEF ReadInv
  <2>1. u \in Tasks /\ Frame[u] \in Tasks /\ Frame[u] # t
    BY <1>4, Actors DEF InFrame
  <2>2. InFrame(u) /\ task'[Frame[u]].key = task[Frame[u]].key
    BY <1>4, <2>1 DEF InFrame, WaitsFor
  <2>3. task[u].pc = "fetching"
    BY <2>2, InFrameFacts DEF ReadInv
  <2>4. u # t /\ task'[u] = task[u]
    BY <1>3, <1>4, <2>1, <2>3 DEF WaitsFor
  <2>5. u \notin named' \ named
    BY <1>1, <2>1, <2>4 DEF Chain
  <2> QED BY <2>2, <2>4, <2>5
<1>8. HistoryTypeOK'
  BY <1>1, <1>6 DEF ReadInv, FrameInv, HistoryTypeOK, Chain
<1> QED BY <1>1, <1>2, <1>6, <1>7, <1>8, NoFailure DEF ReadInv, FrameInv

\* An exception or a cancellation that takes a task away together with the call
\* that runs inside it.
LEMMA UnwindReadInv ==
  ASSUME ReadInv, NEW T, Unwind(T),
         UNCHANGED store \/ \E k \in Keys : store' = AfterGet(k),
         \A t \in Fetchers : t \in T /\ InFrame(t) => Frame[t] \in T,
         failed' \subseteq failed \cup Tools
  PROVE  ReadInv'
<1>1. CoordInv'
  BY UnwindInv DEF ReadInv
<1>2. /\ \A u \in Tasks : u \in T => task'[u] = Idle
      /\ \A u \in Tasks : u \notin T =>
           \/ task'[u] = task[u] /\ u \notin WaitersOf(Leaders(T))
           \/ /\ u \in WaitersOf(Leaders(T))
              /\ task'[u].pc = "woken" /\ task'[u].key = task[u].key
      /\ Blame(Leaders(T)) /\ named' = named \ T /\ UNCHANGED <<cloud, warming>>
  BY UnwindShape DEF ReadInv
<1>3. StoreInv'
  <2>1. ASSUME NEW k \in Keys, store' = AfterGet(k) PROVE StoreInv'
    <3>1. StoreTypeOK' /\ Len(store') <= Len(store)
      BY <2>1, AfterLookup DEF ReadInv, StoreInv
    <3>2. Len(store) \in Nat /\ Len(store') \in Nat /\ MaxSize \in Nat /\ Len(store) <= MaxSize
      BY <3>1, LenProperties, CacheAssumption DEF ReadInv, StoreInv, StoreTypeOK
    <3> QED BY <3>1, <3>2 DEF StoreInv
  <2>2. CASE UNCHANGED store
    BY <2>2 DEF ReadInv, StoreInv, StoreTypeOK
  <2> QED BY <2>1, <2>2
<1>4. BlameInv' /\ blamed' \subseteq {u \in Callers : task'[u].pc = "woken"}
  <2>1. ASSUME NEW u \in Callers, task'[u].pc = "woken"
        PROVE  \/ task[u].pc = "woken" /\ task'[u].key = task[u].key
               \/ u \in WaitersOf(Leaders(T))
    BY <1>2, <2>1, Actors DEF Idle
  <2> QED BY <1>2, <2>1, BlameStep DEF ReadInv
<1>5. FramesAreNested'
  <2> SUFFICES ASSUME NEW u \in Fetchers, InFrame(u)'
               PROVE  /\ InFrame(u) /\ task'[u] = task[u]
                      /\ task'[Frame[u]].key = task[Frame[u]].key
    BY <1>2, NestedStep DEF ReadInv
  <2>1. u \in Tasks /\ Frame[u] \in Tasks
    BY Actors
  <2>2. Frame[u] \notin T
    BY <1>2, <2>1 DEF InFrame, Idle
  <2>3. InFrame(u) /\ task'[Frame[u]].key = task[Frame[u]].key
    BY <1>2, <2>1, <2>2 DEF InFrame, WaitersOf
  <2>4. u \notin T /\ task[u].pc = "fetching"
    BY <2>2, <2>3, InFrameFacts DEF ReadInv
  <2> QED BY <1>2, <2>1, <2>3, <2>4 DEF WaitersOf
<1>6. HistoryTypeOK'
  BY <1>2, <1>4 DEF ReadInv, FrameInv, HistoryTypeOK
<1> QED BY <1>1, <1>3, <1>4, <1>5, <1>6 DEF ReadInv, FrameInv

\* A request fails: its own call, and the one around it, had a cause.
LEMMA RequestFailsInv ==
  ASSUME ReadInv, NEW t \in Tasks, RequestFails(t)
  PROVE  ReadInv' /\ FailsForACause
<1>1. PICK T : T = Chain(t)
  OBVIOUS
<1>2. /\ InRequest(t) /\ UNCHANGED store /\ Unwind(T) /\ failed' = failed \cup (T \cap Tools)
  BY <1>1 DEF RequestFails
<1>3. \A o \in Fetchers : o \in T /\ InFrame(o) => Frame[o] \in T
  BY <1>1, <1>2 DEF Chain, InRequest
<1>4. ReadInv'
  BY <1>2, <1>3, UnwindReadInv
<1>5. FailsForACause
  <2> SUFFICES ASSUME NEW c \in T \cap Tools
               PROVE  task[IF InFrame(c) THEN Frame[c] ELSE c].pc # "woken"
    BY <1>2 DEF FailsForACause
  <2>1. CASE c = t
    BY <1>2, <2>1 DEF InRequest
  <2>2. CASE c # t
    <3>1. c \in Fetchers /\ Frame[c] = t
      BY <1>1, <2>2 DEF Chain
    <3> QED BY <1>2, <3>1 DEF InFrame, InRequest
  <2> QED BY <2>1, <2>2
<1> QED BY <1>4, <1>5

\* A woken caller goes on: with its value, or, where there is none, not at all,
\* and then somebody is to blame.
LEMMA ResumesInv ==
  ASSUME ReadInv, NEW u \in Callers, Resumes(u)
  PROVE  ReadInv' /\ FailsForACause
<1>1. /\ task[u].pc = "woken" /\ store' = AfterGet(task[u].key)
      /\ u \in Tasks /\ task[u].key \in Keys
  BY Actors DEF Resumes, ReadInv, CoordInv, CoordTypeOK
<1>2. ~InFrame(u)
  BY <1>1, InFrameFacts DEF ReadInv, InFrame
<1>3. CASE Live(store, task[u].key)
  <2>1. /\ task' = [task EXCEPT ![u] = Idle]
        /\ named' = named \cup (Chain(u) \ {u})
        /\ Blame({})
        /\ UNCHANGED <<inflight, cloud, warming, failed>>
    BY <1>3 DEF Resumes
  <2>2. CoordInv' /\ StoreInv'
    BY <1>1, <2>1, CachePart DEF CacheNext, CallerStep, Resume
  <2>3. /\ task'[u] = Idle /\ Idle.pc = "idle"
        /\ \A t \in Tasks : t # u => task'[t] = task[t]
    BY <1>1, <2>1 DEF ReadInv, CoordInv, CoordTypeOK, Idle
  <2>4. BlameInv' /\ blamed' \subseteq {c \in Callers : task'[c].pc = "woken"}
    <3>1. \A c \in Callers : task'[c].pc = "woken" => task'[c] = task[c]
      BY <2>3, Actors
    <3> QED BY <2>1, <3>1, BlameStep DEF ReadInv
  <2>5. FramesAreNested'
    <3> SUFFICES ASSUME NEW t \in Fetchers, InFrame(t)'
                 PROVE  /\ InFrame(t) /\ task'[t] = task[t]
                        /\ task'[Frame[t]].key = task[Frame[t]].key
                        /\ t \notin named' \ named
      BY NestedStep DEF ReadInv
    <3>1. t \in Tasks /\ Frame[t] \in Tasks /\ Frame[t] # u
      BY <2>3, Actors DEF InFrame
    <3>2. InFrame(t) /\ task'[Frame[t]].key = task[Frame[t]].key
      BY <2>3, <3>1 DEF InFrame
    <3>3. t # u
      BY <1>2, <3>2
    <3>4. t \notin named' \ named
      BY <2>1, <3>1 DEF Chain
    <3> QED BY <2>3, <3>1, <3>2, <3>3, <3>4
  <2>6. HistoryTypeOK'
    BY <2>1, <2>4 DEF ReadInv, FrameInv, HistoryTypeOK, Chain
  <2> QED BY <2>1, <2>2, <2>4, <2>5, <2>6, NoFailure DEF ReadInv, FrameInv
<1>4. CASE ~Live(store, task[u].key)
  <2>1. PICK T : T = Chain(u)
    OBVIOUS
  <2>2. Unwind(T) /\ failed' = failed \cup (T \cap Tools)
    BY <1>4, <2>1 DEF Resumes
  <2>3. \A o \in Fetchers : o \in T /\ InFrame(o) => Frame[o] \in T
    BY <1>2, <2>1 DEF Chain
  <2>4. ReadInv'
    BY <1>1, <2>2, <2>3, UnwindReadInv
  <2>5. u \in blamed
    BY <1>1, <1>4 DEF ReadInv, BlameInv
  <2>6. FailsForACause
    <3> SUFFICES ASSUME NEW c \in T \cap Tools
                 PROVE  (IF InFrame(c) THEN Frame[c] ELSE c) = u
      BY <2>2, <2>5 DEF FailsForACause
    <3>1. CASE c = u
      BY <1>2, <3>1
    <3>2. CASE c # u
      <4>1. c \in Fetchers /\ Frame[c] = u
        BY <2>1, <3>2 DEF Chain
      <4> QED BY <1>1, <4>1 DEF InFrame
    <3> QED BY <3>1, <3>2
  <2> QED BY <2>4, <2>6
<1> QED BY <1>3, <1>4

\* A tool runs into its timeout.
LEMMA CancelReadInv ==
  ASSUME ReadInv, NEW c \in Tools, CancelRead(c)
  PROVE  ReadInv' /\ FailsForACause
<1>1. PICK T : T = {c} \cup IF InFrame(c) THEN {Frame[c]} ELSE {}
  OBVIOUS
<1>2. UNCHANGED <<store, failed>> /\ Unwind(T)
  BY <1>1 DEF CancelRead
<1>3. \A t \in Fetchers : t \in T /\ InFrame(t) => Frame[t] \in T
  BY <1>1, Actors DEF InFrame
<1> QED BY <1>2, <1>3, UnwindReadInv, NoFailure

\* A background task begins, and time passes.
LEMMA OtherReadInv ==
  ASSUME ReadInv, (\E b \in Refreshers : BackgroundBegins(b)) \/ ReadTick
  PROVE  ReadInv' /\ FailsForACause
<1>1. Blame({}) /\ UNCHANGED <<named, warming, failed>>
  BY DEF BackgroundBegins, ReadTick
<1>2. CoordInv' /\ StoreInv'
  BY CachePart DEF BackgroundBegins, ReadTick, CacheNext
<1>3. task \in [Tasks -> TaskRecord]
  BY DEF ReadInv, CoordInv, CoordTypeOK
<1>4. \A t \in Tasks :
        \/ task'[t] = task[t]
        \/ /\ t \in Refreshers
           /\ task[t].pc = "scheduled"
           /\ task'[t].pc = "fetching"
  BY <1>3, Actors DEF BackgroundBegins, BeginRefresh, ReadTick, CacheTick, TaskRecord
<1>5. BlameInv' /\ blamed' \subseteq {u \in Callers : task'[u].pc = "woken"}
  BY <1>1, <1>4, Actors, BlameStep DEF ReadInv
<1>6. FramesAreNested'
  <2> SUFFICES ASSUME NEW t \in Fetchers, InFrame(t)'
               PROVE  /\ InFrame(t) /\ task'[t] = task[t]
                      /\ task'[Frame[t]].key = task[Frame[t]].key
    BY <1>1, NestedStep DEF ReadInv
  <2>1. t \in Tasks /\ Frame[t] \in Tasks /\ Frame[t] \notin Refreshers
    BY Actors
  <2>2. InFrame(t) /\ task'[Frame[t]] = task[Frame[t]]
    BY <1>4, <2>1 DEF InFrame
  <2>3. task[t].pc = "fetching"
    BY <2>2, InFrameFacts DEF ReadInv
  <2> QED BY <1>4, <2>1, <2>2, <2>3
<1>7. HistoryTypeOK'
  BY <1>1, <1>5 DEF ReadInv, FrameInv, HistoryTypeOK
<1> QED BY <1>1, <1>2, <1>5, <1>6, <1>7, NoFailure DEF ReadInv, FrameInv

-----------------------------------------------------------------------------
(* The tools and the warm-up *)

\* An unused cache, before the warm-up.
LEMMA ReadInitInv == ReadInit => ReadInv
<1> SUFFICES ASSUME ReadInit PROVE ReadInv
  OBVIOUS
<1>1. \A t \in Tasks : task[t].pc = "idle"
  BY DEF ReadInit, CacheInit, Idle
<1>2. FrameInv /\ BlameInv
  BY <1>1, Actors DEF ReadInit, FrameInv, HistoryTypeOK, FramesAreNested, InFrame, BlameInv
<1> QED BY <1>2, CoordInitInv, StoreInitInv DEF ReadInit, ReadInv

\* Every step keeps the invariant, and no step fails a tool without a cause.
LEMMA ReadNextInv ==
  ASSUME ReadInv, [ReadNext]_readVars
  PROVE  ReadInv' /\ FailsForACause
<1>1. ASSUME NEW c \in Tools, NEW k \in Keys, ToolReads(c, k) PROVE ReadInv' /\ FailsForACause
  <2>1. /\ GetOrFetch(c, k) /\ Blame({}) /\ UNCHANGED <<named, warming>>
        /\ failed' \subseteq failed
    BY <1>1 DEF ToolReads
  <2>2. c \in Callers /\ \A t \in Fetchers : Frame[t] # c
    BY Actors
  <2> QED BY <2>1, <2>2, EnterInv
<1>2. ASSUME NEW w \in Warmers, WarmUp(w) PROVE ReadInv' /\ FailsForACause
  <2>1. PICK k \in Keys : GetOrFetch(w, k)
    BY <1>2, Actors DEF WarmUp
  <2>2. Blame({}) /\ UNCHANGED <<named, failed>> /\ warming' \subseteq warming
    BY <1>2 DEF WarmUp
  <2>3. w \in Callers /\ \A t \in Fetchers : Frame[t] # w
    BY Actors
  <2> QED BY <2>1, <2>2, <2>3, EnterInv
<1>3. ASSUME NEW t \in Fetchers, AskProjects(t) PROVE ReadInv' /\ FailsForACause
  <2>1. PICK c : c = Frame[t]
    OBVIOUS
  <2>2. /\ BeforeProjects(t) /\ GetOrFetch(c, ProjectsKey) /\ Blame({})
        /\ named' = IF task'[c].pc = "idle" THEN named \cup {t} ELSE named
        /\ UNCHANGED <<warming, failed>>
    BY <1>3, <2>1 DEF AskProjects
  <2>3. c \in Callers /\ ProjectsKey \in Keys /\ \A o \in Fetchers : Frame[o] = c => o = t
    BY <2>1, Actors
  <2>4. \A o \in Fetchers : Frame[o] = c => BeforeProjects(o)
    BY <2>2, <2>3
  <2>5. \E o \in Fetchers : Frame[o] = c /\
          named' = IF task'[c].pc = "idle" THEN named \cup {o} ELSE named
    BY <2>1, <2>2
  <2> QED BY <2>2, <2>3, <2>4, <2>5, EnterInv
<1>4. ASSUME NEW t \in Tasks, TaskGoesOn(t) PROVE ReadInv' /\ FailsForACause
  BY <1>4, RequestOkInv, RequestFailsInv, CompletesInv DEF TaskGoesOn
<1>5. CASE UNCHANGED readVars
  BY <1>5
  DEF readVars, cacheVars, ReadInv, CoordInv, CoordTypeOK, WaiterHasLeader, InflightIsRunning,
      InRefresh, StoreInv, StoreTypeOK, FrameInv, HistoryTypeOK, FramesAreNested, InFrame,
      BlameInv, FailsForACause
<1> QED
  BY <1>1, <1>2, <1>3, <1>4, <1>5, ResumesInv, CancelReadInv, OtherReadInv DEF ReadNext

\* The invariant holds in every state of every execution.
THEOREM ReadInvariance == ReadSpec => []ReadInv
<1>1. ReadInv /\ [ReadNext]_readVars => ReadInv'
  BY ReadNextInv
<1> QED BY <1>1, ReadInitInv, PTL DEF ReadSpec

\* Cache, frames and histories keep their types under nested fetches.
THEOREM ReadTypeCorrect == ReadSpec => []ReadTypeOK
<1>1. ReadInv => ReadTypeOK
  BY DEF ReadInv, CoordInv, CoordTypeOK, StoreInv, StoreTypeOK, EntrySet, TaskRecord, PCs,
         CacheTypeOK, FrameInv, HistoryTypeOK, ReadTypeOK
<1> QED BY <1>1, ReadInvariance, PTL

\* _fetch_projects runs only inside a fetch of the instance list that waits for
\* it, whatever fails, is cancelled or is refreshed around the two.
THEOREM FramesStayNested == ReadSpec => []FramesAreNested
BY ReadInvariance, PTL DEF ReadInv, FrameInv

\* _refresh waits for nobody's Event, so background tasks do not.
OnlyCallersWait == \A b \in Refreshers : task[b].pc # "waiting"

LEMMA CallersWait == ReadSpec => []OnlyCallersWait
<1>1. ReadInit => OnlyCallersWait
  BY Actors DEF ReadInit, CacheInit, OnlyCallersWait, Idle
<1>2. ReadInv /\ OnlyCallersWait /\ [ReadNext]_readVars => OnlyCallersWait'
  <2> SUFFICES ASSUME ReadInv, OnlyCallersWait, [ReadNext]_readVars, NEW b \in Refreshers,
                      task'[b].pc = "waiting"
               PROVE  FALSE
    BY DEF OnlyCallersWait
  <2>0. /\ CoordInv /\ task \in [Tasks -> TaskRecord] /\ task[b].pc # "waiting"
        /\ b \in Tasks /\ b \notin Callers
    BY Actors DEF ReadInv, CoordInv, CoordTypeOK, OnlyCallersWait
  <2>1. ASSUME NEW c \in Callers, NEW k \in Keys, GetOrFetch(c, k) PROVE FALSE
    <3>1. b # c
      BY <2>0
    <3>2. CASE HitFresh(c, k)
      BY <2>0, <3>2 DEF HitFresh
    <3>3. CASE HitStale(c, k)
      BY <2>0, <3>3 DEF HitStale, Idle
    <3>4. CASE WaitForLeader(c, k) \/ Lead(c, k)
      BY <2>0, <3>1, <3>4 DEF WaitForLeader, Lead
    <3> QED BY <2>1, <3>2, <3>3, <3>4 DEF GetOrFetch
  <2>2. ASSUME NEW t \in Tasks, Finish(t) PROVE FALSE
    BY <2>0, <2>2, FinishShape DEF Idle
  <2>3. ASSUME NEW T, Unwind(T) PROVE FALSE
    BY <2>0, <2>3, UnwindShape DEF Idle
  <2>4. ASSUME NEW c \in Tools, (\E k \in Keys : ToolReads(c, k)) \/ CancelRead(c) PROVE FALSE
    BY <2>1, <2>3, <2>4, Actors DEF ToolReads, CancelRead
  <2>5. ASSUME NEW w \in Warmers, WarmUp(w) PROVE FALSE
    BY <2>1, <2>5, Actors DEF WarmUp
  <2>6. ASSUME NEW t \in Fetchers, AskProjects(t) PROVE FALSE
    BY <2>1, <2>6, Actors DEF AskProjects
  <2>7. ASSUME NEW t \in Tasks, TaskGoesOn(t) PROVE FALSE
    <3>1. CASE RequestOk(t)
      BY <2>0, <3>1 DEF RequestOk, Answer
    <3> QED BY <2>2, <2>3, <2>7, <3>1 DEF TaskGoesOn, RequestFails, Completes, Refreshed
  <2>8. ASSUME NEW u \in Callers, Resumes(u) PROVE FALSE
    <3>1. CASE task' = [task EXCEPT ![u] = Idle]
      BY <2>0, <3>1
    <3> QED BY <2>3, <2>8, <3>1 DEF Resumes
  <2>9. ASSUME NEW r \in Refreshers, BackgroundBegins(r) PROVE FALSE
    BY <2>0, <2>9 DEF BackgroundBegins, BeginRefresh
  <2>10. CASE ReadTick \/ UNCHANGED readVars
    BY <2>0, <2>10 DEF ReadTick, CacheTick, readVars, cacheVars
  <2> QED BY <2>4, <2>5, <2>6, <2>7, <2>8, <2>9, <2>10 DEF ReadNext
<1> QED BY <1>1, <1>2, ReadInvariance, PTL DEF ReadSpec

\* Among tasks that all wait for one another, none waits for a fetch of the
\* project list, so none is in a call inside, so none waits for a fetch at all.
THEOREM NobodyWaitsInACircle == ReadSpec => []NoWaitCycle
<1>1. ReadInv /\ OnlyCallersWait => NoWaitCycle
  <2> SUFFICES ASSUME ReadInv, OnlyCallersWait, NEW T \in SUBSET Tasks, T # {},
                      \A t \in T : Needs(t) # {} /\ Needs(t) \subseteq T
               PROVE  FALSE
    BY DEF NoWaitCycle
  <2>1. ASSUME NEW t \in T, task[t].pc = "waiting"
        PROVE  \E l \in T : /\ task[l].key = task[t].key
                            /\ l \in Fetchers /\ InFrame(l)
    <3>1. t \in Callers
      BY <2>1, ReadAssumption DEF OnlyCallersWait, Tasks
    <3>2. PICK l \in Tasks : l = task[t].on /\ InRefresh(l, task[t].key)
      BY <2>1, <3>1 DEF ReadInv, CoordInv, WaiterHasLeader
    <3>3. l \in T
      BY <2>1, <3>2 DEF Needs
    <3>4. task[l].pc # "waiting" /\ Needs(l) # {} /\ task[l].key = task[t].key
      BY <3>2, <3>3 DEF InRefresh
    <3> QED BY <3>3, <3>4 DEF Needs, InFrame
  <2>2. ASSUME NEW t \in T, t \in Fetchers, InFrame(t) PROVE FALSE
    <3>1. /\ task[t].pc = "fetching" /\ Frame[t] \notin Fetchers
          /\ task[Frame[t]].key = ProjectsKey
      BY <2>2, InFrameFacts, Actors DEF ReadInv
    <3>2. Frame[t] \in T
      BY <2>2, <3>1 DEF Needs
    <3>3. task[Frame[t]].pc = "waiting"
      BY <3>1, <3>2 DEF Needs, InFrame
    <3>4. PICK l \in T : task[l].key = ProjectsKey /\ l \in Fetchers /\ InFrame(l)
      BY <2>1, <3>1, <3>2, <3>3
    <3>5. task[l].key = ListKey
      BY <3>4, InFrameFacts DEF ReadInv
    <3> QED BY <3>4, <3>5, Actors
  <2>3. PICK t \in T : task[t].pc = "waiting" \/ (t \in Fetchers /\ InFrame(t))
    BY DEF Needs, InFrame
  <2> QED BY <2>1, <2>2, <2>3
<1> QED BY <1>1, ReadInvariance, CallersWait, PTL

\* Nested reads lose no wake-up: the leader of a waiter is still in _refresh.
THEOREM NestedReadsWake == ReadSpec => []WaiterHasLeader
BY ReadInvariance, PTL DEF ReadInv, CoordInv

\* An exception through two fetches at once blocks neither of their keys.
THEOREM NestedReadsUnblock == ReadSpec => []InflightIsRunning
BY ReadInvariance, PTL DEF ReadInv, CoordInv

\* A tool that waited for another one's fetch fails only if that fetch failed or
\* was cancelled, or its result has left the cache before the tool looked.
THEOREM FailuresAreCaused == ReadSpec => FailuresHaveACause
<1>1. ReadInv /\ [ReadNext]_readVars =>
        [\A c \in failed' \ failed :
           LET u == IF InFrame(c) THEN Frame[c] ELSE c
           IN  task[u].pc = "woken" => u \in blamed]_readVars
  BY ReadNextInv DEF FailsForACause
<1> QED BY <1>1, ReadInvariance, PTL DEF ReadSpec, FailuresHaveACause
=============================================================================
