------------------------- MODULE AsyncTTLCache_proofs -------------------------
(***************************************************************************)
(* Proofs about AsyncTTLCache, for any keys, coroutines, background tasks, *)
(* times and sizes.                                                        *)
(*                                                                         *)
(* CoordInv is the inductive part about coroutines and Events.  Neither of *)
(* its two safety conjuncts is inductive alone: a coroutine starts to wait *)
(* on whatever task _inflight names, so WaiterHasLeader needs              *)
(* InflightIsRunning.  StoreInv is the inductive part about the entries.   *)
(* With the history variable overlap of CacheOverlap, a key outside it is  *)
(* fetched by one task at a time, and what it holds, or has been answered, *)
(* is no newer than what a later answer can be: the value never goes back. *)
(***************************************************************************)
EXTENDS CacheOverlap, SequenceTheorems, TLAPS

PCs == {"idle", "scheduled", "fetching", "fetched", "waiting", "woken"}

TaskRecord ==
  [pc : PCs, key : Keys \cup {None}, val : Versions \cup {None}, on : Tasks \cup {None}]

CoordTypeOK ==
  /\ inflight \in [Keys -> Tasks \cup {None}]
  /\ task \in [Tasks -> TaskRecord]
  /\ \A t \in Tasks : task[t].pc # "idle" => task[t].key \in Keys
  /\ cloud \in [Keys -> Versions]

CoordInv == CoordTypeOK /\ WaiterHasLeader /\ InflightIsRunning

-----------------------------------------------------------------------------
(* Coroutines and Events *)

\* A coroutine outside get_or_fetch is described by a proper record.
LEMMA IdleType == Idle \in TaskRecord
BY DEF Idle, TaskRecord, PCs

\* An empty cache that nobody uses satisfies the invariant of the coroutines.
LEMMA CoordInitInv == CacheInit => CoordInv
BY CacheAssumption, IdleType
DEF CacheInit, CoordInv, CoordTypeOK, WaiterHasLeader, InflightIsRunning, Idle, Versions, Tasks

\* Leaving _refresh, by whichever way, wakes everyone who waits for it and
\* leaves no registered Event without a task that will set it.
LEMMA FinishInv ==
  ASSUME CoordInv, NEW t \in Tasks, task[t].pc \in {"fetching", "fetched"},
         Finish(t), UNCHANGED cloud
  PROVE  CoordInv'
<1> DEFINE k == task[t].key
<1>1. k \in Keys
  BY DEF CoordInv, CoordTypeOK
<1>2. ASSUME NEW u \in Tasks
      PROVE  /\ task'[u] \in TaskRecord
             /\ task'[u].pc # "idle" => task'[u].key = task[u].key /\ task[u].pc # "idle"
             /\ u = t => task'[u].pc = "idle"
             /\ task'[u].pc = "waiting" => task'[u] = task[u] /\ task[u].on # t
             /\ u # t /\ task[u].pc # "waiting" => task'[u] = task[u]
  <2>1. task[u] \in TaskRecord
    BY DEF CoordInv, CoordTypeOK
  <2>2. CASE u = t
    BY <2>2, IdleType DEF Finish, WaitsFor, Idle
  <2>3. CASE u # t /\ WaitsFor(u, t)
    <3>1. task'[u] = [task[u] EXCEPT !.pc = "woken", !.on = None]
      BY <2>3 DEF Finish, WaitsFor
    <3> QED BY <2>1, <2>3, <3>1 DEF TaskRecord, PCs, WaitsFor
  <2>4. CASE u # t /\ ~WaitsFor(u, t)
    <3>1. task'[u] = task[u]
      BY <2>4 DEF Finish, WaitsFor
    <3> QED BY <2>1, <2>4, <3>1 DEF WaitsFor
  <2> QED BY <2>2, <2>3, <2>4
<1>3. CoordTypeOK'
  <2>1. task' \in [Tasks -> TaskRecord]
    BY <1>2 DEF Finish, WaitsFor
  <2>2. inflight' \in [Keys -> Tasks \cup {None}]
    BY DEF Finish, WaitsFor, CoordInv, CoordTypeOK
  <2>3. \A u \in Tasks : task'[u].pc # "idle" => task'[u].key \in Keys
    BY <1>2 DEF CoordInv, CoordTypeOK
  <2> QED BY <2>1, <2>2, <2>3 DEF CoordInv, CoordTypeOK
<1>4. WaiterHasLeader'
  <2> SUFFICES ASSUME NEW c \in Callers, task'[c].pc = "waiting"
               PROVE  task'[c].on \in Tasks /\ InRefresh(task[c].on, task[c].key)'
                      /\ task'[c] = task[c]
    BY DEF WaiterHasLeader, InRefresh
  <2>1. c \in Tasks /\ task'[c] = task[c] /\ task[c].on # t
    BY <1>2 DEF Tasks
  <2>2. task[c].on \in Tasks /\ InRefresh(task[c].on, task[c].key)
    BY <2>1 DEF CoordInv, WaiterHasLeader
  <2>3. task'[task[c].on] = task[task[c].on]
    BY <1>2, <2>1, <2>2 DEF InRefresh
  <2> QED BY <2>1, <2>2, <2>3 DEF InRefresh
<1>5. InflightIsRunning'
  <2> SUFFICES ASSUME NEW j \in Keys, inflight'[j] # None
               PROVE  InRefresh(inflight[j], j)' /\ inflight'[j] = inflight[j]
    BY DEF InflightIsRunning, InRefresh
  <2>1. j # k /\ inflight'[j] = inflight[j]
    BY <1>1 DEF Finish, WaitsFor, CoordInv, CoordTypeOK
  <2>2. inflight[j] \in Tasks /\ InRefresh(inflight[j], j)
    BY <2>1 DEF CoordInv, CoordTypeOK, InflightIsRunning
  <2>3. inflight[j] # t
    BY <2>1, <2>2 DEF InRefresh
  <2>4. task'[inflight[j]] = task[inflight[j]]
    BY <1>2, <2>2, <2>3 DEF InRefresh
  <2> QED BY <2>1, <2>2, <2>4 DEF InRefresh
<1> QED BY <1>3, <1>4, <1>5 DEF CoordInv

\* A step that moves one task t, which nobody waits for and which is not
\* registered, or which stays in _refresh for its key, keeps the invariant if
\* the task itself ends up where it may be.
LEMMA MoveInv ==
  ASSUME CoordInv, NEW t \in Tasks, NEW r \in TaskRecord,
         task' = [task EXCEPT ![t] = r],
         r.pc # "idle" => r.key \in Keys,
         r.pc = "waiting" =>
           /\ task[t].pc \notin {"fetching", "fetched"}
           /\ r.on \in Tasks /\ InRefresh(r.on, r.key),
         task[t].pc \in {"fetching", "fetched"} =>
           r.pc \in {"fetching", "fetched"} /\ r.key = task[t].key,
         \/ UNCHANGED inflight
         \/ /\ inflight' = [inflight EXCEPT ![r.key] = t]
            /\ r.pc = "fetching",
         UNCHANGED cloud
  PROVE  CoordInv'
<1>1. ASSUME NEW u \in Tasks PROVE task'[u] = IF u = t THEN r ELSE task[u]
  BY DEF CoordInv, CoordTypeOK
<1>2. ASSUME NEW u \in Tasks, NEW k \in Keys, InRefresh(u, k)
      PROVE  InRefresh(u, k)'
  BY <1>1, <1>2 DEF InRefresh
<1>3. CoordTypeOK'
  <2>1. task' \in [Tasks -> TaskRecord]
    BY DEF CoordInv, CoordTypeOK
  <2>2. inflight' \in [Keys -> Tasks \cup {None}]
    BY DEF CoordInv, CoordTypeOK
  <2>3. \A u \in Tasks : task'[u].pc # "idle" => task'[u].key \in Keys
    BY <1>1 DEF CoordInv, CoordTypeOK
  <2> QED BY <2>1, <2>2, <2>3 DEF CoordInv, CoordTypeOK
<1>4. WaiterHasLeader'
  <2> SUFFICES ASSUME NEW c \in Callers, task'[c].pc = "waiting"
               PROVE  (task[c].on \in Tasks /\ InRefresh(task[c].on, task[c].key))'
    BY DEF WaiterHasLeader
  <2>1. c \in Tasks
    BY DEF Tasks
  <2>2. PICK u \in Tasks, k \in Keys :
          task'[c].on = u /\ task'[c].key = k /\ InRefresh(u, k)
    BY <1>1, <2>1 DEF CoordInv, CoordTypeOK, WaiterHasLeader
  <2>3. InRefresh(u, k)'
    BY <1>2, <2>2
  <2> QED BY <2>2, <2>3 DEF InRefresh
<1>5. InflightIsRunning'
  <2> SUFFICES ASSUME NEW j \in Keys, inflight'[j] # None
               PROVE  InRefresh(inflight[j], j)'
    BY DEF InflightIsRunning
  <2>1. CASE inflight'[j] = inflight[j]
    <3>1. inflight[j] \in Tasks /\ InRefresh(inflight[j], j)
      BY <2>1 DEF CoordInv, CoordTypeOK, InflightIsRunning
    <3> QED BY <1>2, <2>1, <3>1 DEF InRefresh
  <2>2. CASE inflight'[j] # inflight[j]
    <3>1. inflight'[j] = t /\ j = r.key /\ r.pc = "fetching"
      BY <2>2 DEF CoordInv, CoordTypeOK
    <3> QED BY <1>1, <3>1 DEF InRefresh
  <2> QED BY <2>1, <2>2
<1> QED BY <1>3, <1>4, <1>5 DEF CoordInv

\* The steps of a caller, of a background task and of a task in _refresh.
LEMMA CoordNextInv == CoordInv /\ [CacheNext]_cacheVars => CoordInv'
<1> SUFFICES ASSUME CoordInv, [CacheNext]_cacheVars PROVE CoordInv'
  OBVIOUS
<1> USE DEF TaskRecord, PCs
<1>1. ASSUME NEW t \in Tasks PROVE task[t] \in TaskRecord
  BY DEF CoordInv, CoordTypeOK
<1>2. Callers \subseteq Tasks /\ Refreshers \subseteq Tasks
  BY DEF Tasks
<1>3. ASSUME UNCHANGED <<inflight, task, cloud>> PROVE CoordInv'
  BY <1>3 DEF CoordInv, CoordTypeOK, WaiterHasLeader, InflightIsRunning, InRefresh
<1>4. ASSUME NEW c \in Callers, NEW k \in Keys, HitStale(c, k) PROVE CoordInv'
  <2>1. CASE inflight[k] = None
    <3>1. PICK b \in Refreshers :
            /\ task[b].pc = "idle"
            /\ task' = [task EXCEPT ![b] = [Idle EXCEPT !.pc = "scheduled", !.key = k]]
      BY <1>4, <2>1 DEF HitStale
    <3> DEFINE r == [Idle EXCEPT !.pc = "scheduled", !.key = k]
    <3>2. r \in TaskRecord /\ r.pc = "scheduled" /\ r.key = k
      BY DEF Idle
    <3>3. UNCHANGED <<inflight, cloud>>
      BY <1>4 DEF HitStale
    <3> HIDE DEF r
    <3> QED BY <1>2, <3>1, <3>2, <3>3, MoveInv DEF r
  <2>2. CASE inflight[k] # None
    BY <1>3, <1>4, <2>2 DEF HitStale
  <2> QED BY <2>1, <2>2
<1>5. ASSUME NEW c \in Callers, NEW k \in Keys, WaitForLeader(c, k) PROVE CoordInv'
  <2> DEFINE r == [Idle EXCEPT !.pc = "waiting", !.key = k, !.on = inflight[k]]
  <2>1. inflight[k] \in Tasks /\ InRefresh(inflight[k], k)
    BY <1>5 DEF WaitForLeader, CoordInv, CoordTypeOK, InflightIsRunning
  <2>2. r \in TaskRecord /\ r.pc = "waiting" /\ r.key = k /\ r.on = inflight[k]
    BY <2>1 DEF Idle
  <2>3. /\ task' = [task EXCEPT ![c] = r]
        /\ task[c].pc = "idle"
        /\ UNCHANGED <<inflight, cloud>>
    BY <1>5 DEF WaitForLeader, Miss
  <2> HIDE DEF r
  <2> QED BY <1>2, <2>1, <2>2, <2>3, MoveInv
<1>6. ASSUME NEW c \in Callers, NEW k \in Keys, Lead(c, k) PROVE CoordInv'
  <2> DEFINE r == [Idle EXCEPT !.pc = "fetching", !.key = k]
  <2>1. r \in TaskRecord /\ r.pc = "fetching" /\ r.key = k
    BY DEF Idle
  <2>2. /\ task' = [task EXCEPT ![c] = r]
        /\ task[c].pc = "idle"
        /\ inflight' = [inflight EXCEPT ![k] = c]
        /\ UNCHANGED cloud
    BY <1>6 DEF Lead, Miss
  <2> HIDE DEF r
  <2> QED BY <1>2, <2>1, <2>2, MoveInv
<1>7. ASSUME NEW b \in Refreshers, BeginRefresh(b) PROVE CoordInv'
  <2> DEFINE r == [task[b] EXCEPT !.pc = "fetching"]
  <2>1. task[b].pc = "scheduled" /\ task[b].key \in Keys
    BY <1>2, <1>7 DEF BeginRefresh, CoordInv, CoordTypeOK
  <2>2. r \in TaskRecord /\ r.pc = "fetching" /\ r.key = task[b].key
    BY <1>1, <1>2
  <2>3. /\ task' = [task EXCEPT ![b] = r]
        /\ inflight' = [inflight EXCEPT ![task[b].key] = b]
        /\ UNCHANGED cloud
    BY <1>7 DEF BeginRefresh
  <2> HIDE DEF r
  <2> QED BY <1>2, <2>1, <2>2, <2>3, MoveInv
<1>8. ASSUME NEW t \in Tasks, Answer(t) PROVE CoordInv'
  <2>1. PICK v \in {cloud[task[t].key], None} :
          task' = [task EXCEPT ![t].pc = "fetched", ![t].val = v]
    BY <1>8 DEF Answer
  <2> DEFINE r == [task[t] EXCEPT !.pc = "fetched", !.val = v]
  <2>2. task[t].pc = "fetching" /\ task[t].key \in Keys
    BY <1>8 DEF Answer, CoordInv, CoordTypeOK
  <2>3. v \in Versions \cup {None}
    BY <2>2 DEF CoordInv, CoordTypeOK
  <2>4. r \in TaskRecord /\ r.pc = "fetched" /\ r.key = task[t].key
    BY <1>1, <2>3
  <2>5. task' = [task EXCEPT ![t] = r]
    BY <2>1 DEF CoordInv, CoordTypeOK
  <2>6. UNCHANGED <<inflight, cloud>>
    BY <1>8 DEF Answer
  <2> HIDE DEF r
  <2> QED BY <2>2, <2>4, <2>5, <2>6, MoveInv
<1>9. ASSUME NEW t \in Tasks, Refreshed(t) \/ RefreshFailed(t) PROVE CoordInv'
  BY <1>9, FinishInv DEF Refreshed, RefreshFailed
<1>10. ASSUME NEW c \in Callers, task[c].pc \in {"waiting", "woken"},
              task' = [task EXCEPT ![c] = Idle], UNCHANGED <<inflight, cloud>>
       PROVE  CoordInv'
  <2>1. Idle \in TaskRecord /\ Idle.pc = "idle"
    BY IdleType DEF Idle
  <2> QED BY <1>2, <1>10, <2>1, MoveInv
<1>11. ASSUME NEW c \in Callers, Resume(c) PROVE CoordInv'
  BY <1>10, <1>11 DEF Resume
<1>12. ASSUME NEW c \in Callers, CancelCaller(c) PROVE CoordInv'
  BY <1>2, <1>10, <1>12, FinishInv DEF CancelCaller
<1>13. ASSUME NEW k \in Keys, CloudChanges(k) PROVE CoordInv'
  <2>1. cloud' \in [Keys -> Versions]
    BY <1>13, CacheAssumption DEF CloudChanges, CoordInv, CoordTypeOK, Versions
  <2> QED
    BY <1>13, <2>1
    DEF CloudChanges, CoordInv, CoordTypeOK, WaiterHasLeader, InflightIsRunning, InRefresh
<1> QED
  BY <1>3, <1>4, <1>5, <1>6, <1>7, <1>8, <1>9, <1>11, <1>12, <1>13
  DEF CacheNext, CallerStep, RefreshStep, GetOrFetch, HitFresh, Delete, Clear, CacheTick, cacheVars

\* Coroutines, registered Events and tasks in _refresh agree in every state.
THEOREM CoordInvariance == CacheSpec => []CoordInv
BY CoordInitInv, CoordNextInv, PTL DEF CacheSpec

\* No lost wake-up: a waiting coroutine's leader is still in _refresh for its
\* key, even if another task has taken the leader's place in _inflight.
THEOREM NoLostWakeUp == CacheSpec => []WaiterHasLeader
BY CoordInvariance, PTL DEF CoordInv

\* A key is registered in _inflight only while the registered task runs.
THEOREM InflightEnds == CacheSpec => []InflightIsRunning
BY CoordInvariance, PTL DEF CoordInv

-----------------------------------------------------------------------------
(* The store *)

EntrySet == [key : Keys, val : Versions \cup {None}, age : 0..MaxAge]

Distinct(s) == \A i, j \in 1..Len(s) : s[i].key = s[j].key => i = j

StoreTypeOK == store \in Seq(EntrySet) /\ Distinct(store)

\* Every entry of s is an entry of the store, untouched.
FromStore(s) == \A i \in 1..Len(s) : \E j \in 1..Len(store) : s[i] = store[j]

\* Removing a key leaves the other entries, each once, in a shorter sequence
\* if the key was there.
LEMMA WithoutProperties ==
  ASSUME StoreTypeOK, NEW k \in Keys
  PROVE  /\ Without(k) \in Seq(EntrySet)
         /\ Distinct(Without(k))
         /\ FromStore(Without(k))
         /\ Len(Without(k)) <= Len(store)
         /\ Cached(k) => Len(Without(k)) = Len(store) - 1
         /\ \A i \in 1..Len(Without(k)) : Without(k)[i].key # k
         /\ \A j \in 1..Len(store) : store[j].key # k =>
              \E i \in 1..Len(Without(k)) : Without(k)[i] = store[j]
<1>1. /\ store \in Seq(EntrySet)
      /\ Len(store) \in Nat
      /\ DOMAIN store = 1..Len(store)
      /\ \A i \in 1..Len(store) : store[i] \in EntrySet
  BY LenProperties, ElementOfSeq DEF StoreTypeOK
<1>2. CASE ~Cached(k)
  <2>1. Without(k) = store
    BY <1>2 DEF Without
  <2>2. \A i \in 1..Len(store) : store[i].key # k
    BY <1>1, <1>2 DEF Cached
  <2>3. Distinct(store) /\ FromStore(store)
    BY DEF StoreTypeOK, FromStore
  <2>4. Len(store) <= Len(store)
    BY <1>1
  <2> QED BY <1>1, <1>2, <2>1, <2>2, <2>3, <2>4
<1>3. CASE Cached(k)
  <2> DEFINE p == Position(k)
             l == SubSeq(store, 1, p - 1)
             r == SubSeq(store, p + 1, Len(store))
  <2>1. p \in 1..Len(store) /\ store[p].key = k
    BY <1>1, <1>3 DEF Cached, Position
  <2>2. /\ l \in Seq(EntrySet) /\ Len(l) = p - 1
        /\ \A i \in 1..p-1 : l[i] = store[i]
    <3>1. \A i \in 1..p-1 : store[i] \in EntrySet
      BY <1>1, <2>1
    <3>2. p - 1 \in Int
      BY <2>1
    <3> HIDE DEF p
    <3>3. /\ SubSeq(store, 1, p - 1) \in Seq(EntrySet)
          /\ Len(SubSeq(store, 1, p - 1)) = IF 1 <= p - 1 THEN (p - 1) - 1 + 1 ELSE 0
          /\ \A i \in 1..(p - 1) - 1 + 1 : SubSeq(store, 1, p - 1)[i] = store[1 + i - 1]
      BY <3>1, <3>2, SubSeqProperties
    <3> QED BY <1>1, <2>1, <3>3
  <2>3. /\ r \in Seq(EntrySet) /\ Len(r) = Len(store) - p
        /\ \A i \in 1..Len(store)-p : r[i] = store[p + i]
    <3>1. \A i \in p+1..Len(store) : store[i] \in EntrySet
      BY <1>1, <2>1
    <3>2. p + 1 \in Int /\ Len(store) \in Int
      BY <1>1, <2>1
    <3> HIDE DEF p
    <3>3. /\ r \in Seq(EntrySet)
          /\ Len(r) = IF p + 1 <= Len(store) THEN Len(store) - (p + 1) + 1 ELSE 0
          /\ \A i \in 1..Len(store) - (p + 1) + 1 : r[i] = store[(p + 1) + i - 1]
      BY <3>1, <3>2, SubSeqProperties
    <3> HIDE DEF r
    <3>4. ASSUME NEW i \in 1..Len(store) - p PROVE r[i] = store[p + i]
      <4>1. i \in 1..Len(store) - (p + 1) + 1 /\ (p + 1) + i - 1 = p + i
        BY <1>1, <2>1
      <4>2. r[i] = store[(p + 1) + i - 1]
        BY <3>3, <4>1
      <4> QED BY <4>1, <4>2
    <3>5. Len(r) = Len(store) - p
      BY <1>1, <2>1, <3>3
    <3> QED BY <3>3, <3>4, <3>5
  <2> HIDE DEF p, l, r
  <2>4. Without(k) = l \o r
    BY <1>3 DEF Without, RemoveAt, p, l, r
  <2>5. /\ l \o r \in Seq(EntrySet)
        /\ Len(l \o r) = Len(l) + Len(r)
        /\ \A i \in 1..Len(l) + Len(r) :
             (l \o r)[i] = IF i <= Len(l) THEN l[i] ELSE r[i - Len(l)]
    BY <2>2, <2>3, ConcatProperties
  <2>6. Len(Without(k)) = Len(store) - 1
    BY <1>1, <2>1, <2>2, <2>3, <2>4, <2>5
  <2>7. \A i \in 1..Len(store) - 1 :
          Without(k)[i] = IF i < p THEN store[i] ELSE store[i + 1]
    BY <1>1, <2>1, <2>2, <2>3, <2>4, <2>5
  <2>8. Distinct(store)
    BY DEF StoreTypeOK
  <2>9. Distinct(Without(k))
    BY <1>1, <2>1, <2>6, <2>7, <2>8 DEF Distinct
  <2>10. FromStore(Without(k))
    BY <1>1, <2>1, <2>6, <2>7 DEF FromStore
  <2>11. \A i \in 1..Len(Without(k)) : Without(k)[i].key # k
    BY <1>1, <2>1, <2>6, <2>7, <2>8 DEF Distinct
  <2>12. Len(Without(k)) <= Len(store)
    BY <1>1, <2>6
  <2>13. Without(k) \in Seq(EntrySet)
    BY <2>4, <2>5
  <2>14. ASSUME NEW j \in 1..Len(store), store[j].key # k
         PROVE  \E i \in 1..Len(Without(k)) : Without(k)[i] = store[j]
    <3>1. j # p
      BY <2>1, <2>14
    <3>2. CASE j < p
      <4>1. j \in 1..Len(store) - 1
        BY <1>1, <2>1, <3>2
      <4> QED BY <2>6, <2>7, <3>2, <4>1
    <3>3. CASE j > p
      <4>1. j - 1 \in 1..Len(store) - 1 /\ ~(j - 1 < p) /\ (j - 1) + 1 = j
        BY <1>1, <2>1, <3>3
      <4>2. Without(k)[j - 1] = store[j]
        BY <2>7, <4>1
      <4> QED BY <2>6, <4>1, <4>2
    <3> QED BY <1>1, <2>1, <3>1, <3>2, <3>3
  <2> QED BY <2>6, <2>9, <2>10, <2>11, <2>12, <2>13, <2>14
<1> QED BY <1>2, <1>3

\* Looking a key up moves or drops its entry and changes no entry.
LEMMA LookupProperties ==
  ASSUME StoreTypeOK, NEW k \in Keys, NEW s,
         s \in {store, Without(k)} \/ (Cached(k) /\ s = MovedToEnd(k))
  PROVE  /\ s \in Seq(EntrySet) /\ Distinct(s) /\ FromStore(s) /\ Len(s) <= Len(store)
         /\ \A j \in 1..Len(store) : store[j].key # k =>
              \E i \in 1..Len(s) : s[i] = store[j]
<1>1. /\ store \in Seq(EntrySet)
      /\ Len(store) \in Nat
      /\ DOMAIN store = 1..Len(store)
      /\ \A i \in 1..Len(store) : store[i] \in EntrySet
  BY LenProperties, ElementOfSeq DEF StoreTypeOK
<1>2. CASE s = store
  BY <1>1, <1>2 DEF StoreTypeOK, FromStore
<1>3. CASE s = Without(k)
  BY <1>3, WithoutProperties
<1>4. CASE Cached(k) /\ s = MovedToEnd(k)
  <2> DEFINE w == Without(k)
             e == Entry(k)
  <2>1. e \in EntrySet /\ e.key = k /\ \E j \in 1..Len(store) : e = store[j]
    BY <1>1, <1>4 DEF Cached, Entry, Position
  <2>2. /\ w \in Seq(EntrySet) /\ Len(w) \in Nat /\ Len(w) = Len(store) - 1
        /\ Distinct(w) /\ FromStore(w)
        /\ \A i \in 1..Len(w) : w[i].key # k
        /\ \A j \in 1..Len(store) : store[j].key # k => \E i \in 1..Len(w) : w[i] = store[j]
    BY <1>4, WithoutProperties, LenProperties
  <2>3. s = Append(w, e)
    BY <1>4 DEF MovedToEnd
  <2> HIDE DEF w, e
  <2>4. /\ s \in Seq(EntrySet)
        /\ Len(s) = Len(w) + 1
        /\ \A i \in 1..Len(w) : s[i] = w[i]
        /\ s[Len(w) + 1] = e
    BY <2>1, <2>2, <2>3, AppendProperties
  <2>5. Distinct(s)
    BY <2>1, <2>2, <2>4 DEF Distinct
  <2>6. FromStore(s)
    BY <2>1, <2>2, <2>4 DEF FromStore
  <2>7. \A j \in 1..Len(store) : store[j].key # k => \E i \in 1..Len(s) : s[i] = store[j]
    BY <2>2, <2>4
  <2> QED BY <1>1, <2>2, <2>4, <2>5, <2>6, <2>7
<1> QED BY <1>2, <1>3, <1>4

\* What get_stale(), get() or delete() leaves is well-formed, made of entries that
\* were there, and no longer than before.
LEMMA AfterLookup ==
  ASSUME StoreTypeOK, NEW k \in Keys, store' \in {AfterGetStale(k), AfterGet(k), Without(k)}
  PROVE  StoreTypeOK' /\ FromStore(store') /\ Len(store') <= Len(store)
<1>1. store' \in {store, Without(k)} \/ (Cached(k) /\ store' = MovedToEnd(k))
  BY DEF AfterGetStale, AfterGet, Fresh
<1> QED BY <1>1, LookupProperties DEF StoreTypeOK, Distinct

\* set(): the new entry is last, the others are entries of the store, and the
\* size stays within _max_size.
LEMMA StoredProperties ==
  ASSUME StoreTypeOK, Len(store) <= MaxSize, NEW k \in Keys, NEW v \in Versions \cup {None}
  PROVE  LET s == Stored(k, v)
         IN  /\ s \in Seq(EntrySet) /\ Distinct(s) /\ Len(s) <= MaxSize
             /\ \A i \in 1..Len(s) :
                  \/ s[i] = [key |-> k, val |-> v, age |-> 0]
                  \/ s[i].key # k /\ \E j \in 1..Len(store) : s[i] = store[j]
             /\ \E i \in 1..Len(s) : s[i] = [key |-> k, val |-> v, age |-> 0]
             /\ \E lost \in Keys :
                  /\ Cached(k) => lost = k
                  /\ \A j \in 1..Len(store) :
                       store[j].key \notin {k, lost} => \E i \in 1..Len(s) : s[i] = store[j]
<1> DEFINE w == Without(k)
           e == [key |-> k, val |-> v, age |-> 0]
           a == Append(w, e)
<1>1. MaxAge \in Nat /\ MaxSize \in Nat \ {0}
  BY CacheAssumption
<1>2. e \in EntrySet /\ e.key = k
  BY <1>1 DEF EntrySet
<1>3. /\ w \in Seq(EntrySet) /\ Len(w) \in Nat
      /\ Distinct(w) /\ FromStore(w)
      /\ \A i \in 1..Len(w) : w[i].key # k
      /\ Len(w) <= Len(store) /\ (Cached(k) => Len(w) = Len(store) - 1)
      /\ \A j \in 1..Len(store) : store[j].key # k => \E i \in 1..Len(w) : w[i] = store[j]
  BY WithoutProperties, LenProperties
<1>4. Len(store) \in Nat
  BY LenProperties DEF StoreTypeOK
<1> HIDE DEF w, e
<1>5. /\ a \in Seq(EntrySet) /\ a # << >>
      /\ Len(a) = Len(w) + 1
      /\ \A i \in 1..Len(w) : a[i] = w[i]
      /\ a[Len(w) + 1] = e
  BY <1>2, <1>3, AppendProperties
<1> HIDE DEF a
<1>6. Distinct(a)
  BY <1>2, <1>3, <1>5 DEF Distinct
<1>7. \A i \in 1..Len(a) :
        a[i] = e \/ (a[i].key # k /\ \E j \in 1..Len(store) : a[i] = store[j])
  <2> SUFFICES ASSUME NEW i \in 1..Len(a)
               PROVE  a[i] = e \/ (a[i].key # k /\ \E j \in 1..Len(store) : a[i] = store[j])
    OBVIOUS
  <2>1. i \in 1..Len(w) \/ i = Len(w) + 1
    BY <1>3, <1>5
  <2> QED BY <1>3, <1>5, <2>1 DEF FromStore
<1>8. Stored(k, v) = IF Len(a) > MaxSize THEN Tail(a) ELSE a
  BY DEF Stored, a, w, e
<1>9. CASE Len(a) > MaxSize
  <2>1. /\ Tail(a) \in Seq(EntrySet)
        /\ Len(Tail(a)) = Len(a) - 1
        /\ \A i \in 1..Len(Tail(a)) : Tail(a)[i] = a[i + 1]
    BY <1>5, HeadTailProperties
  <2>2. Distinct(Tail(a))
    <3> SUFFICES ASSUME NEW i \in 1..Len(Tail(a)), NEW j \in 1..Len(Tail(a)),
                        Tail(a)[i].key = Tail(a)[j].key
                 PROVE  i = j
      BY DEF Distinct
    <3>1. i + 1 \in 1..Len(a) /\ j + 1 \in 1..Len(a)
      BY <1>3, <1>5, <2>1
    <3>2. a[i + 1].key = a[j + 1].key
      BY <2>1
    <3>3. i + 1 = j + 1
      BY <1>6, <3>1, <3>2 DEF Distinct
    <3> QED BY <3>3
  <2>3. Len(Tail(a)) <= MaxSize
    BY <1>1, <1>3, <1>4, <1>5, <2>1
  <2>4. \A i \in 1..Len(Tail(a)) :
          \/ Tail(a)[i] = e
          \/ Tail(a)[i].key # k /\ \E j \in 1..Len(store) : Tail(a)[i] = store[j]
    <3> SUFFICES ASSUME NEW i \in 1..Len(Tail(a))
                 PROVE  \/ a[i + 1] = e
                        \/ a[i + 1].key # k /\ \E j \in 1..Len(store) : a[i + 1] = store[j]
      BY <2>1
    <3>1. i + 1 \in 1..Len(a)
      BY <1>3, <1>5, <2>1
    <3> QED BY <1>7, <3>1
  <2>5. \E i \in 1..Len(Tail(a)) : Tail(a)[i] = e
    <3>1. Len(a) - 1 \in 1..Len(Tail(a)) /\ (Len(a) - 1) + 1 = Len(w) + 1
      BY <1>1, <1>3, <1>5, <1>9, <2>1
    <3> QED BY <1>5, <2>1, <3>1
  <2>6. \E lost \in Keys :
          /\ Cached(k) => lost = k
          /\ \A j \in 1..Len(store) :
               store[j].key \notin {k, lost} => \E i \in 1..Len(Tail(a)) : Tail(a)[i] = store[j]
    <3>0. ~Cached(k)
      BY <1>1, <1>3, <1>4, <1>5, <1>9
    <3>1. a[1] \in EntrySet /\ Len(a) \in Nat
      BY <1>3, <1>5, ElementOfSeq
    <3>2. ASSUME NEW j \in 1..Len(store), store[j].key \notin {k, a[1].key}
          PROVE  \E i \in 1..Len(Tail(a)) : Tail(a)[i] = store[j]
      <4>1. PICK i \in 1..Len(w) : a[i] = store[j]
        BY <1>3, <1>5, <3>2
      <4>2. i # 1
        BY <3>2, <4>1
      <4>3. i - 1 \in 1..Len(Tail(a)) /\ (i - 1) + 1 = i
        BY <1>3, <1>5, <2>1, <4>2
      <4> QED BY <2>1, <4>1, <4>3
    <3> QED BY <3>0, <3>1, <3>2 DEF EntrySet
  <2>7. Stored(k, v) = Tail(a)
    BY <1>8, <1>9
  <2> QED BY <2>1, <2>2, <2>3, <2>4, <2>5, <2>6, <2>7 DEF e
<1>10. CASE ~(Len(a) > MaxSize)
  <2>1. Len(w) + 1 \in 1..Len(a) /\ \A i \in 1..Len(w) : i \in 1..Len(a)
    BY <1>3, <1>5
  <2>2. \A j \in 1..Len(store) : store[j].key # k => \E i \in 1..Len(a) : a[i] = store[j]
    BY <1>3, <1>5, <2>1
  <2>3. Len(a) <= MaxSize
    BY <1>1, <1>3, <1>5, <1>10
  <2> QED BY <1>5, <1>6, <1>7, <1>8, <1>10, <2>1, <2>2, <2>3 DEF e
<1> QED BY <1>9, <1>10

StoreInv == StoreTypeOK /\ Len(store) <= MaxSize

\* The entries of s carry values that the store has for the same keys.
ValuesFromStore(s) ==
  \A i \in 1..Len(s) : \E j \in 1..Len(store) :
    s[i].key = store[j].key /\ s[i].val = store[j].val

\* A step of the clock keeps the sequence of entries and makes them older.
LEMMA TickProperties ==
  ASSUME StoreInv, CacheTick
  PROVE  StoreInv' /\ ValuesFromStore(store')
<1>1. /\ store \in Seq(EntrySet)
      /\ Len(store) \in Nat
      /\ DOMAIN store = 1..Len(store)
      /\ \A i \in 1..Len(store) : store[i] \in EntrySet
  BY LenProperties, ElementOfSeq DEF StoreInv, StoreTypeOK
<1>2. ASSUME NEW i \in 1..Len(store)
      PROVE  /\ Aged(store[i]) \in EntrySet
             /\ Aged(store[i]).key = store[i].key
             /\ Aged(store[i]).val = store[i].val
  <2>1. store[i] \in EntrySet /\ MaxAge \in Nat
    BY <1>1, CacheAssumption
  <2> QED BY <2>1 DEF Aged, EntrySet
<1>3. store' = [i \in 1..Len(store) |-> Aged(store[i])]
  BY <1>1 DEF CacheTick
<1>4. store' \in Seq(EntrySet) /\ Len(store') = Len(store)
  BY <1>1, <1>2, <1>3
<1>5. Distinct(store')
  BY <1>1, <1>2, <1>3, <1>4 DEF StoreInv, StoreTypeOK, Distinct
<1>6. ValuesFromStore(store')
  BY <1>2, <1>3, <1>4 DEF ValuesFromStore
<1> QED BY <1>4, <1>5, <1>6 DEF StoreInv, StoreTypeOK, Distinct

\* Only set() brings a value into the store that was not there.
LEMMA StoreNextInv ==
  ASSUME CoordInv, StoreInv, [CacheNext]_cacheVars
  PROVE  /\ StoreInv'
         /\ ValuesFromStore(store') \/ \E t \in Tasks : Refreshed(t)
<1>1. /\ Len(store) \in Nat /\ MaxSize \in Nat
  BY LenProperties, CacheAssumption DEF StoreInv, StoreTypeOK
<1>2. ASSUME StoreTypeOK', FromStore(store'), Len(store') <= Len(store)
      PROVE  StoreInv' /\ ValuesFromStore(store')
  <2>1. Len(store') \in Nat
    BY <1>2, LenProperties DEF StoreTypeOK
  <2>2. Len(store) <= MaxSize
    BY DEF StoreInv
  <2>3. Len(store') <= MaxSize
    BY <1>1, <1>2, <2>1, <2>2
  <2>4. ValuesFromStore(store')
    BY <1>2 DEF ValuesFromStore, FromStore
  <2> QED BY <1>2, <2>3, <2>4 DEF StoreInv
<1>3. ASSUME NEW k \in Keys, store' \in {AfterGetStale(k), AfterGet(k), Without(k)}
      PROVE  StoreInv' /\ ValuesFromStore(store')
  BY <1>2, <1>3, AfterLookup DEF StoreInv
<1>4. ASSUME UNCHANGED store PROVE StoreInv' /\ ValuesFromStore(store')
  BY <1>4 DEF StoreInv, StoreTypeOK, ValuesFromStore, Distinct
<1>5. ASSUME NEW t \in Tasks, Refreshed(t) PROVE StoreInv'
  <2>1. task[t].key \in Keys /\ task[t].val \in Versions \cup {None}
    BY <1>5 DEF Refreshed, CoordInv, CoordTypeOK, TaskRecord
  <2> DEFINE s == Stored(task[t].key, task[t].val)
  <2>2. s \in Seq(EntrySet) /\ Distinct(s) /\ Len(s) <= MaxSize
    BY <2>1, StoredProperties DEF StoreInv
  <2>3. store' = s
    BY <1>5 DEF Refreshed
  <2> HIDE DEF s
  <2> QED BY <2>2, <2>3 DEF StoreInv, StoreTypeOK, Distinct
<1>6. CASE Clear
  <2>1. store' = << >> /\ Len(store') = 0
    BY <1>6 DEF Clear
  <2> QED BY <1>1, <2>1 DEF StoreInv, StoreTypeOK, Distinct, ValuesFromStore
<1>7. ASSUME NEW c \in Callers, CallerStep(c) PROVE StoreInv' /\ ValuesFromStore(store')
  <2>1. ASSUME NEW k \in Keys, GetOrFetch(c, k) PROVE StoreInv' /\ ValuesFromStore(store')
    BY <1>3, <1>4, <2>1 DEF GetOrFetch, HitFresh, HitStale, WaitForLeader, Lead, Miss
  <2>2. CASE Resume(c)
    <3>1. task[c].key \in Keys
      BY <2>2 DEF Resume, CoordInv, CoordTypeOK, Tasks
    <3> QED BY <1>3, <2>2, <3>1 DEF Resume
  <2>3. CASE CancelCaller(c)
    BY <1>4, <2>3 DEF CancelCaller
  <2> QED BY <1>7, <2>1, <2>2, <2>3 DEF CallerStep
<1>8. ASSUME NEW b \in Refreshers, BeginRefresh(b) PROVE StoreInv' /\ ValuesFromStore(store')
  BY <1>4, <1>8 DEF BeginRefresh
<1>9. ASSUME NEW t \in Tasks, Answer(t) \/ RefreshFailed(t)
      PROVE  StoreInv' /\ ValuesFromStore(store')
  BY <1>4, <1>9 DEF Answer, RefreshFailed
<1>10. ASSUME NEW k \in Keys, Delete(k) \/ CloudChanges(k)
       PROVE  StoreInv' /\ ValuesFromStore(store')
  BY <1>3, <1>4, <1>10 DEF Delete, CloudChanges
<1>11. CASE CacheTick
  BY <1>11, TickProperties
<1>12. CASE UNCHANGED cacheVars
  BY <1>4, <1>12 DEF cacheVars
<1> QED
  BY <1>5, <1>6, <1>7, <1>8, <1>9, <1>10, <1>11, <1>12 DEF CacheNext, RefreshStep

\* An empty OrderedDict satisfies the invariant of the entries.
LEMMA StoreInitInv == CacheInit => StoreInv
BY CacheAssumption DEF CacheInit, StoreInv, StoreTypeOK, Distinct

\* The OrderedDict has no key twice and no more than _max_size entries, for ever.
THEOREM StoreInvariance == CacheSpec => []StoreInv
<1>1. CoordInv /\ StoreInv /\ [CacheNext]_cacheVars => StoreInv'
  BY StoreNextInv
<1> QED BY <1>1, CoordInvariance, StoreInitInv, PTL DEF CacheSpec

\* The store never holds a key twice nor more than _max_size entries.
THEOREM StoreStaysBounded == CacheSpec => []StoreIsBounded
<1>1. StoreInv => StoreIsBounded
  <2> SUFFICES ASSUME StoreInv PROVE StoreIsBounded
    OBVIOUS
  <2>1. DOMAIN store = 1..Len(store)
    BY LenProperties DEF StoreInv, StoreTypeOK
  <2> QED BY <2>1 DEF StoreInv, StoreTypeOK, Distinct, StoreIsBounded, IsInjective
<1> QED BY <1>1, StoreInvariance, PTL

\* Every variable of the cache keeps its type.
THEOREM CacheTypeCorrect == CacheSpec => []CacheTypeOK
<1>1. CoordInv /\ StoreInv => CacheTypeOK
  BY DEF CoordInv, CoordTypeOK, StoreInv, StoreTypeOK, EntrySet, TaskRecord, PCs, CacheTypeOK
<1> QED BY <1>1, CoordInvariance, StoreInvariance, PTL

-----------------------------------------------------------------------------
(* Stampede protection with stale-while-revalidate *)

\* What the registration in _inflight buys: whoever fetches a key is the one
\* registered for it, unless a background refresh came too late to be kept out.
OneFetch ==
  /\ \A t \in Tasks, k \in Keys : InRefresh(t, k) => inflight[k] = t \/ k \in overlap
  /\ \A k \in overlap : k \in Keys /\ \E t \in Tasks : InRefresh(t, k)

\* No entry is newer than the cloud nor, without overlapping fetches, than an
\* answer about to be stored.
Ordered ==
  /\ \A i \in 1..Len(store) : store[i].val # None => store[i].val <= cloud[store[i].key]
  /\ \A t \in Tasks : task[t].pc = "fetched" /\ task[t].val # None =>
       /\ task[t].val <= cloud[task[t].key]
       /\ task[t].key \notin overlap =>
            \A i \in 1..Len(store) :
              store[i].key = task[t].key /\ store[i].val # None => store[i].val <= task[t].val

\* Who leaves _refresh leaves the other fetches as they are.
LEMMA FinishRefresh ==
  ASSUME CoordInv, NEW t \in Tasks, task[t].pc \in {"fetching", "fetched"}, Finish(t)
  PROVE  /\ task[t].key \in Keys
         /\ \A j \in Keys : j # task[t].key => inflight'[j] = inflight[j]
         /\ task'[t].pc = "idle"
         /\ \A u \in Tasks : u # t =>
              \/ task'[u] = task[u]
              \/ task[u].pc = "waiting" /\ task'[u].pc = "woken"
<1>1. task \in [Tasks -> TaskRecord] /\ inflight \in [Keys -> Tasks \cup {None}]
      /\ task[t].key \in Keys
  BY DEF CoordInv, CoordTypeOK
<1>2. ASSUME NEW u \in Tasks, u # t
      PROVE  \/ task'[u] = task[u]
             \/ task[u].pc = "waiting" /\ task'[u].pc = "woken"
  <2>1. CASE WaitsFor(u, t)
    <3>1. task'[u] = [task[u] EXCEPT !.pc = "woken", !.on = None]
      BY <1>2, <2>1 DEF Finish, WaitsFor
    <3> QED BY <1>1, <2>1, <3>1 DEF TaskRecord, WaitsFor
  <2>2. CASE ~WaitsFor(u, t)
    BY <1>2, <2>2 DEF Finish, WaitsFor
  <2> QED BY <2>1, <2>2
<1> QED BY <1>1, <1>2 DEF Finish, WaitsFor, Idle

\* In one step a task stays where it is as far as fetching goes, enters _refresh
\* for a key, or leaves it.
FetchersStay == \A t \in Tasks, k \in Keys : InRefresh(t, k)' <=> InRefresh(t, k)

Enters(t, k) ==
  /\ inflight' = [inflight EXCEPT ![k] = t]
  /\ \A u \in Tasks, j \in Keys :
       InRefresh(u, j)' <=> InRefresh(u, j) \/ (u = t /\ j = k)

\* Every step that keeps the overlap is one of a few kinds.
LEMMA FetchSteps ==
  ASSUME CoordInv, [CacheNext]_cacheVars
  PROVE  \/ FetchersStay /\ UNCHANGED inflight
         \/ \E c \in Callers, k \in Keys : Lead(c, k) /\ Enters(c, k)
         \/ \E b \in Refreshers : BeginRefresh(b) /\ Enters(b, task[b].key)
         \/ \E t \in Tasks : task[t].pc \in {"fetching", "fetched"} /\ Finish(t)
<1>1. /\ task \in [Tasks -> TaskRecord] /\ inflight \in [Keys -> Tasks \cup {None}]
      /\ \A t \in Tasks : task[t].pc # "idle" => task[t].key \in Keys
  BY DEF CoordInv, CoordTypeOK
<1>2. Callers \subseteq Tasks /\ Refreshers \subseteq Tasks
  BY DEF Tasks
<1>3. ASSUME UNCHANGED task PROVE FetchersStay
  BY <1>3 DEF FetchersStay, InRefresh
<1>4. ASSUME NEW t \in Tasks, NEW r \in TaskRecord, task' = [task EXCEPT ![t] = r],
             {task[t].pc, r.pc} \cap {"fetching", "fetched"} = {}
      PROVE  FetchersStay
  BY <1>1, <1>4 DEF FetchersStay, InRefresh
<1>5. ASSUME NEW c \in Callers, CallerStep(c)
      PROVE  \/ FetchersStay /\ UNCHANGED inflight
             \/ \E k \in Keys : Lead(c, k) /\ Enters(c, k)
             \/ task[c].pc \in {"fetching", "fetched"} /\ Finish(c)
  <2>0. Idle \in TaskRecord /\ Idle.pc = "idle"
    BY IdleType DEF Idle
  <2>1. ASSUME NEW k \in Keys, HitFresh(c, k) PROVE FetchersStay /\ UNCHANGED inflight
    BY <1>3, <2>1 DEF HitFresh
  <2>2. ASSUME NEW k \in Keys, HitStale(c, k) PROVE FetchersStay /\ UNCHANGED inflight
    <3> DEFINE r == [Idle EXCEPT !.pc = "scheduled", !.key = k]
    <3>1. r \in TaskRecord /\ r.pc = "scheduled"
      BY DEF Idle, TaskRecord, PCs
    <3>2. UNCHANGED inflight /\ (UNCHANGED task \/ \E b \in Refreshers :
            task[b].pc = "idle" /\ task' = [task EXCEPT ![b] = r])
      BY <2>2 DEF HitStale
    <3> HIDE DEF r
    <3> QED BY <1>2, <1>3, <1>4, <3>1, <3>2
  <2>3. ASSUME NEW k \in Keys, WaitForLeader(c, k) PROVE FetchersStay /\ UNCHANGED inflight
    <3> DEFINE r == [Idle EXCEPT !.pc = "waiting", !.key = k, !.on = inflight[k]]
    <3>1. r \in TaskRecord /\ r.pc = "waiting"
      BY <1>1 DEF Idle, TaskRecord, PCs
    <3>2. /\ UNCHANGED inflight /\ task[c].pc = "idle" /\ task' = [task EXCEPT ![c] = r]
      BY <2>3 DEF WaitForLeader, Miss
    <3> HIDE DEF r
    <3> QED BY <1>2, <1>4, <3>1, <3>2
  <2>4. ASSUME NEW k \in Keys, Lead(c, k) PROVE Enters(c, k)
    BY <1>1, <1>2, <2>4 DEF Lead, Miss, Enters, InRefresh, Idle
  <2>5. CASE Resume(c)
    BY <1>2, <1>4, <2>0, <2>5 DEF Resume
  <2>6. CASE CancelCaller(c)
    BY <1>2, <1>4, <2>0, <2>6 DEF CancelCaller
  <2> QED BY <1>5, <2>1, <2>2, <2>3, <2>4, <2>5, <2>6 DEF CallerStep, GetOrFetch
<1>6. ASSUME NEW b \in Refreshers, BeginRefresh(b) PROVE Enters(b, task[b].key)
  <2>1. task[b] \in TaskRecord /\ task'[b].pc = "fetching" /\ task'[b].key = task[b].key
        /\ task[b].pc = "scheduled"
    BY <1>1, <1>2, <1>6 DEF BeginRefresh, TaskRecord
  <2>2. /\ \A u \in Tasks : u # b => task'[u] = task[u]
        /\ inflight' = [inflight EXCEPT ![task[b].key] = b]
    BY <1>1, <1>6 DEF BeginRefresh
  <2> QED BY <2>1, <2>2 DEF Enters, InRefresh
<1>7. ASSUME NEW t \in Tasks, RefreshStep(t)
      PROVE  \/ FetchersStay /\ UNCHANGED inflight
             \/ task[t].pc \in {"fetching", "fetched"} /\ Finish(t)
  <2>1. CASE Answer(t)
    BY <1>1, <2>1 DEF Answer, FetchersStay, InRefresh, TaskRecord
  <2> QED BY <1>7, <2>1 DEF RefreshStep, Refreshed, RefreshFailed
<1> QED
  BY <1>2, <1>3, <1>5, <1>6, <1>7 DEF CacheNext, Delete, CloudChanges, Clear, CacheTick, cacheVars

\* How the history changes in each of them.
LEMMA OverlapSteps ==
  ASSUME CoordInv, OneFetch, Overlap
  PROVE  /\ FetchersStay => overlap' = overlap
         /\ \A c \in Callers, k \in Keys : Lead(c, k) /\ Enters(c, k) => overlap' = overlap
         /\ \A b \in Refreshers : BeginRefresh(b) /\ Enters(b, task[b].key) =>
              LET k == task[b].key
              IN  overlap' = IF inflight[k] # None THEN overlap \cup {k} ELSE overlap
         /\ \A t \in Tasks : task[t].pc \in {"fetching", "fetched"} /\ Finish(t) =>
              overlap' = {k \in overlap : \E u \in Tasks \ {t} : InRefresh(u, k)}
<1>0. /\ task \in [Tasks -> TaskRecord]
      /\ \A t \in Tasks : task[t].pc # "idle" => task[t].key \in Keys
      /\ Callers \subseteq Tasks /\ Refreshers \subseteq Tasks
  BY DEF CoordInv, CoordTypeOK, Tasks
<1>1. ASSUME FetchersStay PROVE overlap' = overlap
  <2>1. \A b \in Refreshers, k \in Keys : ~BeginsLate(b, k)
    BY <1>0, <1>1 DEF BeginsLate, FetchersStay, InRefresh
  <2> QED BY <1>1, <2>1 DEF Overlap, OneFetch, FetchersStay
<1>2. ASSUME NEW c \in Callers, NEW k \in Keys, Lead(c, k), Enters(c, k)
      PROVE  overlap' = overlap
  <2>1. \A b \in Refreshers, j \in Keys : ~BeginsLate(b, j)
    <3> SUFFICES ASSUME NEW b \in Refreshers, NEW j \in Keys, task[b].pc = "scheduled"
                 PROVE  ~InRefresh(b, j)'
      BY DEF BeginsLate
    <3>1. b # c
      BY <1>2 DEF Lead, Miss
    <3> QED BY <1>0, <1>2, <3>1 DEF Enters, InRefresh
  <2> QED BY <1>2, <2>1 DEF Overlap, OneFetch, Enters
<1>3. ASSUME NEW b \in Refreshers, BeginRefresh(b), Enters(b, task[b].key)
      PROVE  overlap' = IF inflight[task[b].key] # None
                        THEN overlap \cup {task[b].key} ELSE overlap
  <2>1. PICK k : k = task[b].key
    OBVIOUS
  <2>2. k \in Keys /\ task[b].pc = "scheduled" /\ b \in Tasks
    BY <1>0, <1>3, <2>1 DEF BeginRefresh
  <2>3. InRefresh(b, k)'
    BY <1>3, <2>1, <2>2 DEF Enters
  <2>4. \A a \in Refreshers, j \in Keys :
          BeginsLate(a, j) <=> a = b /\ j = k /\ inflight[k] # None
    BY <1>0, <1>3, <2>1, <2>2, <2>3 DEF BeginsLate, Enters, InRefresh
  <2>5. \A j \in Keys : (\E t \in Tasks : InRefresh(t, j)') <=>
                        j = k \/ \E t \in Tasks : InRefresh(t, j)
    BY <1>3, <2>1, <2>2 DEF Enters
  <2>6. overlap' = {j \in Keys : /\ j \in overlap \/ (j = k /\ inflight[k] # None)
                                 /\ j = k \/ \E t \in Tasks : InRefresh(t, j)}
    BY <2>4, <2>5 DEF Overlap
  <2> QED BY <2>1, <2>2, <2>6 DEF OneFetch
<1>4. ASSUME NEW t \in Tasks, task[t].pc \in {"fetching", "fetched"}, Finish(t)
      PROVE  overlap' = {k \in overlap : \E u \in Tasks \ {t} : InRefresh(u, k)}
  <2>1. \A u \in Tasks, k \in Keys : InRefresh(u, k)' <=> u # t /\ InRefresh(u, k)
    BY <1>4, FinishRefresh DEF InRefresh
  <2>2. \A b \in Refreshers, k \in Keys : ~BeginsLate(b, k)
    BY <1>0, <2>1 DEF BeginsLate, InRefresh
  <2>3. overlap' = {k \in Keys : k \in overlap /\ \E u \in Tasks : u # t /\ InRefresh(u, k)}
    BY <2>1, <2>2 DEF Overlap
  <2> QED BY <2>3 DEF OneFetch
<1> QED BY <1>1, <1>2, <1>3, <1>4

\* Every step leaves a fetch registered or its key in overlap.
LEMMA OneFetchNext ==
  ASSUME CoordInv, OneFetch, [OverlapNext]_overlapVars
  PROVE  OneFetch'
<1>0. /\ task \in [Tasks -> TaskRecord] /\ inflight \in [Keys -> Tasks \cup {None}]
      /\ \A t \in Tasks : t # None
      /\ Callers \subseteq Tasks /\ Refreshers \subseteq Tasks
  BY CacheAssumption DEF CoordInv, CoordTypeOK, Tasks
<1>1. CASE UNCHANGED overlapVars
  BY <1>1 DEF overlapVars, cacheVars, OneFetch, InRefresh
<1>2. CASE OverlapNext
  <2>1. CacheNext /\ Overlap
    BY <1>2 DEF OverlapNext
  <2>2. \A k \in overlap' : k \in Keys /\ \E t \in Tasks : InRefresh(t, k)'
    BY <2>1 DEF Overlap
  <2>3. ASSUME NEW t \in Tasks, NEW k \in Keys, k \in overlap, InRefresh(t, k)'
        PROVE  k \in overlap'
    BY <2>1, <2>3 DEF Overlap
  <2>4. ASSUME NEW t \in Tasks, NEW k \in Keys, InRefresh(t, k)'
        PROVE  inflight'[k] = t \/ k \in overlap'
    <3>1. CASE FetchersStay /\ UNCHANGED inflight
      BY <2>3, <2>4, <3>1 DEF FetchersStay, OneFetch
    <3>2. ASSUME NEW c \in Callers, NEW j \in Keys, Lead(c, j), Enters(c, j)
          PROVE  inflight'[k] = t \/ k \in overlap'
      BY <1>0, <2>3, <2>4, <3>2 DEF Lead, Enters, OneFetch
    <3>3. ASSUME NEW b \in Refreshers, BeginRefresh(b), Enters(b, task[b].key)
          PROVE  inflight'[k] = t \/ k \in overlap'
      <4>1. CASE t = b /\ k = task[b].key
        BY <1>0, <3>3, <4>1 DEF Enters
      <4>2. CASE ~(t = b /\ k = task[b].key)
        <5>1. InRefresh(t, k)
          BY <2>4, <3>3, <4>2 DEF Enters
        <5>2. inflight[k] = t \/ k \in overlap
          BY <5>1 DEF OneFetch
        <5>3. CASE k = task[b].key /\ inflight[k] = t
          BY <1>0, <2>1, <3>3, <5>3, OverlapSteps
        <5>4. CASE k # task[b].key /\ inflight[k] = t
          BY <1>0, <3>3, <5>4 DEF Enters
        <5> QED BY <2>3, <2>4, <5>2, <5>3, <5>4
      <4> QED BY <4>1, <4>2
    <3>4. ASSUME NEW u \in Tasks, task[u].pc \in {"fetching", "fetched"}, Finish(u)
          PROVE  inflight'[k] = t \/ k \in overlap'
      <4>1. t # u /\ InRefresh(t, k)
        BY <2>4, <3>4, FinishRefresh DEF InRefresh
      <4>2. CASE k = task[u].key
        <5>1. InRefresh(u, k)
          BY <3>4, <4>2 DEF InRefresh
        <5> QED BY <2>3, <2>4, <4>1, <5>1 DEF OneFetch
      <4>3. CASE k # task[u].key
        BY <2>3, <2>4, <3>4, <4>1, <4>3, FinishRefresh DEF OneFetch
      <4> QED BY <4>2, <4>3
    <3> QED BY <2>1, <3>1, <3>2, <3>3, <3>4, FetchSteps
  <2> QED BY <2>2, <2>4 DEF OneFetch
<1> QED BY <1>1, <1>2

\* At first nobody fetches.
LEMMA OneFetchInit == OverlapInit => OneFetch
BY CacheAssumption DEF OverlapInit, CacheInit, OneFetch, InRefresh, Idle

\* The history watches the cache and changes nothing in it.
LEMMA OverlapIsCache ==
  /\ OverlapInit => CacheInit
  /\ [OverlapNext]_overlapVars => [CacheNext]_cacheVars
BY DEF OverlapInit, OverlapNext, overlapVars

\* The two parts of the cache's invariant, beside the history.
LEMMA CacheInvariance == OverlapSpec => [](CoordInv /\ StoreInv)
<1>1. CoordInv /\ StoreInv /\ [CacheNext]_cacheVars => (CoordInv /\ StoreInv)'
  BY CoordNextInv, StoreNextInv
<1>2. CacheInit => CoordInv /\ StoreInv
  BY CoordInitInv, StoreInitInv
<1> QED BY <1>1, <1>2, OverlapIsCache, PTL DEF OverlapSpec

\* Misses alone never double a fetch, with any number of callers, failures and
\* cancellations: it takes a background refresh that began after another fetch.
THEOREM FetchesOverlapByRefresh == OverlapSpec => []OnlyRefreshesOverlap
<1>1. CoordInv /\ OneFetch /\ [OverlapNext]_overlapVars => OneFetch'
  BY OneFetchNext
<1>2. OneFetch => OnlyRefreshesOverlap
  BY DEF OneFetch, OnlyRefreshesOverlap
<1> QED BY <1>1, <1>2, CacheInvariance, OneFetchInit, PTL DEF OverlapSpec

\* The cloud moves forward only, and a task has the answer it had, or has just
\* asked for it.
LEMMA AnswersStep ==
  ASSUME CoordInv, [CacheNext]_cacheVars
  PROVE  /\ \A k \in Keys : cloud[k] <= cloud'[k]
         /\ \A t \in Tasks : task'[t].pc = "fetched" =>
              \/ task'[t] = task[t]
              \/ Answer(t) /\ task'[t].key = task[t].key
                 /\ task'[t].val \in {cloud[task[t].key], None}
<1>1. /\ task \in [Tasks -> TaskRecord]
      /\ cloud \in [Keys -> 0..MaxVersion]
      /\ MaxVersion \in Nat
      /\ Callers \subseteq Tasks /\ Refreshers \subseteq Tasks
  BY CacheAssumption DEF CoordInv, CoordTypeOK, Versions, Tasks
<1>2. \A k \in Keys : cloud[k] <= cloud'[k]
  <2>1. ASSUME NEW j \in Keys, CloudChanges(j) PROVE \A k \in Keys : cloud[k] <= cloud'[k]
    BY <1>1, <2>1 DEF CloudChanges
  <2>2. CASE UNCHANGED cloud
    BY <1>1, <2>2
  <2> QED
    BY <2>1, <2>2
    DEF CacheNext, CallerStep, GetOrFetch, HitFresh, HitStale, WaitForLeader, Lead, Resume,
        CancelCaller, BeginRefresh, RefreshStep, Answer, Refreshed, RefreshFailed, Delete,
        Clear, CacheTick, cacheVars
<1>3. ASSUME NEW t \in Tasks, task'[t].pc = "fetched"
      PROVE  \/ task'[t] = task[t]
             \/ Answer(t) /\ task'[t].key = task[t].key
                /\ task'[t].val \in {cloud[task[t].key], None}
  <2>1. ASSUME NEW u \in Tasks, Finish(u) PROVE task'[t] = task[t]
    <3>1. CASE t = u
      <4>1. task'[t] = Idle
        BY <2>1, <3>1 DEF Finish, WaitsFor
      <4> QED BY <1>3, <4>1 DEF Idle
    <3>2. CASE t # u /\ WaitsFor(t, u)
      <4>1. task'[t] = [task[t] EXCEPT !.pc = "woken", !.on = None]
        BY <2>1, <3>2 DEF Finish, WaitsFor
      <4> QED BY <1>1, <1>3, <4>1 DEF TaskRecord
    <3>3. CASE t # u /\ ~WaitsFor(t, u)
      BY <2>1, <3>3 DEF Finish, WaitsFor
    <3> QED BY <3>1, <3>2, <3>3
  <2>2. ASSUME NEW c \in Callers, CallerStep(c) PROVE task'[t] = task[t]
    <3>1. ASSUME NEW k \in Keys, GetOrFetch(c, k) PROVE task'[t] = task[t]
      <4>1. CASE HitFresh(c, k)
        BY <4>1 DEF HitFresh
      <4>2. CASE HitStale(c, k)
        BY <1>1, <1>3, <4>2 DEF HitStale, Idle
      <4>3. CASE WaitForLeader(c, k)
        BY <1>1, <1>3, <4>3 DEF WaitForLeader, Idle
      <4>4. CASE Lead(c, k)
        BY <1>1, <1>3, <4>4 DEF Lead, Idle
      <4> QED BY <3>1, <4>1, <4>2, <4>3, <4>4 DEF GetOrFetch
    <3>2. CASE task' = [task EXCEPT ![c] = Idle]
      BY <1>1, <1>3, <3>2 DEF Idle
    <3>3. CASE \E u \in Tasks : Finish(u)
      BY <2>1, <3>3
    <3> QED BY <1>1, <2>2, <3>1, <3>2, <3>3 DEF CallerStep, Resume, CancelCaller
  <2>3. ASSUME NEW b \in Refreshers, BeginRefresh(b) PROVE task'[t] = task[t]
    BY <1>1, <1>3, <2>3 DEF BeginRefresh, TaskRecord
  <2>4. ASSUME NEW u \in Tasks, Answer(u)
        PROVE  \/ task'[t] = task[t]
               \/ Answer(t) /\ task'[t].key = task[t].key
                  /\ task'[t].val \in {cloud[task[t].key], None}
    <3>1. CASE t = u
      BY <1>1, <2>4, <3>1 DEF Answer, TaskRecord
    <3>2. CASE t # u
      BY <1>1, <2>4, <3>2 DEF Answer
    <3> QED BY <3>1, <3>2
  <2>5. ASSUME NEW u \in Tasks, Refreshed(u) \/ RefreshFailed(u) PROVE task'[t] = task[t]
    BY <2>1, <2>5 DEF Refreshed, RefreshFailed
  <2>6. CASE UNCHANGED task
    BY <2>6
  <2> QED
    BY <2>2, <2>3, <2>4, <2>5, <2>6
    DEF CacheNext, RefreshStep, Delete, CloudChanges, Clear, CacheTick, cacheVars
<1> QED BY <1>2, <1>3

\* Two entries of the store, the second after a step, for the same key.
NoOlder(s, r) ==
  \A i \in 1..Len(s), j \in 1..Len(r) :
    s[i].key = r[j].key /\ s[i].key \notin overlap /\ s[i].val # None /\ r[j].val # None =>
      s[i].val <= r[j].val

\* Every step keeps stored values and pending answers of a key that is not in
\* overlap in the order OpenStack gave them, and puts no older value over a newer.
LEMMA OrderedNext ==
  ASSUME CoordInv, StoreInv, OneFetch, Ordered, CacheNext, Overlap
  PROVE  Ordered' /\ NoOlder(store, store')
<1>0. ASSUME NEW t \in Tasks, NEW k \in overlap, InRefresh(t, k)' PROVE k \in overlap'
  BY <1>0 DEF Overlap, OneFetch
<1>1. /\ \A t \in Tasks : task[t] \in TaskRecord
      /\ cloud \in [Keys -> 0..MaxVersion] /\ cloud' \in [Keys -> 0..MaxVersion]
      /\ MaxVersion \in Nat
  <2>1. CoordInv'
    BY CoordNextInv
  <2> QED BY <2>1, CacheAssumption DEF CoordInv, CoordTypeOK, Versions
<1>2. \A i \in 1..Len(store) :
        store[i].key \in Keys /\ store[i].val \in 0..MaxVersion \cup {None}
  <2>1. \A i \in 1..Len(store) : store[i] \in EntrySet
    BY ElementOfSeq DEF StoreInv, StoreTypeOK
  <2> QED BY <2>1 DEF EntrySet, Versions
<1>3. \A k \in Keys : cloud[k] <= cloud'[k]
  BY AnswersStep
<1>4. CASE ValuesFromStore(store')
  <2>1. NoOlder(store, store')
    <3> SUFFICES ASSUME NEW i \in 1..Len(store), NEW j \in 1..Len(store'),
                        store[i].key = store'[j].key, store[i].key \notin overlap,
                        store[i].val # None, store'[j].val # None
                 PROVE  store[i].val <= store'[j].val
      BY DEF NoOlder
    <3>1. PICK m \in 1..Len(store) :
            store'[j].key = store[m].key /\ store'[j].val = store[m].val
      BY <1>4 DEF ValuesFromStore
    <3>2. m = i
      BY <3>1 DEF StoreInv, StoreTypeOK, Distinct
    <3> QED BY <1>2, <3>1, <3>2
  <2>2. ASSUME NEW i \in 1..Len(store'), store'[i].val # None
        PROVE  store'[i].key \in Keys /\ store'[i].val \in 0..MaxVersion
               /\ store'[i].val <= cloud[store'[i].key]
               /\ store'[i].val <= cloud'[store'[i].key]
    <3>1. PICK m \in 1..Len(store) :
            store'[i].key = store[m].key /\ store'[i].val = store[m].val
      BY <1>4 DEF ValuesFromStore
    <3>2. store[m].val <= cloud[store[m].key]
      BY <2>2, <3>1 DEF Ordered
    <3>3. store[m].key \in Keys /\ store[m].val \in 0..MaxVersion
      BY <1>2, <2>2, <3>1
    <3>4. store[m].val <= cloud'[store[m].key]
      BY <1>1, <1>3, <3>2, <3>3
    <3> QED BY <3>1, <3>2, <3>3, <3>4
  <2>3. ASSUME NEW t \in Tasks, task'[t].pc = "fetched", task'[t].val # None
        PROVE  /\ task'[t].val <= cloud'[task'[t].key]
               /\ task'[t].key \notin overlap' =>
                  \A i \in 1..Len(store') :
                    store'[i].key = task'[t].key /\ store'[i].val # None =>
                      store'[i].val <= task'[t].val
    <3>1. CASE task'[t] = task[t]
      <4>1. task[t].val <= cloud[task[t].key] /\ task[t].key \in Keys
            /\ task[t].val \in 0..MaxVersion
        BY <1>1, <2>3, <3>1 DEF Ordered, CoordInv, CoordTypeOK, TaskRecord, Versions
      <4>2. task[t].val <= cloud'[task[t].key]
        BY <1>1, <1>3, <4>1
      <4>3. ASSUME NEW i \in 1..Len(store'), store'[i].key = task[t].key, store'[i].val # None,
                   task[t].key \notin overlap'
            PROVE  store'[i].val <= task[t].val
        <5>0. task[t].key \notin overlap
          BY <1>0, <2>3, <3>1, <4>3 DEF InRefresh
        <5>1. PICK m \in 1..Len(store) :
                store'[i].key = store[m].key /\ store'[i].val = store[m].val
          BY <1>4 DEF ValuesFromStore
        <5> QED BY <2>3, <3>1, <4>3, <5>0, <5>1 DEF Ordered
      <4> QED BY <3>1, <4>2, <4>3
    <3>2. CASE Answer(t) /\ task'[t].key = task[t].key
               /\ task'[t].val \in {cloud[task[t].key], None}
      <4>1. task[t].key \in Keys /\ task'[t].val = cloud[task'[t].key]
            /\ task'[t].key = task[t].key
        BY <2>3, <3>2 DEF Answer, CoordInv, CoordTypeOK
      <4>2. task'[t].val <= cloud'[task'[t].key]
        BY <1>3, <4>1
      <4> QED BY <2>2, <4>1, <4>2
    <3> QED BY <2>3, <3>1, <3>2, AnswersStep
  <2> QED BY <2>1, <2>2, <2>3 DEF Ordered
<1>5. ASSUME NEW t \in Tasks, Refreshed(t) PROVE Ordered' /\ NoOlder(store, store')
  <2> DEFINE k == task[t].key
             v == task[t].val
             e == [key |-> k, val |-> v, age |-> 0]
  <2>1. k \in Keys /\ v \in 0..MaxVersion \cup {None} /\ task[t].pc = "fetched"
    BY <1>1, <1>5 DEF Refreshed, CoordInv, CoordTypeOK, TaskRecord, Versions
  <2>2. \A i \in 1..Len(store') :
          \/ store'[i] = e
          \/ store'[i].key # k /\ \E j \in 1..Len(store) : store'[i] = store[j]
    BY <1>5, <2>1, StoredProperties DEF Refreshed, StoreInv, Versions
  <2>3. v # None =>
          /\ v <= cloud[k]
          /\ k \notin overlap =>
             \A i \in 1..Len(store) : store[i].key = k /\ store[i].val # None => store[i].val <= v
    BY <2>1 DEF Ordered
  <2>4. e.key = k /\ e.val = v
    OBVIOUS
  <2>5. UNCHANGED cloud
    BY <1>5 DEF Refreshed
  <2>6. ASSUME NEW u \in Tasks, task'[u].pc = "fetched"
        PROVE  /\ task'[u] = task[u] /\ task[u].key \in Keys
               /\ task[u].key \in overlap \cup {k} => task[u].key \in overlap'
    <3>1. task'[u] = task[u] \/ Answer(u)
      BY <2>6, AnswersStep
    <3>2. ~Answer(u)
      BY <1>1, <1>5, <2>6 DEF Answer, Refreshed, Finish, TaskRecord, Idle
    <3>3. u # t
      BY <1>5, <2>6 DEF Refreshed, Finish, Idle
    <3>4. InRefresh(t, k) /\ task[u].pc = "fetched" /\ task[u].key \in Keys
      BY <2>1, <2>6, <3>1, <3>2 DEF InRefresh, CoordInv, CoordTypeOK
    <3>5. task[u].key \in overlap \cup {k} => task[u].key \in overlap'
      <4> SUFFICES ASSUME task[u].key \in overlap \cup {k} PROVE task[u].key \in overlap'
        OBVIOUS
      <4>1. task[u].key \in overlap
        BY <2>1, <3>3, <3>4 DEF OneFetch, InRefresh
      <4> QED BY <1>0, <2>6, <3>1, <3>2, <4>1 DEF InRefresh
    <3> QED BY <3>1, <3>2, <3>4, <3>5
  <2> HIDE DEF k, v, e
  <2>7. NoOlder(store, store')
    <3> SUFFICES ASSUME NEW i \in 1..Len(store), NEW j \in 1..Len(store'),
                        store[i].key = store'[j].key, store[i].key \notin overlap,
                        store[i].val # None, store'[j].val # None
                 PROVE  store[i].val <= store'[j].val
      BY DEF NoOlder
    <3>1. CASE store'[j] = e
      BY <2>3, <2>4, <3>1
    <3>2. CASE store'[j] # e
      <4>1. PICK m \in 1..Len(store) : store'[j] = store[m]
        BY <2>2, <3>2
      <4>2. m = i
        BY <4>1 DEF StoreInv, StoreTypeOK, Distinct
      <4> QED BY <1>2, <4>1, <4>2
    <3> QED BY <3>1, <3>2
  <2>8. ASSUME NEW i \in 1..Len(store'), store'[i].val # None
        PROVE  store'[i].val <= cloud[store'[i].key]
    BY <2>2, <2>3, <2>4, <2>8 DEF Ordered
  <2>9. ASSUME NEW u \in Tasks, task'[u].pc = "fetched", task'[u].val # None
        PROVE  /\ task'[u].val <= cloud[task'[u].key]
               /\ task'[u].key \notin overlap' => \A i \in 1..Len(store') :
                    store'[i].key = task'[u].key /\ store'[i].val # None =>
                      store'[i].val <= task'[u].val
    BY <2>2, <2>4, <2>6, <2>9 DEF Ordered
  <2> QED BY <2>5, <2>7, <2>8, <2>9 DEF Ordered
<1> QED BY <1>4, <1>5, StoreNextInv

-----------------------------------------------------------------------------
(* The register behind each key *)

\* The store holds, for a key, the value of its one entry, or nothing.
HeldFacts ==
  /\ \A i \in 1..Len(store) : store[i].key \in Keys /\ Held[store[i].key] = store[i].val
  /\ \A k \in Keys : Held[k] = None \/ \E i \in 1..Len(store) : store[i].key = k

LEMMA HeldProperties == StoreInv => HeldFacts
<1> SUFFICES ASSUME StoreInv PROVE HeldFacts
  OBVIOUS
<1>1. /\ DOMAIN store = 1..Len(store)
      /\ \A i \in 1..Len(store) : store[i] \in EntrySet
      /\ Distinct(store)
  BY LenProperties, ElementOfSeq DEF StoreInv, StoreTypeOK
<1>2. ASSUME NEW i \in 1..Len(store)
      PROVE  store[i].key \in Keys /\ Held[store[i].key] = store[i].val
  <2>1. store[i].key \in Keys
    BY <1>1 DEF EntrySet
  <2>2. Cached(store[i].key)
    BY <1>1 DEF Cached
  <2>3. Position(store[i].key) = i
    BY <1>1, <2>2 DEF Cached, Position, Distinct
  <2> QED BY <2>1, <2>2, <2>3 DEF Held, Entry
<1>3. ASSUME NEW k \in Keys, Held[k] # None PROVE \E i \in 1..Len(store) : store[i].key = k
  BY <1>1, <1>3 DEF Held, Cached
<1> QED BY <1>2, <1>3 DEF HeldFacts

\* A value gives way to an older one only where fetches of its key overlap.
THEOREM GoesBackByRefresh == OverlapSpec => GoesBackOnlyInOverlap
<1>1. CoordInv /\ OneFetch /\ [OverlapNext]_overlapVars => OneFetch'
  BY OneFetchNext
<1>2. CoordInv /\ StoreInv /\ OneFetch /\ Ordered /\ [OverlapNext]_overlapVars => Ordered'
  <2>1. UNCHANGED overlapVars /\ Ordered => Ordered'
    BY DEF overlapVars, cacheVars, Ordered
  <2> QED BY <2>1, OrderedNext DEF OverlapNext
<1>3. OverlapInit => Ordered
  BY DEF OverlapInit, CacheInit, Ordered, Idle
<1>4. ASSUME CoordInv, StoreInv, OneFetch, Ordered, [OverlapNext]_overlapVars
      PROVE  [\A k \in Keys \ overlap :
                Held[k] # None /\ Held'[k] # None => Held[k] <= Held'[k]]_overlapVars
  <2> SUFFICES ASSUME OverlapNext, NEW k \in Keys \ overlap, Held[k] # None, Held'[k] # None
               PROVE  Held[k] <= Held'[k]
    BY <1>4
  <2>1. NoOlder(store, store') /\ StoreInv'
    BY <1>4, OrderedNext, StoreNextInv DEF OverlapNext
  <2>2. HeldFacts /\ HeldFacts'
    BY <1>4, <2>1, HeldProperties, PTL
  <2>3. PICK i \in 1..Len(store), j \in 1..Len(store') :
          store[i].key = k /\ store'[j].key = k
    BY <2>2 DEF HeldFacts
  <2>4. Held[k] = store[i].val /\ Held'[k] = store'[j].val
    BY <2>2, <2>3 DEF HeldFacts
  <2> QED BY <2>1, <2>3, <2>4 DEF NoOlder
<1> QED
  BY <1>1, <1>2, <1>3, <1>4, CacheInvariance, OneFetchInit, PTL
  DEF OverlapSpec, GoesBackOnlyInOverlap

\* A step that brings no value into the store leaves a key its value, or none.
LEMMA NoNewValue ==
  ASSUME StoreInv, StoreInv', ValuesFromStore(store')
  PROVE  \A k \in Keys : Held'[k] \in {Held[k], None}
<1>0. HeldFacts /\ HeldFacts'
  BY HeldProperties, PTL
<1> SUFFICES ASSUME NEW k \in Keys PROVE Held'[k] \in {Held[k], None}
  OBVIOUS
<1>1. CASE \E i \in 1..Len(store') : store'[i].key = k
  <2>1. PICK i \in 1..Len(store') : store'[i].key = k
    BY <1>1
  <2>2. Held'[k] = store'[i].val
    BY <1>0, <2>1 DEF HeldFacts
  <2>3. PICK j \in 1..Len(store) : store[j].key = k /\ store[j].val = store'[i].val
    BY <2>1 DEF ValuesFromStore
  <2> QED BY <1>0, <2>2, <2>3 DEF HeldFacts
<1>2. CASE ~\E i \in 1..Len(store') : store'[i].key = k
  BY <1>0, <1>2 DEF HeldFacts
<1> QED BY <1>1, <1>2

\* A step after which every key has the value it had, or none, forgets the
\* others.
LEMMA ForgetsKeys ==
  ASSUME \A k \in Keys : Held'[k] \in {Held[k], None},
         UNCHANGED <<cloud, Asked, Answered, overlap>>
  PROVE  Register!Next
<1> DEFINE lost == {k \in Keys : Held'[k] = None}
<1>1. Held' = [k \in Keys |-> IF k \in lost THEN None ELSE Held[k]]
  BY DEF Held
<1>2. lost \in SUBSET Keys
  OBVIOUS
<1> HIDE DEF lost
<1>3. Register!Forget(lost)
  BY <1>1 DEF Register!Forget
<1> QED BY <1>2, <1>3 DEF Register!Next

\* A missed key has no value any more, and the others have theirs.
LEMMA MissForgets ==
  ASSUME StoreInv, StoreInv', NEW c \in Callers, NEW k \in Keys, Miss(c, k)
  PROVE  Held' = [Held EXCEPT ![k] = None]
<1>1. StoreTypeOK /\ store' = AfterGetStale(k) /\ ~((Fresh(k) \/ Stale(k)) /\ HasValue(k))
  BY DEF StoreInv, Miss
<1>2. store' \in {store, Without(k)} \/ (Cached(k) /\ store' = MovedToEnd(k))
  BY <1>1 DEF AfterGetStale, Fresh
<1>3. /\ FromStore(store')
      /\ \A j \in 1..Len(store) : store[j].key # k => \E i \in 1..Len(store') : store'[i] = store[j]
  BY <1>1, <1>2, LookupProperties
<1>4. \A j \in Keys : Held'[j] \in {Held[j], None}
  BY <1>3, NoNewValue DEF ValuesFromStore, FromStore
<1>5. HeldFacts /\ HeldFacts'
  BY HeldProperties, PTL
<1>6. ASSUME NEW j \in Keys, j # k PROVE Held'[j] = Held[j]
  <2>1. CASE Held[j] = None
    BY <1>4, <2>1
  <2>2. CASE Held[j] # None
    <3>1. PICK i \in 1..Len(store) : store[i].key = j
      BY <1>5, <2>2 DEF HeldFacts
    <3>2. PICK m \in 1..Len(store') : store'[m] = store[i]
      BY <1>3, <1>6, <3>1
    <3> QED BY <1>5, <3>1, <3>2 DEF HeldFacts
  <2> QED BY <2>1, <2>2
<1>7. Held'[k] = None
  <2>1. CASE Fresh(k) \/ Stale(k)
    <3>1. Held[k] = None
      BY <1>1, <2>1 DEF HasValue, Held
    <3> QED BY <1>4, <3>1
  <2>2. CASE ~(Fresh(k) \/ Stale(k))
    <3>1. \A i \in 1..Len(Without(k)) : Without(k)[i].key # k
      BY <1>1, WithoutProperties
    <3>2. store' = Without(k)
      BY <1>1, <2>2 DEF AfterGetStale
    <3> QED BY <1>5, <3>1, <3>2 DEF HeldFacts
  <2> QED BY <2>1, <2>2
<1> QED BY <1>6, <1>7 DEF Held

\* A task is asked for what it fetches.
LEMMA AskedProperties ==
  ASSUME CoordInv, NEW k \in Keys
  PROVE  /\ \A t \in Tasks : Asked[t] = k <=> InRefresh(t, k)
         /\ Register!AskedFor(k) <=> \E t \in Tasks : InRefresh(t, k)
<1>1. None # k
  BY CacheAssumption
<1>2. \A t \in Tasks : Asked[t] = k <=> InRefresh(t, k)
  BY <1>1 DEF Asked, InRefresh
<1> QED BY <1>2 DEF Register!AskedFor, Register!Tasks, Tasks

\* Nothing changes for the register if no task enters, goes on in or leaves
\* _refresh.
LEMMA AskedStays ==
  ASSUME CoordInv, OneFetch, Overlap,
         \A t \in Tasks : \/ task'[t] = task[t]
                          \/ {task[t].pc, task'[t].pc} \cap {"fetching", "fetched"} = {}
  PROVE  UNCHANGED <<Asked, Answered, overlap>>
<1>1. Asked' = Asked /\ Answered' = Answered
  BY DEF Asked, Answered
<1>2. FetchersStay
  BY DEF FetchersStay, InRefresh
<1> QED BY <1>1, <1>2, OverlapSteps

\* Who leaves _refresh asks no more.
LEMMA FinishLeaves ==
  ASSUME CoordInv, OneFetch, Overlap, NEW t \in Tasks,
         task[t].pc \in {"fetching", "fetched"}, Finish(t), UNCHANGED cloud
  PROVE  Register!Leaves(t)
<1>1. /\ task'[t].pc = "idle"
      /\ \A u \in Tasks : u # t => \/ task'[u] = task[u]
                                   \/ task[u].pc = "waiting" /\ task'[u].pc = "woken"
  BY FinishRefresh
<1>2. Asked' = [Asked EXCEPT ![t] = None] /\ Answered' = [Answered EXCEPT ![t] = None]
  BY <1>1 DEF Asked, Answered
<1>3. overlap' = {k \in overlap : \E u \in Tasks \ {t} : InRefresh(u, k)}
  BY OverlapSteps
<1>4. \A k \in overlap : \A u \in Tasks : Asked[u] = k <=> InRefresh(u, k)
  BY AskedProperties DEF OneFetch
<1>5. overlap' = {k \in overlap : \E u \in Register!Tasks \ {t} : Asked[u] = k}
  BY <1>3, <1>4 DEF Register!Tasks, Tasks
<1> QED BY <1>2, <1>5 DEF Register!Leaves

\* Who fails or is cancelled drops its answer, if it has one.
LEMMA DropsAnswer ==
  ASSUME CoordInv, OneFetch, Overlap, NEW t \in Tasks,
         task[t].pc \in {"fetching", "fetched"}, Finish(t), UNCHANGED <<store, cloud>>
  PROVE  Register!Next
<1>1. Register!Leaves(t)
  BY FinishLeaves
<1>2. Held' = [k \in Keys |-> IF k \in {} THEN None ELSE Held[k]]
  BY DEF Held, Cached, Entry, Position
<1>3. Register!Drop(t, {})
  BY <1>1, <1>2 DEF Register!Drop
<1> QED BY <1>3 DEF Register!Next, Register!Tasks, Tasks

\* Storing an answer keeps it in the register, for one other key at the most, and
\* for none if the key was there.
LEMMA KeepsAnswer ==
  ASSUME CoordInv, StoreInv, OneFetch, Overlap, NEW t \in Tasks, Refreshed(t), StoreInv'
  PROVE  Register!Next
<1>0. PICK k, v : k = task[t].key /\ v = task[t].val
  OBVIOUS
<1>1. k \in Keys /\ v \in Versions \cup {None} /\ task[t].pc = "fetched" /\ UNCHANGED cloud
  BY <1>0 DEF Refreshed, CoordInv, CoordTypeOK, TaskRecord
<1>2. Asked[t] = k /\ Answered[t] = v
  BY <1>0, <1>1 DEF Asked, Answered
<1>3. Register!Leaves(t)
  BY <1>1, FinishLeaves DEF Refreshed
<1>4. /\ \E i \in 1..Len(store') : store'[i] = [key |-> k, val |-> v, age |-> 0]
      /\ \A i \in 1..Len(store') :
           \/ store'[i] = [key |-> k, val |-> v, age |-> 0]
           \/ store'[i].key # k /\ \E j \in 1..Len(store) : store'[i] = store[j]
      /\ \E lost \in Keys :
           /\ Cached(k) => lost = k
           /\ \A j \in 1..Len(store) :
                store[j].key \notin {k, lost} => \E i \in 1..Len(store') : store'[i] = store[j]
  <2>1. StoreTypeOK /\ Len(store) <= MaxSize
    BY DEF StoreInv
  <2>2. PICK s : s = Stored(k, v)
    OBVIOUS
  <2>3. /\ \E i \in 1..Len(s) : s[i] = [key |-> k, val |-> v, age |-> 0]
        /\ \A i \in 1..Len(s) :
             \/ s[i] = [key |-> k, val |-> v, age |-> 0]
             \/ s[i].key # k /\ \E j \in 1..Len(store) : s[i] = store[j]
        /\ \E lost \in Keys :
             /\ Cached(k) => lost = k
             /\ \A j \in 1..Len(store) :
                  store[j].key \notin {k, lost} => \E i \in 1..Len(s) : s[i] = store[j]
    BY <1>1, <2>1, <2>2, StoredProperties
  <2>4. store' = s
    BY <1>0, <2>2 DEF Refreshed
  <2> QED BY <2>3, <2>4
<1>5. HeldFacts /\ HeldFacts'
  BY HeldProperties, PTL
<1>6. Held'[k] = v
  BY <1>4, <1>5 DEF HeldFacts
<1>7. ASSUME NEW j \in Keys, j # k PROVE Held'[j] \in {Held[j], None}
  <2>1. CASE Held'[j] = None
    BY <2>1
  <2>2. CASE Held'[j] # None
    <3>1. PICK m \in 1..Len(store') : store'[m].key = j
      BY <1>5, <2>2 DEF HeldFacts
    <3>2. store'[m] # [key |-> k, val |-> v, age |-> 0]
      BY <1>7, <3>1
    <3>3. PICK i \in 1..Len(store) : store'[m] = store[i]
      BY <1>4, <3>2
    <3>4. Held'[j] = store[i].val /\ Held[j] = store[i].val
      BY <1>5, <3>1, <3>3 DEF HeldFacts
    <3> QED BY <3>4
  <2> QED BY <2>1, <2>2
<1>8. PICK lost \in Keys :
        /\ Cached(k) => lost = k
        /\ \A j \in 1..Len(store) :
             store[j].key \notin {k, lost} => \E i \in 1..Len(store') : store'[i] = store[j]
  BY <1>4
<1>9. ASSUME NEW j \in Keys, j \notin {k, lost} PROVE Held'[j] = Held[j]
  <2>1. CASE Held[j] = None
    BY <1>7, <1>9, <2>1
  <2>2. CASE Held[j] # None
    <3>1. PICK i \in 1..Len(store) : store[i].key = j
      BY <1>5, <2>2 DEF HeldFacts
    <3>2. PICK m \in 1..Len(store') : store'[m] = store[i]
      BY <1>8, <1>9, <3>1
    <3> QED BY <1>5, <3>1, <3>2 DEF HeldFacts
  <2> QED BY <2>1, <2>2
<1>10. CASE v # None
  <2>1. PICK gone \in Keys : gone = IF Held'[lost] = None THEN lost ELSE k
    BY <1>1
  <2>2. \A j \in Keys : Held'[j] = IF j = k THEN v ELSE IF j = gone THEN None ELSE Held[j]
    BY <1>6, <1>7, <1>9, <2>1
  <2>3. Held' = [j \in Keys |-> IF j = Asked[t] THEN Answered[t]
                               ELSE IF j = gone THEN None ELSE Held[j]]
    BY <1>2, <2>2 DEF Held
  <2>4. Held[Asked[t]] # None => gone = Asked[t]
    BY <1>1, <1>2, <1>8, <2>1 DEF Held
  <2>5. Register!Keep(t)
    BY <1>2, <1>3, <1>10, <2>3, <2>4 DEF Register!Keep
  <2> QED BY <2>5 DEF Register!Next, Register!Tasks, Tasks
<1>11. CASE v = None
  <2> DEFINE none == {j \in Keys : Held'[j] = None}
  <2>1. \A j \in Keys : Held'[j] \in {Held[j], None}
    BY <1>6, <1>7, <1>11
  <2>2. Held' = [j \in Keys |-> IF j \in none THEN None ELSE Held[j]]
    BY <2>1 DEF Held
  <2>3. none \in SUBSET Keys
    OBVIOUS
  <2> HIDE DEF none
  <2>4. Register!Drop(t, none)
    BY <1>2, <1>3, <1>11, <2>2 DEF Register!Drop
  <2> QED BY <2>3, <2>4 DEF Register!Next, Register!Tasks, Tasks
<1> QED BY <1>10, <1>11

\* The answer of a fetch is the one the register gives.
LEMMA TakesAnswer ==
  ASSUME CoordInv, OneFetch, Overlap, NEW t \in Tasks, Answer(t)
  PROVE  [Register!Next]_Register!registerVars
<1>0. PICK k : k = task[t].key
  OBVIOUS
<1>1. PICK v \in {cloud[k], None} : task' = [task EXCEPT ![t].pc = "fetched", ![t].val = v]
  BY <1>0 DEF Answer
<1>2. /\ k \in Keys /\ task[t].pc = "fetching" /\ task[t] \in TaskRecord
      /\ UNCHANGED <<store, inflight, cloud>>
  BY <1>0 DEF Answer, CoordInv, CoordTypeOK
<1>3. /\ task'[t].pc = "fetched" /\ task'[t].val = v /\ task'[t].key = k
      /\ \A u \in Tasks : u # t => task'[u] = task[u]
  BY <1>0, <1>1, <1>2 DEF CoordInv, CoordTypeOK, TaskRecord
<1>4. Asked[t] = k /\ Answered[t] = None /\ k # None
  BY <1>0, <1>2, CacheAssumption DEF Asked, Answered
<1>5. Asked' = Asked /\ Answered' = [Answered EXCEPT ![t] = v]
  BY <1>0, <1>2, <1>3 DEF Asked, Answered
<1>6. FetchersStay
  BY <1>0, <1>2, <1>3 DEF FetchersStay, InRefresh
<1>7. overlap' = overlap
  BY <1>6, OverlapSteps
<1>8. Held' = Held
  BY <1>2 DEF Held, Cached, Entry, Position
<1>9. CASE v = cloud[k]
  <2>1. Register!Answer(t)
    BY <1>2, <1>4, <1>5, <1>7, <1>8, <1>9 DEF Register!Answer
  <2> QED BY <2>1 DEF Register!Next, Register!Tasks, Tasks
<1>10. CASE v = None
  <2>1. Answered' = Answered
    BY <1>4, <1>5, <1>10 DEF Answered
  <2> QED BY <1>2, <1>5, <1>7, <1>8, <2>1 DEF Register!registerVars
<1> QED BY <1>9, <1>10

\* A caller that misses the key asks for it.
LEMMA LeadAsks ==
  ASSUME CoordInv, StoreInv, StoreInv', OneFetch, Overlap,
         NEW c \in Callers, NEW k \in Keys, Lead(c, k)
  PROVE  Register!Ask(c, k)
<1>1. /\ task \in [Tasks -> TaskRecord] /\ c \in Tasks /\ c # None
      /\ inflight \in [Keys -> Tasks \cup {None}] /\ \A t \in Tasks : t # None
  BY CacheAssumption DEF CoordInv, CoordTypeOK, Tasks
<1>2. /\ Miss(c, k) /\ inflight[k] = None /\ task[c].pc = "idle" /\ UNCHANGED cloud
      /\ task' = [task EXCEPT ![c] = [Idle EXCEPT !.pc = "fetching", !.key = k]]
      /\ inflight' = [inflight EXCEPT ![k] = c]
  BY DEF Lead, Miss
<1>3. task'[c].pc = "fetching" /\ task'[c].key = k /\ \A u \in Tasks : u # c => task'[u] = task[u]
  BY <1>1, <1>2 DEF Idle
<1>4. Asked[c] = None /\ Asked' = [Asked EXCEPT ![c] = k] /\ Answered' = Answered
  BY <1>1, <1>2, <1>3 DEF Asked, Answered
<1>5. Register!AskedFor(k) => k \in overlap
  BY <1>1, <1>2, AskedProperties DEF OneFetch
<1>6. Enters(c, k)
  BY <1>1, <1>2, <1>3 DEF Enters, InRefresh
<1>7. overlap' = overlap
  BY <1>6, OverlapSteps
<1>8. Held' = [Held EXCEPT ![k] = None]
  BY <1>2, MissForgets
<1> QED BY <1>2, <1>4, <1>5, <1>7, <1>8 DEF Register!Ask

\* A background task that starts asks in spite of whoever fetches.
LEMMA BeginAsks ==
  ASSUME CoordInv, OneFetch, Overlap, NEW b \in Refreshers, BeginRefresh(b)
  PROVE  Register!Next
<1>0. PICK k : k = task[b].key
  OBVIOUS
<1>1. /\ task \in [Tasks -> TaskRecord] /\ b \in Tasks /\ \A t \in Tasks : t # None
      /\ inflight \in [Keys -> Tasks \cup {None}]
  BY CacheAssumption DEF CoordInv, CoordTypeOK, Tasks
<1>2. /\ k \in Keys /\ task[b].pc = "scheduled" /\ UNCHANGED <<store, cloud>>
      /\ task' = [task EXCEPT ![b].pc = "fetching"]
      /\ inflight' = [inflight EXCEPT ![k] = b]
  BY <1>0, <1>1 DEF BeginRefresh, CoordInv, CoordTypeOK
<1>3. task'[b].pc = "fetching" /\ task'[b].key = k /\ \A u \in Tasks : u # b => task'[u] = task[u]
  BY <1>0, <1>1, <1>2 DEF TaskRecord
<1>4. Asked[b] = None /\ Asked' = [Asked EXCEPT ![b] = k] /\ Answered' = Answered
  <2>1. Asked[b] = None
    BY <1>1, <1>2 DEF Asked
  <2>2. Asked' = [Asked EXCEPT ![b] = k]
    BY <1>3 DEF Asked
  <2>3. Answered' = Answered
    BY <1>2, <1>3 DEF Answered
  <2> QED BY <2>1, <2>2, <2>3
<1>5. Enters(b, k)
  BY <1>1, <1>2, <1>3 DEF Enters, InRefresh
<1>6. overlap' = IF inflight[k] # None THEN overlap \cup {k} ELSE overlap
  BY <1>0, <1>5, OverlapSteps
<1>7. overlap' = IF Register!AskedFor(k) THEN overlap \cup {k} ELSE overlap
  <2>1. CASE inflight[k] # None
    <3>1. InRefresh(inflight[k], k) /\ inflight[k] \in Tasks
      BY <1>1, <1>2, <2>1 DEF CoordInv, InflightIsRunning
    <3> QED BY <1>2, <1>6, <2>1, <3>1, AskedProperties
  <2>2. CASE inflight[k] = None
    <3>1. Register!AskedFor(k) => k \in overlap
      BY <1>1, <1>2, <2>2, AskedProperties DEF OneFetch
    <3>2. overlap' = overlap
      BY <1>6, <2>2
    <3>3. Register!AskedFor(k) => overlap \cup {k} = overlap
      BY <3>1
    <3> QED BY <3>2, <3>3
  <2> QED BY <2>1, <2>2
<1>8. Held' = Held
  BY <1>2 DEF Held, Cached, Entry, Position
<1>9. Register!Refresh(b, k)
  BY <1>2, <1>4, <1>7, <1>8 DEF Register!Refresh
<1> QED BY <1>2, <1>9 DEF Register!Next

\* Every step of the cache is a step of the registers, or none.
LEMMA RegisterStep ==
  ASSUME CoordInv, StoreInv, OneFetch, [OverlapNext]_overlapVars
  PROVE  [Register!Next]_Register!registerVars
<1>0. CASE UNCHANGED overlapVars
  BY <1>0
  DEF overlapVars, cacheVars, Register!registerVars, Held, Cached, Entry, Position, Asked, Answered
<1> SUFFICES ASSUME CacheNext, Overlap PROVE [Register!Next]_Register!registerVars
  BY <1>0 DEF OverlapNext
<1>1. StoreInv'
  BY StoreNextInv
<1>2. Callers \subseteq Tasks /\ Refreshers \subseteq Tasks /\ task \in [Tasks -> TaskRecord]
  BY DEF Tasks, CoordInv, CoordTypeOK
<1>3. ASSUME ValuesFromStore(store'), UNCHANGED <<cloud, Asked, Answered, overlap>>
      PROVE  Register!Next
  BY <1>1, <1>3, NoNewValue, ForgetsKeys
<1>4. ASSUME UNCHANGED task PROVE UNCHANGED <<Asked, Answered, overlap>>
  BY <1>4, AskedStays
<1>5. ASSUME NEW t \in Tasks, NEW r, task' = [task EXCEPT ![t] = r],
             {task[t].pc, r.pc} \cap {"fetching", "fetched"} = {}
      PROVE  UNCHANGED <<Asked, Answered, overlap>>
  <2>1. \A u \in Tasks : task'[u] = IF u = t THEN r ELSE task[u]
    BY <1>2, <1>5
  <2> QED BY <1>5, <2>1, AskedStays
<1>6. ASSUME NEW c \in Callers, NEW k \in Keys, GetOrFetch(c, k), ValuesFromStore(store')
      PROVE  Register!Next
  <2>1. CASE HitFresh(c, k)
    BY <1>3, <1>4, <1>6, <2>1 DEF HitFresh
  <2>2. CASE HitStale(c, k)
    <3> DEFINE r == [Idle EXCEPT !.pc = "scheduled", !.key = k]
    <3>1. r.pc = "scheduled"
      BY DEF Idle
    <3>2. UNCHANGED cloud /\ (UNCHANGED task \/ \E b \in Refreshers :
            task[b].pc = "idle" /\ task' = [task EXCEPT ![b] = r])
      BY <2>2 DEF HitStale
    <3> HIDE DEF r
    <3> QED BY <1>2, <1>3, <1>4, <1>5, <1>6, <3>1, <3>2
  <2>3. CASE WaitForLeader(c, k)
    <3> DEFINE r == [Idle EXCEPT !.pc = "waiting", !.key = k, !.on = inflight[k]]
    <3>1. r.pc = "waiting"
      BY DEF Idle
    <3>2. task' = [task EXCEPT ![c] = r] /\ task[c].pc = "idle" /\ UNCHANGED cloud
      BY <2>3 DEF WaitForLeader, Miss
    <3> HIDE DEF r
    <3> QED BY <1>2, <1>3, <1>5, <1>6, <3>1, <3>2
  <2>4. CASE Lead(c, k)
    BY <1>1, <2>4, LeadAsks DEF Register!Next
  <2> QED BY <1>6, <2>1, <2>2, <2>3, <2>4 DEF GetOrFetch
<1>7. ASSUME NEW c \in Callers, task[c].pc \in {"waiting", "woken"},
             task' = [task EXCEPT ![c] = Idle], UNCHANGED cloud, ValuesFromStore(store')
      PROVE  Register!Next
  <2>1. Idle.pc = "idle"
    BY DEF Idle
  <2> QED BY <1>2, <1>3, <1>5, <1>7, <2>1
<1>8. ASSUME NEW c \in Callers, Resume(c), ValuesFromStore(store') PROVE Register!Next
  BY <1>7, <1>8 DEF Resume
<1>9. ASSUME NEW c \in Callers, CancelCaller(c), ValuesFromStore(store') PROVE Register!Next
  BY <1>2, <1>7, <1>9, DropsAnswer DEF CancelCaller
<1>10. ASSUME NEW t \in Tasks, RefreshStep(t) PROVE [Register!Next]_Register!registerVars
  <2>1. CASE Refreshed(t)
    BY <1>1, <2>1, KeepsAnswer
  <2>2. CASE RefreshFailed(t)
    BY <2>2, DropsAnswer DEF RefreshFailed
  <2>3. CASE Answer(t)
    BY <2>3, TakesAnswer
  <2> QED BY <1>10, <2>1, <2>2, <2>3 DEF RefreshStep
<1>11. ASSUME NEW k \in Keys, CloudChanges(k) PROVE Register!Next
  <2>1. Held' = Held
    BY <1>11 DEF CloudChanges, Held, Cached, Entry, Position
  <2>2. UNCHANGED <<Asked, Answered, overlap>>
    BY <1>4, <1>11 DEF CloudChanges
  <2>3. Register!Change(k)
    BY <1>11, <2>1, <2>2 DEF CloudChanges, Register!Change
  <2> QED BY <2>3 DEF Register!Next
<1>12. ASSUME UNCHANGED <<task, cloud>>, ValuesFromStore(store') PROVE Register!Next
  BY <1>3, <1>4, <1>12
<1>13. CASE \E t \in Tasks : Refreshed(t)
  BY <1>10, <1>13 DEF RefreshStep
<1>14. CASE ValuesFromStore(store')
  BY <1>6, <1>8, <1>9, <1>10, <1>11, <1>12, <1>14, BeginAsks
  DEF CacheNext, CallerStep, Delete, Clear, CacheTick
<1> QED BY <1>13, <1>14, StoreNextInv

\* An empty cache is an empty register for every key.
LEMMA RegisterInit == OverlapInit => Register!Init
<1> SUFFICES ASSUME OverlapInit PROVE Register!Init
  OBVIOUS
<1>1. \A k \in Keys : ~Cached(k)
  BY DEF OverlapInit, CacheInit, Cached
<1> QED
  BY <1>1 DEF OverlapInit, CacheInit, Idle, Held, Asked, Answered, Register!Init, Register!Tasks, Tasks

\* The cache implements a register per key, whatever its times and sizes and
\* whatever its callers, background tasks, evictions and deletions do.
THEOREM CacheIsRegister == OverlapSpec => KeepsRegister
<1>1. CoordInv /\ OneFetch /\ [OverlapNext]_overlapVars => OneFetch'
  BY OneFetchNext
<1>2. CoordInv /\ StoreInv /\ OneFetch /\ [OverlapNext]_overlapVars
        => [Register!Next]_Register!registerVars
  BY RegisterStep
<1> QED
  BY <1>1, <1>2, CacheInvariance, OneFetchInit, RegisterInit, PTL
  DEF OverlapSpec, KeepsRegister, Register!Spec
=============================================================================
