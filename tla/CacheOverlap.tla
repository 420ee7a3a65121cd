------------------------------ MODULE CacheOverlap ------------------------------
(***************************************************************************)
(* AsyncTTLCache with a history variable, for what is left of "ayni key    *)
(* icin tek fetch" (core/cache.py:6) with stale-while-revalidate: a        *)
(* background refresh is created when nobody fetches its key and starts    *)
(* later, when somebody may.                                               *)
(***************************************************************************)
EXTENDS AsyncTTLCache

VARIABLE
  overlap        \* history: keys whose refresh began in spite of another fetch

overlapVars == <<cacheVars, overlap>>

OverlapInit == CacheInit /\ overlap = {}

\* create_task's coroutine starts, and finds an Event registered for its key.
BeginsLate(b, k) ==
  task[b].pc = "scheduled" /\ InRefresh(b, k)' /\ inflight[k] # None

\* A key stays in overlap until nobody fetches it any more.
Overlap ==
  overlap' = {k \in Keys : /\ k \in overlap \/ \E b \in Refreshers : BeginsLate(b, k)
                           /\ \E t \in Tasks : InRefresh(t, k)'}

OverlapNext == CacheNext /\ Overlap

OverlapSpec == OverlapInit /\ [][OverlapNext]_overlapVars

Held == [k \in Keys |-> IF Cached(k) THEN Entry(k).val ELSE None]

-----------------------------------------------------------------------------
(* Properties *)

\* "Stampede korumasi: ayni key icin tek fetch, digerleri bekler" does not hold
\* (core/cache.py:6).  What does: two tasks fetch one key at once only if a
\* background refresh began after another fetch of the key, or while such a pair
\* has not come to its end.  Misses alone, whatever fails or is cancelled between
\* them, never double a fetch.
OnlyRefreshesOverlap ==
  \A t, u \in Tasks, k \in Keys :
    InRefresh(t, k) /\ InRefresh(u, k) => t = u \/ k \in overlap

\* A fetch stores what OpenStack answered a while ago.  It puts an older value in
\* the place of a newer one only if fetches of the key overlap in that way,
\* whatever has been evicted, deleted or fetched again since it began.
GoesBackOnlyInOverlap ==
  [][\A k \in Keys \ overlap :
       Held[k] # None /\ Held'[k] # None => Held[k] <= Held'[k]]_overlapVars

-----------------------------------------------------------------------------
(* Refinement: every key is a register *)

Asked ==
  [t \in Tasks |-> IF task[t].pc \in {"fetching", "fetched"} THEN task[t].key ELSE None]

Answered == [t \in Tasks |-> IF task[t].pc = "fetched" THEN task[t].val ELSE None]

Register == INSTANCE CachedRegister
              WITH cached <- Held, asks <- Asked, answer <- Answered, mixed <- overlap

\* Coroutines, Events, evictions, deletions and cancellations come to a register
\* per key: it takes what OpenStack has answered and nothing else, gives up one
\* other key for a new one and none for a key it has, and goes back to an older
\* value only while overlapping fetches of the key come to their end.
KeepsRegister == Register!Spec
=============================================================================
