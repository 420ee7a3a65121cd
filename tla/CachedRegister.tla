---------------------------- MODULE CachedRegister ----------------------------
(***************************************************************************)
(* What the cache promises of each key, without Events, waiters, ages or   *)
(* the order of the entries: a register that holds what OpenStack has      *)
(* answered, or nothing.                                                   *)
(*                                                                         *)
(* A key is asked for by one task at a time, so that its value never goes  *)
(* back, until a background refresh asks in spite of another: from then on *)
(* the key is mixed, and stays so as long as anybody asks for it.          *)
(*                                                                         *)
(* A new value may push out one other key, but not if it takes the place   *)
(* of an old value.                                                        *)
(***************************************************************************)
EXTENDS Naturals

CONSTANTS Keys, None, Callers, Refreshers

VARIABLES
  cloud,         \* what OpenStack would answer now, per key
  cached,        \* the value held for the key, None if there is none
  asks,          \* the key a task asks for, None if it asks for none
  answer,        \* what it has been answered, None before or if that is nothing
  mixed          \* keys that are asked for in spite of another task

registerVars == <<cloud, cached, asks, answer, mixed>>

Tasks == Callers \cup Refreshers

AskedFor(k) == \E t \in Tasks : asks[t] = k

Init ==
  /\ cloud = [k \in Keys |-> 0]
  /\ cached = [k \in Keys |-> None]
  /\ asks = [t \in Tasks |-> None]
  /\ answer = [t \in Tasks |-> None]
  /\ mixed = {}

Change(k) ==
  /\ cloud' = [cloud EXCEPT ![k] = @ + 1]
  /\ UNCHANGED <<cached, asks, answer, mixed>>

\* Keys expire, are deleted, or are all cleared.
Forget(lost) ==
  /\ cached' = [k \in Keys |-> IF k \in lost THEN None ELSE cached[k]]
  /\ UNCHANGED <<cloud, asks, answer, mixed>>

\* A caller has missed the key, whose value, if there is one, has expired.
Ask(c, k) ==
  /\ asks[c] = None
  /\ AskedFor(k) => k \in mixed
  /\ asks' = [asks EXCEPT ![c] = k]
  /\ cached' = [cached EXCEPT ![k] = None]
  /\ UNCHANGED <<cloud, answer, mixed>>

Refresh(b, k) ==
  /\ asks[b] = None
  /\ asks' = [asks EXCEPT ![b] = k]
  /\ mixed' = IF AskedFor(k) THEN mixed \cup {k} ELSE mixed
  /\ UNCHANGED <<cloud, cached, answer>>

Answer(t) ==
  /\ asks[t] # None /\ answer[t] = None
  /\ answer' = [answer EXCEPT ![t] = cloud[asks[t]]]
  /\ UNCHANGED <<cloud, cached, asks, mixed>>

\* A task asks no more; a key for which it was the last is not mixed any more.
Leaves(t) ==
  /\ asks' = [asks EXCEPT ![t] = None]
  /\ answer' = [answer EXCEPT ![t] = None]
  /\ mixed' = {k \in mixed : \E u \in Tasks \ {t} : asks[u] = k}
  /\ UNCHANGED cloud

Keep(t) ==
  LET k == asks[t]
  IN  /\ answer[t] # None
      /\ \E lost \in Keys :
           /\ cached[k] # None => lost = k
           /\ cached' = [j \in Keys |-> IF j = k THEN answer[t]
                                        ELSE IF j = lost THEN None ELSE cached[j]]
      /\ Leaves(t)

\* The task fails or is cancelled, or was answered with nothing: that is kept
\* too, for which keys may have been lost.
Drop(t, lost) ==
  /\ answer[t] # None => lost = {}
  /\ cached' = [k \in Keys |-> IF k \in lost THEN None ELSE cached[k]]
  /\ Leaves(t)

Next ==
  \/ \E k \in Keys : Change(k)
  \/ \E lost \in SUBSET Keys : Forget(lost)
  \/ \E k \in Keys, c \in Callers : Ask(c, k)
  \/ \E k \in Keys, b \in Refreshers : Refresh(b, k)
  \/ \E t \in Tasks : Answer(t) \/ Keep(t)
  \/ \E t \in Tasks, lost \in SUBSET Keys : Drop(t, lost)

Spec == Init /\ [][Next]_registerVars
=============================================================================
