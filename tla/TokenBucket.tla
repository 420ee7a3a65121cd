------------------------------ MODULE TokenBucket ------------------------------
(***************************************************************************)
(* mcp_proxy/middleware.py: RateLimitMiddleware, one _TokenBucket for each *)
(* client address.  A bucket is brought up to date only when it is used.   *)
(*                                                                         *)
(* dispatch() takes the lock around code that does not suspend.  Time      *)
(* passes in ticks, and tokens are counted in the part of one that makes   *)
(* Rate a whole number, so a bucket may hold less than a request takes.  A *)
(* bucket that a defaultdict makes on first use is full, like one that has *)
(* long not been used.                                                     *)
(***************************************************************************)
EXTENDS Integers

CONSTANTS
  Clients,       \* client addresses
  Rate,          \* rate: what a bucket gains in a tick
  Capacity,      \* capacity
  Cost,          \* tokens: what a request takes
  MaxElapsed     \* ages stop here, where every bucket is full

ASSUME BucketAssumption ==
  /\ Rate \in Nat \ {0}
  /\ Capacity \in Nat \ {0}
  /\ Cost \in Nat \ {0}
  /\ MaxElapsed \in Nat /\ MaxElapsed * Rate >= Capacity

VARIABLES
  tokens,        \* per client: tokens
  elapsed,       \* per client: the time since _last
  excess         \* history, per client: tokens taken beyond what Rate allows,
                 \* in the window of time where they are most

bucketVars == <<tokens, elapsed, excess>>

BucketTypeOK ==
  /\ tokens \in [Clients -> 0..Capacity]
  /\ elapsed \in [Clients -> 0..MaxElapsed]
  /\ excess \in [Clients -> Nat]

BucketInit ==
  /\ tokens = [c \in Clients |-> Capacity]
  /\ elapsed = [c \in Clients |-> 0]
  /\ excess = [c \in Clients |-> 0]

Least(m, n) == IF m < n THEN m ELSE n
Positive(n) == IF n > 0 THEN n ELSE 0

\* Mutation: the bucket is not limited to its capacity.
RefilledUncapped(c) == tokens[c] + elapsed[c] * Rate

Refilled(c) == Least(Capacity, tokens[c] + elapsed[c] * Rate)

\* Mutation: _last is moved only when the request is refused.
AdmitKeepsLast(c) ==
  /\ Refilled(c) >= Cost
  /\ tokens' = [tokens EXCEPT ![c] = Refilled(c) - Cost]
  /\ excess' = [excess EXCEPT ![c] = @ + Cost]
  /\ UNCHANGED elapsed

Admit(c) ==
  /\ Refilled(c) >= Cost
  /\ tokens' = [tokens EXCEPT ![c] = Refilled(c) - Cost]
  /\ elapsed' = [elapsed EXCEPT ![c] = 0]
  /\ excess' = [excess EXCEPT ![c] = @ + Cost]

\* Mutation: _last is moved only when the request is let through.
RefuseKeepsLast(c) ==
  /\ Refilled(c) < Cost
  /\ tokens' = [tokens EXCEPT ![c] = Refilled(c)]
  /\ UNCHANGED <<elapsed, excess>>

Refuse(c) ==
  /\ Refilled(c) < Cost
  /\ tokens' = [tokens EXCEPT ![c] = Refilled(c)]
  /\ elapsed' = [elapsed EXCEPT ![c] = 0]
  /\ UNCHANGED excess

BucketTick ==
  /\ \E c \in Clients : elapsed[c] < MaxElapsed \/ excess[c] > 0
  /\ elapsed' = [c \in Clients |-> Least(MaxElapsed, elapsed[c] + 1)]
  /\ excess' = [c \in Clients |-> Positive(excess[c] - Rate)]
  /\ UNCHANGED tokens

-----------------------------------------------------------------------------
(* Properties *)

\* Over every window of time a client gets no more than Capacity tokens in
\* excess of Rate per tick, although its bucket is refilled only when used.
BurstIsBounded == \A c \in Clients : excess[c] <= Capacity

\* What consume() would find in each bucket now.
Level == [c \in Clients |-> Refilled(c)]

Eager == INSTANCE EagerBucket WITH level <- Level, owed <- excess

\* To bring a bucket up to date only when it is used, also when the request is
\* then refused, is to fill it in every tick: no token is lost, none is counted
\* twice, and nobody but its client empties it.
KeepsEagerBucket == Eager!Spec
=============================================================================
