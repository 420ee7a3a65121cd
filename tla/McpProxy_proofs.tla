---------------------------- MODULE McpProxy_proofs ----------------------------
(***************************************************************************)
(* Proofs about McpProxy, for any number of clients and upstreams, any rate*)
(* and any capacity: the rate limiter's bound, that it is a bucket filled  *)
(* in every tick, and the two promises of the round robin.                 *)
(***************************************************************************)
EXTENDS McpProxy, WellFoundedInduction, TLAPS

-----------------------------------------------------------------------------
(* The rate limiter *)

BucketNext == (\E c \in Clients : Admit(c) \/ Refuse(c)) \/ BucketTick

\* What has been admitted in excess and what may still be admitted at once fit
\* into the capacity together.
Headroom == \A c \in Clients : excess[c] + Refilled(c) <= Capacity

BucketInv == BucketTypeOK /\ Headroom

\* One tick adds Rate, up to the capacity, to what a bucket may be refilled to,
\* also where ages stop: there every bucket is full.
LEMMA TickRefill ==
  ASSUME NEW t \in 0..Capacity, NEW e \in 0..MaxElapsed
  PROVE  /\ Least(Capacity, t + e * Rate) \in 0..Capacity
         /\ Least(Capacity, t + Least(MaxElapsed, e + 1) * Rate) \in 0..Capacity
         /\ Least(Capacity, t + Least(MaxElapsed, e + 1) * Rate)
              = Least(Capacity, Least(Capacity, t + e * Rate) + Rate)
<1>1. Rate \in Nat /\ Capacity \in Nat /\ MaxElapsed \in Nat
  BY BucketAssumption
<1>2. e * Rate \in Nat /\ (e + 1) * Rate = e * Rate + Rate
  BY <1>1
<1>3. CASE e < MaxElapsed
  <2>1. Least(MaxElapsed, e + 1) = e + 1
    BY <1>1, <1>3 DEF Least
  <2> QED BY <2>1, <1>1, <1>2 DEF Least
<1>4. CASE e = MaxElapsed
  <2>1. Least(MaxElapsed, e + 1) = e
    BY <1>1, <1>4 DEF Least
  <2>2. e * Rate >= Capacity
    BY <1>4, BucketAssumption
  <2> QED BY <2>1, <2>2, <1>1, <1>2 DEF Least
<1> QED BY <1>1, <1>3, <1>4

\* Initially every bucket is full and nothing has been admitted.
LEMMA BucketInitOK == BucketInit => BucketInv
<1> SUFFICES ASSUME BucketInit PROVE BucketInv
  OBVIOUS
<1>1. Rate \in Nat /\ Capacity \in Nat /\ MaxElapsed \in Nat
  BY BucketAssumption
<1>3. 0 * Rate = 0
  BY <1>1
<1>2. \A c \in Clients : Refilled(c) = Capacity
  BY <1>1, <1>3 DEF BucketInit, Refilled, Least
<1> QED BY <1>1, <1>2 DEF BucketInit, BucketInv, BucketTypeOK, Headroom

\* Every step keeps the headroom.
LEMMA BucketStep == BucketInv /\ [BucketNext]_bucketVars => BucketInv'
<1> SUFFICES ASSUME BucketInv, [BucketNext]_bucketVars PROVE BucketInv'
  OBVIOUS
<1>0. Rate \in Nat /\ Capacity \in Nat /\ Cost \in Nat /\ MaxElapsed \in Nat
  BY BucketAssumption
<1>t. BucketTypeOK /\ Headroom
  BY DEF BucketInv
<1>r. \A c \in Clients : /\ tokens[c] \in 0..Capacity /\ elapsed[c] \in 0..MaxElapsed
                         /\ excess[c] \in Nat /\ Refilled(c) \in 0..Capacity
  BY <1>t, TickRefill DEF BucketTypeOK, Refilled
<1>1. ASSUME NEW c \in Clients, Admit(c) PROVE BucketInv'
  <2>1. BucketTypeOK'
    BY <1>0, <1>1, <1>t, <1>r DEF Admit, BucketTypeOK
  <2>2. Refilled(c)' = Refilled(c) - Cost /\ excess'[c] = excess[c] + Cost
    BY <1>0, <1>1, <1>t, <1>r DEF Admit, BucketTypeOK, Refilled, Least
  <2>3. ASSUME NEW d \in Clients, d # c PROVE Refilled(d)' = Refilled(d) /\ excess'[d] = excess[d]
    BY <1>1, <1>t, <2>3 DEF Admit, BucketTypeOK, Refilled
  <2>4. ASSUME NEW d \in Clients PROVE excess'[d] + Refilled(d)' <= Capacity
    <3>1. excess[d] + Refilled(d) <= Capacity /\ excess[c] + Refilled(c) <= Capacity
      BY <1>t DEF Headroom
    <3> QED BY <2>2, <2>3, <3>1, <1>0, <1>r
  <2> QED BY <2>1, <2>4 DEF BucketInv, Headroom
<1>2. ASSUME NEW c \in Clients, Refuse(c) PROVE BucketInv'
  <2>1. BucketTypeOK'
    BY <1>0, <1>2, <1>t, <1>r DEF Refuse, BucketTypeOK
  <2>2. \A d \in Clients : Refilled(d)' = Refilled(d)
    BY <1>0, <1>2, <1>t, <1>r DEF Refuse, BucketTypeOK, Refilled, Least
  <2> QED BY <2>1, <2>2, <1>2, <1>t DEF BucketInv, Headroom, Refuse
<1>3. CASE BucketTick
  <2>1. BucketTypeOK'
    BY <1>0, <1>3, <1>t, <1>r DEF BucketTick, BucketTypeOK, Least, Positive
  <2>2. ASSUME NEW d \in Clients PROVE excess'[d] + Refilled(d)' <= Capacity
    <3>1. /\ Refilled(d)' = Least(Capacity, tokens[d] + Least(MaxElapsed, elapsed[d] + 1) * Rate)
          /\ excess'[d] = Positive(excess[d] - Rate)
      BY <1>3, <1>t DEF BucketTick, BucketTypeOK, Refilled
    <3>2. /\ Refilled(d)' \in 0..Capacity
          /\ Refilled(d)' = Least(Capacity, Refilled(d) + Rate)
      BY <3>1, <1>r, TickRefill DEF Refilled
    <3>3. excess[d] + Refilled(d) <= Capacity
      BY <1>t DEF Headroom
    <3> QED BY <3>1, <3>2, <3>3, <1>0, <1>r DEF Positive, Least
  <2> QED BY <2>1, <2>2 DEF BucketInv, Headroom
<1>4. CASE UNCHANGED bucketVars
  BY <1>4, <1>t DEF BucketInv, BucketTypeOK, Headroom, Refilled, bucketVars
<1> QED BY <1>1, <1>2, <1>3, <1>4 DEF BucketNext

-----------------------------------------------------------------------------
(* The bucket that is filled in every tick *)

\* A full bucket is full either way.
LEMMA EagerInit == BucketInit => Eager!Init
<1> SUFFICES ASSUME BucketInit PROVE Eager!Init
  OBVIOUS
<1>1. Capacity \in Nat /\ 0 * Rate = 0
  BY BucketAssumption
<1>2. \A c \in Clients : Refilled(c) = Capacity
  BY <1>1 DEF BucketInit, Refilled, Least
<1> QED BY <1>2 DEF BucketInit, Eager!Init, Level

\* consume() with enough tokens takes them, with too few it does nothing to
\* what the bucket is worth, and the time that passes fills all buckets.
LEMMA EagerStep ==
  BucketInv /\ [BucketNext]_bucketVars => [Eager!Next]_(Eager!eagerVars)
<1> SUFFICES ASSUME BucketInv, [BucketNext]_bucketVars
             PROVE  [Eager!Next]_(Eager!eagerVars)
  OBVIOUS
<1>0. Rate \in Nat /\ Capacity \in Nat /\ Cost \in Nat /\ MaxElapsed \in Nat
  BY BucketAssumption
<1>t. BucketTypeOK
  BY DEF BucketInv
<1>r. \A c \in Clients : /\ tokens[c] \in 0..Capacity /\ elapsed[c] \in 0..MaxElapsed
                         /\ excess[c] \in Nat /\ Refilled(c) \in 0..Capacity
  BY <1>t, TickRefill DEF BucketTypeOK, Refilled
<1>z. 0 * Rate = 0
  BY <1>0
<1>1. ASSUME NEW c \in Clients, Admit(c) PROVE Eager!Take(c)
  <2>1. Refilled(c)' = Refilled(c) - Cost
    BY <1>0, <1>1, <1>t, <1>r, <1>z DEF Admit, BucketTypeOK, Refilled, Least
  <2>2. \A d \in Clients \ {c} : Refilled(d)' = Refilled(d)
    BY <1>1, <1>t DEF Admit, BucketTypeOK, Refilled
  <2>3. Level' = [Level EXCEPT ![c] = @ - Cost]
    BY <2>1, <2>2 DEF Level
  <2>4. Level[c] >= Cost /\ excess' = [excess EXCEPT ![c] = @ + Cost]
    BY <1>1 DEF Admit, Level
  <2> QED BY <2>3, <2>4 DEF Eager!Take
<1>2. ASSUME NEW c \in Clients, Refuse(c) PROVE UNCHANGED Eager!eagerVars
  <2>1. \A d \in Clients : Refilled(d)' = Refilled(d)
    BY <1>0, <1>2, <1>t, <1>r, <1>z DEF Refuse, BucketTypeOK, Refilled, Least
  <2>2. Level' = Level
    BY <2>1 DEF Level
  <2> QED BY <2>2, <1>2 DEF Refuse, Eager!eagerVars
<1>3. ASSUME BucketTick PROVE Eager!Tick
  <2>1. \A d \in Clients : Refilled(d)' = Least(Capacity, Refilled(d) + Rate)
    <3> SUFFICES ASSUME NEW d \in Clients
                 PROVE  Refilled(d)' = Least(Capacity, Refilled(d) + Rate)
      OBVIOUS
    <3>1. Refilled(d)' = Least(Capacity, tokens[d] + Least(MaxElapsed, elapsed[d] + 1) * Rate)
      BY <1>3, <1>t DEF BucketTick, BucketTypeOK, Refilled
    <3> QED BY <3>1, <1>r, TickRefill DEF Refilled
  <2>2. \A d \in Clients : Least(Capacity, Refilled(d) + Rate)
                             = IF Level[d] + Rate <= Capacity THEN Level[d] + Rate ELSE Capacity
    BY <1>0, <1>r DEF Level, Least
  <2>3. Level' = [c \in Clients |-> IF Level[c] + Rate <= Capacity THEN Level[c] + Rate
                                    ELSE Capacity]
    BY <2>1, <2>2 DEF Level
  <2>4. excess' = [c \in Clients |-> IF excess[c] >= Rate THEN excess[c] - Rate ELSE 0]
    BY <1>0, <1>3, <1>r DEF BucketTick, Positive
  <2> QED BY <2>3, <2>4 DEF Eager!Tick
<1>4. CASE UNCHANGED bucketVars
  BY <1>4 DEF bucketVars, Level, Refilled, Eager!eagerVars
<1> QED BY <1>1, <1>2, <1>3, <1>4 DEF BucketNext, Eager!Next

-----------------------------------------------------------------------------
(* The round robin *)

\* How many servers the cycle passes over before it comes to t.
Distance(t) == IF t >= next THEN t - next ELSE t + NumServers - next

\* Whoever has been healthy and waiting since s was picked comes before s.
WaitingComeFirst ==
  \A p \in ahead : healthy[p[2]] /\ Distance(p[2]) < Distance(p[1])

RouterInv == RouterTypeOK /\ WaitingComeFirst

\* Every set of numbers that is not empty has a least one.
LEMMA LeastExists ==
  ASSUME NEW T \in SUBSET Nat, T # {}
  PROVE  \E x \in T : \A y \in T : x <= y
<1> DEFINE R == {ss \in Nat \X Nat : ss[1] < ss[2]}
<1>1. IsWellFoundedOn(R, Nat)
  BY NatLessThanWellFounded DEF OpToRel
<1>2. PICK x \in T : \A y \in T : <<y, x>> \notin R
  BY <1>1, WFMin, Zenon
<1>3. ASSUME NEW y \in T PROVE x <= y
  <2>1. y \in Nat /\ x \in Nat /\ <<y, x>> \in Nat \X Nat
    OBVIOUS
  <2>2. ~(<<y, x>>[1] < <<y, x>>[2])
    BY <1>2, <2>1
  <2> QED BY <2>1, <2>2
<1> QED BY <1>3

\* Turn and Distance undo each other.
LEMMA TurnDistance ==
  ASSUME next \in Servers
  PROVE  /\ \A k \in 0..NumServers-1 : Turn(k) \in Servers /\ Distance(Turn(k)) = k
         /\ \A t \in Servers : Distance(t) \in 0..NumServers-1 /\ Turn(Distance(t)) = t
<1>1. NumServers \in Nat \ {0} /\ next \in 0..NumServers-1
  BY RouterAssumption DEF Servers
<1>2. \A x \in 0..NumServers-1 : x % NumServers = x
  BY <1>1
<1>3. \A x \in NumServers..2*NumServers-1 : x % NumServers = x - NumServers
  BY <1>1
<1>4. ASSUME NEW k \in 0..NumServers-1 PROVE Turn(k) \in Servers /\ Distance(Turn(k)) = k
  <2>1. CASE next + k < NumServers
    BY <1>1, <1>2, <2>1 DEF Turn, Distance, Servers
  <2>2. CASE next + k >= NumServers
    <3>1. Turn(k) = (next + k) - NumServers
      BY <1>1, <1>3, <2>2 DEF Turn
    <3> QED BY <3>1, <1>1, <2>2 DEF Distance, Servers
  <2> QED BY <2>1, <2>2, <1>1
<1>5. ASSUME NEW t \in Servers PROVE Distance(t) \in 0..NumServers-1 /\ Turn(Distance(t)) = t
  <2>1. CASE t >= next
    <3>1. next + Distance(t) = t /\ Distance(t) \in 0..NumServers-1
      BY <1>1, <2>1 DEF Distance, Servers
    <3> QED BY <3>1, <1>2 DEF Turn, Servers
  <2>2. CASE t < next
    <3>1. next + Distance(t) = t + NumServers /\ Distance(t) \in 0..NumServers-1
      BY <1>1, <2>2 DEF Distance, Servers
    <3>2. (t + NumServers) % NumServers = t
      BY <1>1, <1>3 DEF Servers
    <3> QED BY <3>1, <3>2 DEF Turn
  <2> QED BY <2>1, <2>2, <1>1 DEF Servers
<1> QED BY <1>4, <1>5

\* The search of pick(): it stops at the first healthy server of the cycle.
LEMMA SearchFindsFirst ==
  ASSUME next \in Servers, ~AllUnhealthy
  PROVE  /\ TurnsTaken \in 0..NumServers-1
         /\ healthy[Turn(TurnsTaken)]
         /\ \A j \in 0..TurnsTaken-1 : ~healthy[Turn(j)]
<1>1. NumServers \in Nat \ {0}
  BY RouterAssumption
<1> DEFINE H == {k \in 0..NumServers-1 : healthy[Turn(k)]}
<1>2. PICK s \in Servers : healthy[s]
  BY DEF AllUnhealthy
<1>3. Distance(s) \in H
  BY <1>2, TurnDistance
<1>4. H \in SUBSET Nat
  BY <1>1
<1>5. PICK k \in H : \A j \in H : k <= j
  BY <1>3, <1>4, LeastExists
<1>6. /\ k \in 0..NumServers-1 /\ healthy[Turn(k)]
      /\ \A j \in 0..k-1 : ~healthy[Turn(j)]
  <2>1. ASSUME NEW j \in 0..k-1, healthy[Turn(j)] PROVE FALSE
    <3>1. j \in H
      BY <1>1, <1>5, <2>1
    <3> QED BY <3>1, <1>1, <1>5, <2>1
  <2> QED BY <1>5, <2>1
<1>7. TurnsTaken = CHOOSE i \in 0..NumServers-1 :
                     healthy[Turn(i)] /\ \A j \in 0..i-1 : ~healthy[Turn(j)]
  BY DEF TurnsTaken
<1> QED BY <1>6, <1>7

\* Nobody is ahead of anybody at the start.
LEMMA RouterInitOK == RouterInit => RouterInv
  BY RouterAssumption DEF RouterInit, RouterInv, RouterTypeOK, WaitingComeFirst, Servers

\* What pick() returns, and where the cycle then is.
LEMMA PickOutcome ==
  ASSUME RouterTypeOK, Pick
  PROVE  /\ route' \in Servers /\ next' \in Servers
         /\ AllUnhealthy => next' = next
         /\ ~AllUnhealthy =>
              /\ healthy[route'] /\ next' = Turn(Distance(route') + 1)
              /\ \A t \in Servers : healthy[t] => Distance(route') <= Distance(t)
<1>1. NumServers \in Nat \ {0} /\ next \in Servers /\ next \in 0..NumServers-1
  BY RouterAssumption DEF RouterTypeOK, Servers
<1>2. CASE AllUnhealthy
  BY <1>1, <1>2 DEF Pick, Picked, TurnsTaken, Servers
<1>3. CASE ~AllUnhealthy
  <2>1. TurnsTaken \in 0..NumServers-1 /\ TurnsTaken # NumServers
    BY <1>1, <1>3, SearchFindsFirst
  <2>2. route' = Turn(TurnsTaken) /\ next' = Turn(TurnsTaken + 1)
    BY <2>1 DEF Pick, Picked
  <2>3. Distance(route') = TurnsTaken /\ route' \in Servers /\ healthy[route']
    BY <2>1, <2>2, <1>1, <1>3, TurnDistance, SearchFindsFirst
  <2>4. next' \in Servers
    <3>1. next + (TurnsTaken + 1) \in Nat
      BY <1>1, <2>1
    <3>2. \A x \in Nat : x % NumServers \in 0..NumServers-1
      BY <1>1
    <3> QED BY <3>1, <3>2, <2>2 DEF Turn, Servers
  <2>5. ASSUME NEW t \in Servers, healthy[t], Distance(t) < Distance(route') PROVE FALSE
    <3>1. Distance(t) \in 0..NumServers-1 /\ Turn(Distance(t)) = t
      BY <1>1, TurnDistance
    <3>2. Distance(t) \in 0..TurnsTaken-1
      BY <3>1, <2>1, <2>3, <2>5
    <3> QED BY <3>1, <3>2, <2>5, <1>1, <1>3, SearchFindsFirst
  <2>6. \A t \in Servers : Distance(t) \in 0..NumServers-1
    BY <1>1, TurnDistance
  <2> QED BY <2>2, <2>3, <2>4, <2>5, <2>6, <1>3
<1> QED BY <1>2, <1>3

\* Once the cycle has moved on to the server after r, what came after r is
\* nearer by one more than r was, and r itself is last.
LEMMA DistanceAfter ==
  ASSUME next \in Servers, NEW r \in Servers, next' = Turn(Distance(r) + 1)
  PROVE  /\ \A t \in Servers : Distance(t) > Distance(r) =>
               Distance(t)' = Distance(t) - (Distance(r) + 1)
         /\ Distance(r)' = NumServers - 1
         /\ \A t \in Servers \ {r} : Distance(t)' < NumServers - 1
<1>1. NumServers \in Nat \ {0} /\ next \in 0..NumServers-1 /\ r \in 0..NumServers-1
  BY RouterAssumption DEF Servers
<1>2. next' = IF r = NumServers - 1 THEN 0 ELSE r + 1
  <2>1. \A x \in 0..NumServers-1 : x % NumServers = x
    BY <1>1
  <2>2. \A x \in NumServers..2*NumServers-1 : x % NumServers = x - NumServers
    BY <1>1
  <2>3. next' = (next + (Distance(r) + 1)) % NumServers
    BY DEF Turn
  <2>4. CASE r >= next
    <3>1. next + (Distance(r) + 1) = r + 1
      BY <1>1, <2>4 DEF Distance
    <3>2. CASE r = NumServers - 1
      <4>1. r + 1 = NumServers /\ NumServers \in NumServers..2*NumServers-1
        BY <1>1, <3>2
      <4> QED BY <4>1, <3>1, <2>2, <2>3, <3>2, <1>1
    <3>3. CASE r # NumServers - 1
      BY <3>1, <3>3, <2>1, <2>3, <1>1
    <3> QED BY <3>2, <3>3
  <2>5. CASE r < next
    <3>1. next + (Distance(r) + 1) = (r + 1) + NumServers
      BY <1>1, <2>5 DEF Distance
    <3>2. (r + 1) + NumServers \in NumServers..2*NumServers-1
      BY <1>1, <2>5
    <3> QED BY <3>1, <3>2, <2>2, <2>3, <2>5, <1>1
  <2> QED BY <2>4, <2>5, <1>1
<1>3. \A t : Distance(t)' = IF t >= next' THEN t - next' ELSE t + NumServers - next'
  BY DEF Distance
<1>4. ASSUME NEW t \in Servers PROVE
        /\ Distance(t) > Distance(r) => Distance(t)' = Distance(t) - (Distance(r) + 1)
        /\ t # r => Distance(t)' < NumServers - 1
  BY <1>1, <1>2, <1>3 DEF Distance, Servers
<1> QED BY <1>1, <1>2, <1>3, <1>4

\* pick() keeps the order of those that wait.
LEMMA PickStep == RouterInv /\ Pick => RouterInv'
<1> SUFFICES ASSUME RouterInv, Pick PROVE RouterInv'
  OBVIOUS
<1>0. RouterTypeOK /\ WaitingComeFirst /\ next \in Servers
  BY DEF RouterInv, RouterTypeOK
<1>n. NumServers \in Nat \ {0} /\ \A t \in Servers : Distance(t) \in 0..NumServers-1
  BY <1>0, TurnDistance, RouterAssumption
<1>1. /\ healthy' = healthy /\ probing' = probing /\ up' = up
      /\ ahead' = {p \in ahead : p[2] # route'}
                    \cup {<<route', t>> : t \in {u \in Servers \ {route'} : healthy[u]}}
  BY DEF Pick, Picked
<1>2. route' \in Servers /\ next' \in Servers
  BY <1>0, PickOutcome
<1>3. ahead' \subseteq Servers \X Servers
  BY <1>0, <1>1, <1>2 DEF RouterTypeOK
<1>4. RouterTypeOK'
  BY <1>0, <1>1, <1>2, <1>3 DEF RouterTypeOK
<1>5. ASSUME NEW p \in ahead' PROVE healthy'[p[2]] /\ Distance(p[2])' < Distance(p[1])'
  <2>0. p[1] \in Servers /\ p[2] \in Servers
    BY <1>3, <1>5
  <2>1. CASE p \in ahead /\ p[2] # route'
    <3>1. healthy[p[2]] /\ Distance(p[2]) < Distance(p[1])
      BY <1>0, <2>1 DEF WaitingComeFirst
    <3>2. ~AllUnhealthy
      BY <3>1, <2>0 DEF AllUnhealthy
    <3>3. /\ next' = Turn(Distance(route') + 1)
          /\ Distance(route') <= Distance(p[2])
      BY <3>1, <3>2, <2>0, <1>0, PickOutcome
    <3>4. Distance(route') # Distance(p[2])
      BY <2>0, <2>1, <1>0, <1>2, TurnDistance
    <3>5. PICK r \in Servers : r = route'
      BY <1>2
    <3>6. /\ Distance(p[2])' = Distance(p[2]) - (Distance(r) + 1)
          /\ Distance(p[1])' = Distance(p[1]) - (Distance(r) + 1)
      <4>1. Distance(p[2]) > Distance(r) /\ Distance(p[1]) > Distance(r)
        BY <3>1, <3>3, <3>4, <3>5, <2>0, <1>n
      <4> QED BY <4>1, <3>3, <3>5, <2>0, <1>0, DistanceAfter
    <3> QED BY <3>1, <3>6, <2>0, <1>1, <1>n
  <2>2. CASE \E t \in Servers \ {route'} : healthy[t] /\ p = <<route', t>>
    <3>1. PICK t \in Servers \ {route'} : healthy[t] /\ p = <<route', t>>
      BY <2>2
    <3>2. PICK r \in Servers : r = route'
      BY <1>2
    <3>3. next' = Turn(Distance(r) + 1)
      BY <3>1, <3>2, <1>0, PickOutcome DEF AllUnhealthy
    <3>4. Distance(r)' = NumServers - 1 /\ Distance(t)' < NumServers - 1
      BY <3>1, <3>2, <3>3, <1>0, DistanceAfter
    <3>5. p[1] = r /\ p[2] = t
      BY <3>1, <3>2
    <3>6. healthy'[p[2]]
      BY <3>1, <3>5, <1>1
    <3>7. Distance(p[2])' = Distance(t)' /\ Distance(p[1])' = Distance(r)'
      BY <3>5
    <3> QED BY <3>4, <3>6, <3>7
  <2> QED BY <1>1, <1>5, <2>1, <2>2
<1> QED BY <1>4, <1>5 DEF RouterInv, WaitingComeFirst

\* Neither do the health checks disturb it: they change no position, and take
\* out whom they find unhealthy.
LEMMA HealthStepOK == RouterInv /\ HealthStep => RouterInv'
<1> SUFFICES ASSUME RouterInv, HealthStep PROVE RouterInv'
  OBVIOUS
<1>0. RouterTypeOK /\ WaitingComeFirst
  BY DEF RouterInv
<1>1. CASE BeginRound
  BY <1>0, <1>1 DEF BeginRound, RouterInv, RouterTypeOK, WaitingComeFirst, Distance
<1>2. ASSUME NEW s \in Servers, Checked(s) PROVE RouterInv'
  <2>1. RouterTypeOK'
    BY <1>0, <1>2 DEF Checked, RouterTypeOK
  <2>2. \A t : Distance(t)' = Distance(t)
    BY <1>2 DEF Checked, Distance
  <2>3. ASSUME NEW p \in ahead' PROVE p \in ahead /\ healthy'[p[2]]
    <3>1. p \in ahead /\ (s \notin up => p[2] # s)
      BY <1>2, <2>3 DEF Checked
    <3>2. healthy[p[2]] /\ p[2] \in Servers
      BY <3>1, <1>0 DEF WaitingComeFirst, RouterTypeOK
    <3> QED BY <3>1, <3>2, <1>0, <1>2 DEF Checked, RouterTypeOK
  <2>4. WaitingComeFirst'
    BY <2>2, <2>3, <1>0 DEF WaitingComeFirst
  <2> QED BY <2>1, <2>4 DEF RouterInv
<1> QED BY <1>1, <1>2 DEF HealthStep

-----------------------------------------------------------------------------
(* The proxy *)

ProxyInv == BucketInv /\ RouterInv /\ session \in [Clients -> Servers \cup {None}]

\* The initial states, for any set of upstreams that are up.
LEMMA ProxyInitOK == ProxyInit => ProxyInv
  BY BucketInitOK, RouterInitOK DEF ProxyInit, ProxyInv

\* Every step of the proxy is one of its limiter, of its router, or of both.
LEMMA ProxyStep == ProxyInv /\ [ProxyNext]_proxyVars => ProxyInv'
<1> SUFFICES ASSUME ProxyInv, [ProxyNext]_proxyVars PROVE ProxyInv'
  OBVIOUS
<1>0. BucketInv /\ RouterInv /\ RouterTypeOK /\ session \in [Clients -> Servers \cup {None}]
  BY DEF ProxyInv, RouterInv
<1>1. ASSUME UNCHANGED bucketVars PROVE BucketInv'
  BY <1>0, <1>1, BucketStep
<1>2. ASSUME UNCHANGED routerVars PROVE RouterInv'
  BY <1>0, <1>2 DEF routerVars, RouterInv, RouterTypeOK, WaitingComeFirst, Distance
<1>3. ASSUME NEW c \in Clients, Forwarded(c) PROVE BucketInv' /\ RouterInv' /\ route' \in Servers
  BY <1>0, <1>3, BucketStep, PickStep, PickOutcome DEF Forwarded, BucketNext
<1>4. ASSUME NEW c \in Clients, Open(c) \/ Call(c) \/ Close(c) PROVE ProxyInv'
  BY <1>0, <1>3, <1>4 DEF Open, Call, Close, ProxyInv
<1>5. ASSUME NEW c \in Clients, TooMany(c) PROVE ProxyInv'
  <2>1. BucketInv'
    BY <1>0, <1>5, BucketStep DEF TooMany, BucketNext
  <2> QED BY <2>1, <1>0, <1>2, <1>5 DEF TooMany, ProxyInv
<1>6. ASSUME NEW s \in Servers, UpstreamStops(s) \/ UpstreamStarts(s) PROVE ProxyInv'
  <2>1. BucketInv'
    BY <1>1, <1>6 DEF UpstreamStops, UpstreamStarts
  <2>2. RouterInv'
    BY <1>0, <1>6 DEF UpstreamStops, UpstreamStarts, RouterInv, RouterTypeOK, WaitingComeFirst, Distance
  <2>3. session' \in [Clients -> Servers \cup {None}]
    BY <1>0, <1>6 DEF UpstreamStops, UpstreamStarts
  <2> QED BY <2>1, <2>2, <2>3 DEF ProxyInv
<1>7. CASE HealthStep /\ UNCHANGED <<bucketVars, session>>
  BY <1>0, <1>1, <1>7, HealthStepOK DEF ProxyInv
<1>8. CASE BucketTick /\ UNCHANGED <<routerVars, session>>
  BY <1>0, <1>2, <1>8, BucketStep DEF BucketNext, ProxyInv
<1>9. CASE UNCHANGED proxyVars
  BY <1>0, <1>1, <1>2, <1>9 DEF proxyVars, ProxyInv
<1> QED BY <1>4, <1>5, <1>6, <1>7, <1>8, <1>9 DEF ProxyNext

LEMMA ProxyInvHolds == ProxySpec => []ProxyInv
  BY ProxyInitOK, ProxyStep, PTL DEF ProxySpec

\* The proxy keeps its types: no bucket above its capacity, and no server but
\* those that are configured.
THEOREM ProxyTypeCorrect == ProxySpec => []ProxyTypeOK
<1>1. ProxyInv => ProxyTypeOK
  BY DEF ProxyInv, BucketInv, RouterInv, ProxyTypeOK
<1> QED BY <1>1, ProxyInvHolds, PTL

\* _TokenBucket.consume gives no client more than Capacity tokens in excess
\* of Rate per tick, over every window of time.
THEOREM BurstBounded == ProxySpec => []BurstIsBounded
<1>1. ProxyInv => BurstIsBounded
  <2> SUFFICES ASSUME ProxyInv, NEW c \in Clients PROVE excess[c] <= Capacity
    BY DEF BurstIsBounded
  <2>1. Refilled(c) \in 0..Capacity
    BY TickRefill DEF ProxyInv, BucketInv, BucketTypeOK, Refilled
  <2> QED BY <2>1, BucketAssumption DEF ProxyInv, BucketInv, BucketTypeOK, Headroom
<1> QED BY <1>1, ProxyInvHolds, PTL

\* The limiter that looks at a bucket only when its client calls is, for every
\* client, the bucket that is filled in every tick.
THEOREM LazyIsEager == ProxySpec => KeepsEagerBucket
<1>1. ProxyInit => Eager!Init
  BY EagerInit DEF ProxyInit
<1>2. ProxyNext => [BucketNext]_bucketVars
  BY DEF ProxyNext, BucketNext, Open, Call, Close, Forwarded, TooMany, UpstreamStops,
         UpstreamStarts
<1>3. ProxyInv /\ [ProxyNext]_proxyVars => [Eager!Next]_(Eager!eagerVars)
  BY <1>2, EagerStep DEF ProxyInv, proxyVars, bucketVars
<1> QED BY <1>1, <1>3, ProxyInvHolds, PTL DEF ProxySpec, KeepsEagerBucket, Eager!Spec

\* pick() returns a server that is not healthy only when none is.
THEOREM HealthyFirst == ProxySpec => PickPrefersHealthy
<1>1. ProxyInv /\ [ProxyNext]_proxyVars =>
        [Pick => healthy[route'] \/ AllUnhealthy]_routerVars
  BY PickOutcome DEF ProxyInv, RouterInv
<1> QED BY <1>1, ProxyInvHolds, PTL DEF ProxySpec, PickPrefersHealthy

\* pick() takes no server twice while another one that is healthy all the time
\* waits for its turn.
THEOREM NobodyPassedOver == ProxySpec => NobodyIsPassedOver
<1>1. ProxyInv /\ Pick => \A t \in Servers : healthy[t] => <<route', t>> \notin ahead
  <2> SUFFICES ASSUME ProxyInv, Pick, NEW t \in Servers, healthy[t], <<route', t>> \in ahead
               PROVE FALSE
    OBVIOUS
  <2>0. RouterTypeOK /\ next \in Servers /\ NumServers \in Nat
    BY RouterAssumption DEF ProxyInv, RouterInv, RouterTypeOK
  <2>1. Distance(t) < Distance(route')
    BY DEF ProxyInv, RouterInv, WaitingComeFirst
  <2>2. route' \in Servers /\ Distance(route') <= Distance(t)
    BY <2>0, PickOutcome DEF AllUnhealthy
  <2>3. Distance(t) \in 0..NumServers-1 /\ Distance(route') \in 0..NumServers-1
    BY <2>0, <2>2, TurnDistance
  <2> QED BY <2>0, <2>1, <2>2, <2>3
<1>2. ProxyInv /\ [ProxyNext]_proxyVars =>
        [Pick => \A t \in Servers : healthy[t] => <<route', t>> \notin ahead]_routerVars
  BY <1>1
<1> QED BY <1>2, ProxyInvHolds, PTL DEF ProxySpec, NobodyIsPassedOver
=============================================================================
