--------------------------- MODULE ProxyTunnel_proofs ---------------------------
(***************************************************************************)
(* Proofs about ProxyTunnel, for any number of requests and connections.   *)
(*                                                                         *)
(* OnlyDropsLeak needs to know who is in the queue: everybody whose        *)
(* request waits, once.  Then whoever is at its head holds nothing yet,    *)
(* and a connection that is handed over gets a new holder (CountKept).     *)
(***************************************************************************)
EXTENDS ProxyTunnel, SequenceTheorems, FiniteSetTheorems, TLAPS

States == {"idle", "body", "queued", "sent", "answered", "streaming"}
Holding == {"sent", "answered", "streaming"}

PcOK ==
  /\ pc \in [Requests -> States]
  /\ gone \subseteq {r \in Tunnels : pc[r] # "idle"}
  /\ busy \in 0..Limit /\ dropped \in Nat

\* The queue holds each request that waits for a connection, once.
QueueOK ==
  /\ queue \in Seq(Requests)
  /\ \A i, j \in 1..Len(queue) : queue[i] = queue[j] => i = j
  /\ \A r \in Requests : pc[r] = "queued" <=> \E i \in 1..Len(queue) : queue[i] = r

TunnelInv == PcOK /\ QueueOK /\ OnlyDropsLeak

-----------------------------------------------------------------------------
(* The connections and their holders *)

\* There are finitely many holders.
LEMMA HoldersFinite == IsFiniteSet(Holders) /\ Cardinality(Holders) \in Nat
BY TunnelAssumption, FS_Subset, FS_CardinalityType DEF Holders

\* A request that changes to a state of the same kind leaves the count alone.
LEMMA CountSame ==
  ASSUME PcOK, NEW r \in Requests, NEW v \in States,
         pc' = [pc EXCEPT ![r] = v], pc[r] \in Holding <=> v \in Holding
  PROVE  Cardinality(Holders)' = Cardinality(Holders)
<1>1. Holders' = Holders
  BY DEF Holders, Holding, PcOK
<1> QED BY <1>1

\* A request that takes a connection adds one to the count.
LEMMA CountTaken ==
  ASSUME PcOK, NEW r \in Requests, pc' = [pc EXCEPT ![r] = "sent"], pc[r] \notin Holding
  PROVE  Cardinality(Holders)' = Cardinality(Holders) + 1
<1>1. Holders' = Holders \cup {r} /\ r \notin Holders
  BY DEF Holders, Holding, PcOK
<1>2. Cardinality(Holders \cup {r}) = Cardinality(Holders) + 1
  BY <1>1, HoldersFinite, FS_AddElement
<1> QED BY <1>1, <1>2

\* A request that ends and wakes nobody takes one from the count.
LEMMA CountReturned ==
  ASSUME PcOK, NEW r \in Requests, pc' = [pc EXCEPT ![r] = "idle"], pc[r] \in Holding
  PROVE  Cardinality(Holders)' = Cardinality(Holders) - 1
<1>1. Holders' = Holders \ {r} /\ r \in Holders
  BY DEF Holders, Holding, PcOK
<1>2. Cardinality(Holders \ {r}) = Cardinality(Holders) - 1
  BY <1>1, HoldersFinite, FS_RemoveElement
<1> QED BY <1>1, <1>2

\* A connection that is handed over has one holder as before.
LEMMA CountKept ==
  ASSUME PcOK, NEW r \in Requests, NEW h \in Requests, h # r,
         pc[r] \in Holding, pc[h] \notin Holding,
         pc' = [q \in Requests |-> IF q = r THEN "idle" ELSE IF q = h THEN "sent" ELSE pc[q]]
  PROVE  Cardinality(Holders)' = Cardinality(Holders)
<1>1. Holders' = (Holders \ {r}) \cup {h} /\ r \in Holders /\ h \notin Holders \ {r}
  BY DEF Holders, Holding, PcOK
<1>2. IsFiniteSet(Holders \ {r}) /\ Cardinality(Holders \ {r}) = Cardinality(Holders) - 1
  BY <1>1, HoldersFinite, FS_RemoveElement
<1>3. Cardinality((Holders \ {r}) \cup {h}) = Cardinality(Holders \ {r}) + 1
  BY <1>1, <1>2, FS_AddElement
<1> QED BY <1>1, <1>2, <1>3, HoldersFinite

-----------------------------------------------------------------------------
(* The queue *)

\* Taking out one position leaves the others in order.
LEMMA RemoveAtProperties ==
  ASSUME NEW S, NEW s \in Seq(S), NEW p \in 1..Len(s)
  PROVE  /\ RemoveAt(s, p) \in Seq(S)
         /\ Len(RemoveAt(s, p)) = Len(s) - 1
         /\ \A i \in 1..Len(s)-1 : RemoveAt(s, p)[i] = IF i < p THEN s[i] ELSE s[i + 1]
<1> DEFINE l == SubSeq(s, 1, p - 1)
           r == SubSeq(s, p + 1, Len(s))
<1>1. Len(s) \in Nat /\ \A i \in 1..Len(s) : s[i] \in S
  BY LenProperties, ElementOfSeq
<1>2. /\ l \in Seq(S) /\ Len(l) = p - 1
      /\ \A i \in 1..p-1 : l[i] = s[i]
  <2>1. (\A i \in 1..p-1 : s[i] \in S) /\ p - 1 \in Int /\ 1 \in Int
    BY <1>1
  <2>2. /\ l \in Seq(S)
        /\ Len(l) = IF 1 <= p - 1 THEN (p - 1) - 1 + 1 ELSE 0
        /\ \A i \in 1..(p - 1) - 1 + 1 : l[i] = s[1 + i - 1]
    BY <2>1, SubSeqProperties
  <2> QED BY <1>1, <2>2
<1>3. /\ r \in Seq(S) /\ Len(r) = Len(s) - p
      /\ \A i \in 1..Len(s)-p : r[i] = s[p + i]
  <2>1. (\A i \in p+1..Len(s) : s[i] \in S) /\ p + 1 \in Int /\ Len(s) \in Int
    BY <1>1
  <2>2. /\ r \in Seq(S)
        /\ Len(r) = IF p + 1 <= Len(s) THEN Len(s) - (p + 1) + 1 ELSE 0
        /\ \A i \in 1..Len(s) - (p + 1) + 1 : r[i] = s[(p + 1) + i - 1]
    BY <2>1, SubSeqProperties
  <2> HIDE DEF r
  <2>3. ASSUME NEW i \in 1..Len(s) - p PROVE r[i] = s[p + i]
    <3>1. i \in 1..Len(s) - (p + 1) + 1 /\ (p + 1) + i - 1 = p + i
      BY <1>1
    <3>2. r[i] = s[(p + 1) + i - 1]
      BY <2>2, <3>1
    <3> QED BY <3>1, <3>2
  <2>4. Len(r) = Len(s) - p
    BY <1>1, <2>2
  <2> QED BY <2>2, <2>3, <2>4
<1> HIDE DEF l, r
<1>4. RemoveAt(s, p) = l \o r
  BY DEF RemoveAt, l, r
<1>5. /\ l \o r \in Seq(S)
      /\ Len(l \o r) = Len(l) + Len(r)
      /\ \A i \in 1..Len(l) + Len(r) : (l \o r)[i] = IF i <= Len(l) THEN l[i] ELSE r[i - Len(l)]
  BY <1>2, <1>3, ConcatProperties
<1>6. Len(RemoveAt(s, p)) = Len(s) - 1
  BY <1>1, <1>2, <1>3, <1>4, <1>5
<1>7. ASSUME NEW i \in 1..Len(s)-1
      PROVE  RemoveAt(s, p)[i] = IF i < p THEN s[i] ELSE s[i + 1]
  <2>1. (l \o r)[i] = IF i <= p - 1 THEN l[i] ELSE r[i - (p - 1)]
    BY <1>1, <1>2, <1>3, <1>5
  <2>2. CASE i < p
    BY <1>1, <1>2, <1>4, <2>1, <2>2
  <2>3. CASE ~(i < p)
    <3>1. i - (p - 1) \in 1..Len(s)-p /\ p + (i - (p - 1)) = i + 1
      BY <1>1, <2>3
    <3> QED BY <1>1, <1>3, <1>4, <2>1, <2>3, <3>1
  <2> QED BY <2>2, <2>3
<1> QED BY <1>4, <1>5, <1>6, <1>7

\* A request that neither waits nor begins to wait leaves the queue right.
LEMMA QueueSame ==
  ASSUME PcOK, QueueOK, NEW r \in Requests, NEW v \in States \ {"queued"}, pc[r] # "queued",
         pc' = [pc EXCEPT ![r] = v], UNCHANGED queue
  PROVE  QueueOK'
BY DEF PcOK, QueueOK

\* A request that asks for a connection gets one or is last in the queue.
LEMMA AskInv ==
  ASSUME TunnelInv, NEW r \in Requests, pc[r] \in {"idle", "body"}, AskConnection(r),
         UNCHANGED <<gone, dropped>>, r \in Tunnels => pc[r] # "idle"
  PROVE  TunnelInv'
<1>1. CASE Full
  <2>1. /\ pc' = [pc EXCEPT ![r] = "queued"] /\ queue' = Append(queue, r)
        /\ UNCHANGED busy
    BY <1>1 DEF AskConnection
  <2>2. PcOK'
    BY <2>1 DEF TunnelInv, PcOK, States
  <2>3. Cardinality(Holders)' = Cardinality(Holders)
    BY <2>1, CountSame DEF TunnelInv, Holding, States
  <2>4. OnlyDropsLeak'
    BY <2>1, <2>3 DEF TunnelInv, OnlyDropsLeak
  <2>5. /\ queue' \in Seq(Requests) /\ Len(queue') = Len(queue) + 1
        /\ \A i \in 1..Len(queue) : queue'[i] = queue[i]
        /\ queue'[Len(queue) + 1] = r
    BY <2>1, AppendProperties DEF TunnelInv, QueueOK
  <2>6. \A i \in 1..Len(queue) : queue[i] # r
    BY DEF TunnelInv, QueueOK
  <2>7. Len(queue) \in Nat
    BY LenProperties DEF TunnelInv, QueueOK
  <2>8. \A q \in Requests : pc'[q] = "queued" <=> \E i \in 1..Len(queue') : queue'[i] = q
    <3> TAKE q \in Requests
    <3>1. CASE q = r
      BY <2>1, <2>5, <2>7, <3>1 DEF TunnelInv, PcOK
    <3>2. CASE q # r
      <4>1. pc'[q] = pc[q]
        BY <2>1, <3>2 DEF TunnelInv, PcOK
      <4>2. (\E i \in 1..Len(queue') : queue'[i] = q) <=> \E i \in 1..Len(queue) : queue[i] = q
        BY <2>5, <2>7, <3>2
      <4> QED BY <4>1, <4>2 DEF TunnelInv, QueueOK
    <3> QED BY <3>1, <3>2
  <2>9. \A i, j \in 1..Len(queue') : queue'[i] = queue'[j] => i = j
    BY <2>5, <2>6, <2>7 DEF TunnelInv, QueueOK
  <2> QED BY <2>2, <2>4, <2>5, <2>8, <2>9 DEF TunnelInv, QueueOK
<1>2. CASE ~Full
  <2>1. /\ pc' = [pc EXCEPT ![r] = "sent"] /\ busy' = busy + 1 /\ UNCHANGED queue
        /\ ~(busy >= Limit)
    BY <1>2 DEF AskConnection, Full
  <2>2. PcOK'
    <3>1. busy' \in 0..Limit
      BY <2>1, TunnelAssumption DEF TunnelInv, PcOK
    <3> QED BY <2>1, <3>1 DEF TunnelInv, PcOK, States
  <2>3. QueueOK'
    BY <2>1, QueueSame DEF TunnelInv, States
  <2>4. Cardinality(Holders)' = Cardinality(Holders) + 1
    BY <2>1, CountTaken DEF TunnelInv, Holding
  <2>5. OnlyDropsLeak'
    BY <2>1, <2>4, HoldersFinite DEF TunnelInv, OnlyDropsLeak, PcOK
  <2> QED BY <2>2, <2>3, <2>5 DEF TunnelInv
<1> QED BY <1>1, <1>2

\* A request ends, and the first of the queue takes its connection.
LEMMA HandOverInv ==
  ASSUME TunnelInv, NEW r \in Requests, pc[r] \in Holding, EndsAndHandsOver(r), UNCHANGED dropped
  PROVE  TunnelInv'
<1>1. CASE queue = << >>
  <2>1. pc' = [pc EXCEPT ![r] = "idle"] /\ busy' = busy - 1 /\ UNCHANGED queue
    BY <1>1 DEF EndsAndHandsOver, TunnelInv, PcOK
  <2>2. PcOK'
    <3>1. gone' = gone \ {r} /\ UNCHANGED dropped
      BY DEF EndsAndHandsOver
    <3>2. Cardinality(Holders) >= 1
      <4>1. r \in Holders /\ Holders \ {r} \subseteq Holders
        BY DEF Holders, Holding
      <4>2. IsFiniteSet(Holders \ {r}) /\ Cardinality(Holders \ {r}) = Cardinality(Holders) - 1
        BY <4>1, HoldersFinite, FS_RemoveElement
      <4>3. Cardinality(Holders \ {r}) \in Nat
        BY <4>2, FS_CardinalityType
      <4> QED BY <4>2, <4>3, HoldersFinite
    <3>3. busy' \in 0..Limit
      BY <2>1, <3>2, HoldersFinite, TunnelAssumption DEF TunnelInv, OnlyDropsLeak, PcOK
    <3> QED BY <2>1, <3>1, <3>3 DEF TunnelInv, PcOK, States
  <2>3. QueueOK'
    BY <2>1, QueueSame DEF TunnelInv, States, Holding
  <2>4. Cardinality(Holders)' = Cardinality(Holders) - 1
    BY <2>1, CountReturned DEF TunnelInv
  <2>5. OnlyDropsLeak'
    BY <2>1, <2>4, HoldersFinite DEF TunnelInv, OnlyDropsLeak, PcOK
  <2> QED BY <2>2, <2>3, <2>5 DEF TunnelInv
<1>2. CASE queue # << >>
  <2>1. PICK h : h = Head(queue)
    OBVIOUS
  <2>2. /\ h = queue[1] /\ Len(queue) \in Nat \ {0}
        /\ queue' \in Seq(Requests) /\ Len(queue') = Len(queue) - 1
        /\ \A i \in 1..Len(queue)-1 : queue'[i] = queue[i + 1]
    BY <1>2, <2>1, HeadTailProperties, EmptySeq, LenProperties DEF EndsAndHandsOver, TunnelInv, QueueOK
  <2>3. h \in Requests /\ pc[h] = "queued" /\ h # r
    <3>1. h \in Requests
      BY <2>2, ElementOfSeq DEF TunnelInv, QueueOK
    <3> QED BY <2>2, <3>1 DEF TunnelInv, QueueOK, Holding
  <2>4. pc' = [q \in Requests |-> IF q = r THEN "idle" ELSE IF q = h THEN "sent" ELSE pc[q]]
    BY <1>2, <2>1 DEF EndsAndHandsOver
  <2>5. PcOK'
    <3>1. gone' = gone \ {r} /\ UNCHANGED <<busy, dropped>> /\ Tunnels \subseteq Requests
      BY <1>2 DEF EndsAndHandsOver, Requests
    <3>2. pc' \in [Requests -> States]
      BY <2>4 DEF TunnelInv, PcOK, States
    <3>3. \A q \in gone' : q \in Tunnels /\ pc'[q] # "idle"
      BY <2>4, <3>1 DEF TunnelInv, PcOK
    <3> QED BY <3>1, <3>2, <3>3 DEF TunnelInv, PcOK
  <2>6. Cardinality(Holders)' = Cardinality(Holders)
    BY <2>3, <2>4, CountKept DEF TunnelInv, Holding
  <2>7. OnlyDropsLeak'
    BY <1>2, <2>6 DEF TunnelInv, OnlyDropsLeak, EndsAndHandsOver
  <2>8. \A i, j \in 1..Len(queue') : queue'[i] = queue'[j] => i = j
    <3>1. SUFFICES ASSUME NEW i \in 1..Len(queue'), NEW j \in 1..Len(queue'), queue'[i] = queue'[j]
                   PROVE  i = j
      OBVIOUS
    <3>2. i + 1 \in 1..Len(queue) /\ j + 1 \in 1..Len(queue) /\ queue[i + 1] = queue[j + 1]
      BY <2>2, <3>1
    <3>3. i + 1 = j + 1
      BY <3>2 DEF TunnelInv, QueueOK
    <3> QED BY <2>2, <3>3
  <2>9. \A q \in Requests : pc'[q] = "queued" <=> \E i \in 1..Len(queue') : queue'[i] = q
    <3> TAKE q \in Requests
    <3>1. (\E i \in 1..Len(queue') : queue'[i] = q)
            <=> \E i \in 1..Len(queue) : queue[i] = q /\ i # 1
      <4>1. ASSUME NEW i \in 1..Len(queue), i # 1
            PROVE  i - 1 \in 1..Len(queue') /\ queue'[i - 1] = queue[i]
        BY <2>2, <4>1
      <4>2. ASSUME NEW i \in 1..Len(queue')
            PROVE  i + 1 \in 1..Len(queue) /\ i + 1 # 1 /\ queue'[i] = queue[i + 1]
        BY <2>2
      <4> QED BY <4>1, <4>2
    <3>2. (\E i \in 1..Len(queue) : queue[i] = q /\ i # 1) <=> pc[q] = "queued" /\ q # h
      BY <2>2 DEF TunnelInv, QueueOK
    <3>3. pc'[q] = "queued" <=> pc[q] = "queued" /\ q # h
      BY <2>3, <2>4 DEF Holding
    <3> QED BY <3>1, <3>2, <3>3
  <2> QED BY <2>2, <2>5, <2>7, <2>8, <2>9 DEF TunnelInv, QueueOK
<1> QED BY <1>1, <1>2

\* A feedback call leaves the queue, from wherever it is.
LEMMA GivesUpInv ==
  ASSUME TunnelInv, NEW r \in Requests, FetchGivesUp(r)
  PROVE  TunnelInv'
<1>1. pc[r] = "queued" /\ pc' = [pc EXCEPT ![r] = "idle"] /\ UNCHANGED <<gone, busy, dropped>>
      /\ r \notin Tunnels
  BY TunnelAssumption DEF FetchGivesUp
<1>2. PICK p \in 1..Len(queue) : queue[p] = r /\ queue' = RemoveAt(queue, p)
  BY LenProperties DEF FetchGivesUp, TunnelInv, QueueOK
<1>3. /\ queue' \in Seq(Requests) /\ Len(queue') = Len(queue) - 1 /\ Len(queue) \in Nat
      /\ \A i \in 1..Len(queue)-1 : queue'[i] = IF i < p THEN queue[i] ELSE queue[i + 1]
  <2>1. queue \in Seq(Requests) /\ Len(queue) \in Nat
    BY LenProperties DEF TunnelInv, QueueOK
  <2> QED BY <1>2, <2>1, RemoveAtProperties
<1>4. PcOK'
  BY <1>1 DEF TunnelInv, PcOK, States
<1>5. Cardinality(Holders)' = Cardinality(Holders)
  BY <1>1, CountSame DEF TunnelInv, Holding, States
<1>6. OnlyDropsLeak'
  BY <1>1, <1>5 DEF TunnelInv, OnlyDropsLeak
<1>7. ASSUME NEW i \in 1..Len(queue'), NEW j \in 1..Len(queue'), queue'[i] = queue'[j]
      PROVE  i = j
  <2> DEFINE old(n) == IF n < p THEN n ELSE n + 1
  <2>1. \A n \in 1..Len(queue') : old(n) \in 1..Len(queue) /\ queue'[n] = queue[old(n)]
    BY <1>2, <1>3
  <2>2. old(i) = old(j)
    BY <1>7, <2>1 DEF TunnelInv, QueueOK
  <2> QED BY <1>2, <1>3, <2>2
<1>8. \A q \in Requests : pc'[q] = "queued" <=> \E i \in 1..Len(queue') : queue'[i] = q
  <2> TAKE q \in Requests
  <2>1. (\E i \in 1..Len(queue') : queue'[i] = q)
          <=> \E i \in 1..Len(queue) : queue[i] = q /\ i # p
    <3>1. ASSUME NEW i \in 1..Len(queue), i # p
          PROVE  \E j \in 1..Len(queue') : queue'[j] = queue[i]
      <4>1. CASE i < p
        BY <1>2, <1>3, <4>1
      <4>2. CASE i > p
        <5>1. i - 1 \in 1..Len(queue') /\ queue'[i - 1] = queue[i]
          BY <1>2, <1>3, <4>2
        <5> QED BY <5>1
      <4> QED BY <1>2, <1>3, <3>1, <4>1, <4>2
    <3>2. ASSUME NEW i \in 1..Len(queue')
          PROVE  \E j \in 1..Len(queue) : j # p /\ queue[j] = queue'[i]
      <4>1. CASE i < p
        BY <1>2, <1>3, <4>1
      <4>2. CASE ~(i < p)
        <5>1. i + 1 \in 1..Len(queue) /\ i + 1 # p /\ queue'[i] = queue[i + 1]
          BY <1>2, <1>3, <4>2
        <5> QED BY <5>1
      <4> QED BY <4>1, <4>2
    <3> QED BY <3>1, <3>2
  <2>2. (\E i \in 1..Len(queue) : queue[i] = q /\ i # p) <=> pc[q] = "queued" /\ q # r
    BY <1>2 DEF TunnelInv, QueueOK
  <2>3. pc'[q] = "queued" <=> pc[q] = "queued" /\ q # r
    BY <1>1 DEF TunnelInv, PcOK
  <2> QED BY <2>1, <2>2, <2>3
<1> QED BY <1>3, <1>4, <1>6, <1>7, <1>8 DEF TunnelInv, QueueOK

-----------------------------------------------------------------------------
(* The specification *)

\* At the start nobody is there.
LEMMA TunnelInitInv == TunnelInit => TunnelInv
<1> SUFFICES ASSUME TunnelInit PROVE TunnelInv
  OBVIOUS
<1>1. Holders = {} /\ Cardinality(Holders) = 0
  <2>1. Holders = {}
    BY DEF TunnelInit, Holders
  <2> QED BY <2>1, FS_EmptySet
<1>2. OnlyDropsLeak
  BY <1>1 DEF OnlyDropsLeak, TunnelInit
<1>3. PcOK
  BY TunnelAssumption DEF PcOK, TunnelInit, States
<1>4. QueueOK
  BY EmptySeq DEF QueueOK, TunnelInit
<1> QED BY <1>2, <1>3, <1>4 DEF TunnelInv

\* A step inside the proxy that neither takes nor returns a connection.
LEMMA MoveInv ==
  ASSUME TunnelInv, NEW r \in Requests, NEW v \in States \ {"queued"}, pc[r] # "queued",
         pc' = [pc EXCEPT ![r] = v], pc[r] \in Holding <=> v \in Holding,
         gone' \in {gone, gone \ {r}}, v = "idle" => r \notin gone',
         UNCHANGED <<queue, busy, dropped>>
  PROVE  TunnelInv'
<1>1. PcOK'
  BY DEF TunnelInv, PcOK, States
<1>2. QueueOK'
  BY QueueSame DEF TunnelInv
<1>3. Cardinality(Holders)' = Cardinality(Holders)
  BY CountSame DEF TunnelInv
<1>4. OnlyDropsLeak'
  BY <1>3 DEF TunnelInv, OnlyDropsLeak
<1> QED BY <1>1, <1>2, <1>4 DEF TunnelInv

\* Every step keeps the invariant.
LEMMA TunnelNextInv == TunnelInv /\ [TunnelNext]_tunnelVars => TunnelInv'
<1> SUFFICES ASSUME TunnelInv, [TunnelNext]_tunnelVars PROVE TunnelInv'
  OBVIOUS
<1>1. ASSUME NEW r \in Requests, Receive(r) PROVE TunnelInv'
  <2>1. r \notin gone
    BY <1>1 DEF Receive, TunnelInv, PcOK
  <2> QED BY <1>1, <2>1, MoveInv DEF Receive, Holding, States
<1>2. ASSUME NEW r \in Requests, ClientLeaves(r) PROVE TunnelInv'
  <2>1. Holders' = Holders /\ UNCHANGED <<pc, queue, busy, dropped>>
    BY <1>2 DEF ClientLeaves, Holders
  <2>2. PcOK'
    BY <1>2 DEF ClientLeaves, TunnelInv, PcOK
  <2> QED BY <2>1, <2>2 DEF TunnelInv, QueueOK, OnlyDropsLeak
<1>3. ASSUME NEW r \in Requests, Send(r) PROVE TunnelInv'
  BY <1>3, AskInv DEF Send
<1>4. ASSUME NEW r \in Requests, BodyFails(r) PROVE TunnelInv'
  BY <1>4, MoveInv DEF BodyFails, Holding, States
<1>5. ASSUME NEW r \in Requests, Answered(r) PROVE TunnelInv'
  BY <1>5, MoveInv DEF Answered, Holding, States
<1>6. ASSUME NEW r \in Requests, SendFails(r) \/ StreamEnds(r) \/ StreamCancelled(r) \/ FetchEnds(r)
      PROVE  TunnelInv'
  BY <1>6, HandOverInv DEF SendFails, StreamEnds, StreamCancelled, FetchEnds, Holding
<1>7. ASSUME NEW r \in Requests, StreamStarts(r) PROVE TunnelInv'
  BY <1>7, MoveInv DEF StreamStarts, Holding, States
<1>8. ASSUME NEW r \in Requests, Dropped(r) PROVE TunnelInv'
  <2>1. /\ pc[r] = "answered" /\ pc' = [pc EXCEPT ![r] = "idle"]
        /\ gone' = gone \ {r} /\ dropped' = dropped + 1 /\ UNCHANGED <<queue, busy>>
    BY <1>8 DEF Dropped
  <2>2. PcOK'
    BY <2>1 DEF TunnelInv, PcOK, States
  <2>3. QueueOK'
    BY <2>1, QueueSame DEF TunnelInv, States
  <2>4. Cardinality(Holders)' = Cardinality(Holders) - 1
    BY <2>1, CountReturned DEF TunnelInv, Holding
  <2>5. OnlyDropsLeak'
    BY <2>1, <2>4, HoldersFinite DEF TunnelInv, OnlyDropsLeak, PcOK
  <2> QED BY <2>2, <2>3, <2>5 DEF TunnelInv
<1>9. ASSUME NEW r \in Requests, Fetch(r) PROVE TunnelInv'
  BY <1>9, AskInv, TunnelAssumption DEF Fetch
<1>10. ASSUME NEW r \in Requests, FetchGivesUp(r) PROVE TunnelInv'
  BY <1>10, GivesUpInv
<1>11. CASE UNCHANGED tunnelVars
  <2>1. Holders' = Holders /\ UNCHANGED tunnelVars
    BY <1>11 DEF tunnelVars, Holders
  <2> QED BY <2>1 DEF tunnelVars, TunnelInv, PcOK, QueueOK, OnlyDropsLeak
<1> QED
  BY <1>1, <1>2, <1>3, <1>4, <1>5, <1>6, <1>7, <1>8, <1>9, <1>10, <1>11
  DEF TunnelNext, FromClient, FromUpstream, Responds, FetchReturns

\* The invariant of the proofs below.
THEOREM TunnelInvariance == TunnelSpec => []TunnelInv
BY TunnelInitInv, TunnelNextInv, PTL DEF TunnelSpec

\* States, queue and counts of the proxy's requests keep their types, and the
\* queue of the httpx client holds exactly the requests that wait.
THEOREM TunnelTypeCorrect == TunnelSpec => []TunnelTypeOK
<1>1. TunnelInv => TunnelTypeOK
  <2> SUFFICES ASSUME TunnelInv PROVE TunnelTypeOK
    OBVIOUS
  <2>1. DOMAIN queue = 1..Len(queue)
    BY LenProperties DEF TunnelInv, QueueOK
  <2>2. IsInjective(queue)
    BY <2>1 DEF TunnelInv, QueueOK, IsInjective
  <2>3. ToSet(queue) = {r \in Requests : pc[r] = "queued"}
    <3>1. \A i \in 1..Len(queue) : queue[i] \in Requests
      BY ElementOfSeq DEF TunnelInv, QueueOK
    <3> QED BY <2>1, <3>1 DEF TunnelInv, QueueOK, ToSet
  <2>4. dropped \in 0..Limit
    BY HoldersFinite, TunnelAssumption DEF TunnelInv, PcOK, OnlyDropsLeak
  <2> QED BY <2>2, <2>3, <2>4 DEF TunnelInv, PcOK, QueueOK, States, TunnelTypeOK
<1> QED BY <1>1, TunnelInvariance, PTL

\* No path through the proxy leaks a connection, whoever fails or leaves when,
\* but the one of a response that is dropped before it is started.
THEOREM NothingElseLeaks == TunnelSpec => []OnlyDropsLeak
BY TunnelInvariance, PTL DEF TunnelInv
=============================================================================
