-------------------------- MODULE FeedbackBus_proofs --------------------------
(***************************************************************************)
(* Proofs about FeedbackBus, for any streams, sizes and number of events.  *)
(*                                                                         *)
(* Ring and queues are runs of consecutive events; an emit makes a run one *)
(* longer, a full ring and a delivery cut its head off.  NoGaps is this    *)
(* and where the run of a subscribed stream ends.  It needs the bound of   *)
(* the queues only for what it implies: how far behind a stream can be.    *)
(***************************************************************************)
EXTENDS FeedbackBus, SequenceTheorems, TLAPS

\* The events from+1, from+2, ... in this order.
Consecutive(q, from) == \A i \in 1..Len(q) : q[i] = from + i

RingOrdered == Len(events) <= RingSize /\ Consecutive(events, emitted - Len(events))

QueueOrdered(s) ==
  /\ Len(queue[s]) <= QueueSize
  /\ Consecutive(queue[s], seen[s])
  /\ s \in subscribers => seen[s] + Len(queue[s]) = emitted

BusInv == FeedbackTypeOK /\ RingOrdered /\ \A s \in Streams : QueueOrdered(s)

-----------------------------------------------------------------------------
(* Runs of events *)

\* The event that follows a run makes it one longer.
LEMMA AppendConsecutive ==
  ASSUME NEW q \in Seq(1..MaxEvents), NEW from \in Int, Consecutive(q, from),
         NEW e \in 1..MaxEvents, e = from + Len(q) + 1
  PROVE  /\ Append(q, e) \in Seq(1..MaxEvents)
         /\ Len(Append(q, e)) = Len(q) + 1
         /\ Consecutive(Append(q, e), from)
<1> DEFINE r == Append(q, e)
<1>1. /\ r \in Seq(1..MaxEvents) /\ Len(r) = Len(q) + 1 /\ Len(q) \in Nat
      /\ \A i \in 1..Len(q) : r[i] = q[i]
      /\ r[Len(q) + 1] = e
  BY AppendProperties, LenProperties
<1> HIDE DEF r
<1>2. ASSUME NEW i \in 1..Len(r) PROVE r[i] = from + i
  <2>1. CASE i = Len(q) + 1
    BY <1>1, <2>1
  <2>2. CASE i # Len(q) + 1
    <3>1. i \in 1..Len(q)
      BY <1>1, <2>2
    <3> QED BY <1>1, <3>1 DEF Consecutive
  <2> QED BY <2>1, <2>2
<1>3. Consecutive(r, from)
  BY <1>2 DEF Consecutive
<1> QED BY <1>1, <1>3 DEF r

\* Without its head a run starts one event later.
LEMMA TailConsecutive ==
  ASSUME NEW q \in Seq(1..MaxEvents), NEW from \in Int, Consecutive(q, from), q # << >>
  PROVE  /\ Head(q) = from + 1 /\ Head(q) \in 1..MaxEvents
         /\ Tail(q) \in Seq(1..MaxEvents)
         /\ Len(Tail(q)) = Len(q) - 1
         /\ Consecutive(Tail(q), from + 1)
<1> DEFINE t == Tail(q)
<1>1. /\ Head(q) \in 1..MaxEvents
      /\ t \in Seq(1..MaxEvents) /\ Len(t) = Len(q) - 1
      /\ \A i \in 1..Len(t) : t[i] = q[i + 1]
  BY HeadTailProperties
<1>5. Len(q) \in Nat /\ Len(q) # 0
  BY LenProperties, EmptySeq
<1>6. Head(q) = q[1]
  OBVIOUS
<1> HIDE DEF t
<1>2. ASSUME NEW i \in 1..Len(t) PROVE t[i] = from + 1 + i
  <2>1. i + 1 \in 1..Len(q) /\ t[i] = q[i + 1] /\ i \in Int
    BY <1>1, <1>5
  <2>2. q[i + 1] = from + (i + 1)
    BY <2>1 DEF Consecutive
  <2> QED BY <2>1, <2>2
<1>3. Consecutive(t, from + 1)
  BY <1>2 DEF Consecutive
<1>4. Head(q) = from + 1
  BY <1>5, <1>6 DEF Consecutive
<1> QED BY <1>1, <1>3, <1>4 DEF t

\* After an emit the ring ends with the new event and has kept its bound.
LEMMA RememberedRing ==
  ASSUME FeedbackTypeOK, RingOrdered, emitted < MaxEvents,
         NEW ring, ring = Remembered(emitted + 1)
  PROVE  /\ ring \in Seq(1..MaxEvents)
         /\ Len(ring) <= RingSize /\ Consecutive(ring, (emitted + 1) - Len(ring))
<1> DEFINE e == emitted + 1
           r == Append(events, e)
           from == emitted - Len(events)
<1>1. /\ RingSize \in Nat /\ RingSize > 0 /\ MaxEvents \in Nat /\ emitted \in Nat
      /\ events \in Seq(1..MaxEvents) /\ e \in 1..MaxEvents
      /\ Len(events) \in Nat /\ Len(events) <= RingSize
  BY FeedbackAssumption, LenProperties DEF FeedbackTypeOK, RingOrdered
<1>2. from \in Int /\ e = from + Len(events) + 1
  BY <1>1
<1>3. /\ r \in Seq(1..MaxEvents) /\ Len(r) = Len(events) + 1
      /\ Consecutive(r, from)
  BY <1>1, <1>2, AppendConsecutive DEF RingOrdered
<1>4. ring = IF Len(r) > RingSize THEN Tail(r) ELSE r
  BY DEF Remembered
<1> HIDE DEF r
<1>5. CASE Len(r) <= RingSize
  <2>1. ring = r
    BY <1>1, <1>3, <1>4, <1>5
  <2>2. Len(ring) = Len(events) + 1
    BY <1>3, <2>1
  <2>3. from = (emitted + 1) - Len(ring)
    BY <1>1, <2>2
  <2> QED BY <1>1, <1>3, <1>5, <2>1, <2>3
<1>6. CASE Len(r) > RingSize
  <2>1. r # << >> /\ ring = Tail(r)
    BY <1>1, <1>3, <1>4, <1>6, EmptySeq
  <2>2. /\ ring \in Seq(1..MaxEvents) /\ Len(ring) = Len(r) - 1
        /\ Consecutive(ring, from + 1)
    BY <1>2, <1>3, <2>1, TailConsecutive
  <2>3. Len(ring) = Len(events)
    BY <1>1, <1>3, <2>2
  <2>4. from + 1 = (emitted + 1) - Len(ring)
    BY <1>1, <2>3
  <2> QED BY <1>1, <2>2, <2>3, <2>4 DEF Consecutive
<1> QED BY <1>1, <1>3, <1>5, <1>6

-----------------------------------------------------------------------------
(* The invariant *)

\* The constants, and the types of the variables, in the form the steps use.
LEMMA BusTypes ==
  ASSUME FeedbackTypeOK
  PROVE  /\ RingSize \in Nat /\ QueueSize \in Nat /\ QueueSize > 0 /\ MaxEvents \in Nat
         /\ emitted \in Nat /\ emitted <= MaxEvents
         /\ \A s \in Streams : /\ seen[s] \in Nat /\ seen[s] <= MaxEvents
                               /\ queue[s] \in Seq(1..MaxEvents) /\ Len(queue[s]) \in Nat
BY FeedbackAssumption, LenProperties DEF FeedbackTypeOK

\* A bus without events or streams satisfies the invariant.
LEMMA BusInitInv == BusInit => BusInv
<1> SUFFICES ASSUME BusInit PROVE BusInv
  OBVIOUS
<1>1. FeedbackTypeOK
  BY FeedbackAssumption DEF BusInit, FeedbackTypeOK, StreamStates
<1>2. RingOrdered /\ \A s \in Streams : QueueOrdered(s)
  BY FeedbackAssumption DEF BusInit, RingOrdered, QueueOrdered, Consecutive
<1> QED BY <1>1, <1>2 DEF BusInv

\* emit() makes every queue that stays subscribed one event longer, and leaves
\* the others as they are.
LEMMA EmitInv ==
  ASSUME BusInv, Emit
  PROVE  BusInv'
<1>1. /\ emitted < MaxEvents /\ emitted' = emitted + 1 /\ emitted' \in 1..MaxEvents
      /\ seen' = seen /\ subscribers' \subseteq subscribers
  BY BusTypes DEF BusInv, Emit
<1>2. /\ events' \in Seq(1..MaxEvents)
      /\ RingOrdered'
  <2>1. events' = Remembered(emitted + 1)
    BY DEF Emit
  <2>2. /\ events' \in Seq(1..MaxEvents)
        /\ Len(events') <= RingSize /\ Consecutive(events', (emitted + 1) - Len(events'))
    BY <1>1, <2>1, RememberedRing DEF BusInv
  <2>3. emitted' = emitted + 1
    BY <1>1
  <2> QED BY <2>2, <2>3 DEF RingOrdered, Consecutive
<1>3. ASSUME NEW s \in Streams
      PROVE  queue'[s] \in Seq(1..MaxEvents) /\ QueueOrdered(s)'
  <2>1. CASE s \notin subscribers'
    <3>1. queue'[s] = queue[s]
      BY <2>1 DEF Emit
    <3> QED BY <1>1, <2>1, <3>1, BusTypes DEF BusInv, QueueOrdered, Consecutive
  <2>2. CASE s \in subscribers'
    <3>1. /\ s \in subscribers /\ Len(queue[s]) < QueueSize
          /\ queue'[s] = Append(queue[s], emitted')
      BY <1>1, <2>2, BusTypes DEF BusInv, Emit, Full
    <3>2. /\ Consecutive(queue[s], seen[s]) /\ seen[s] \in Int
          /\ emitted' = seen[s] + Len(queue[s]) + 1
      BY <1>1, <3>1, BusTypes DEF BusInv, QueueOrdered
    <3>3. /\ queue'[s] \in Seq(1..MaxEvents) /\ Len(queue'[s]) = Len(queue[s]) + 1
          /\ Consecutive(queue'[s], seen[s])
      BY <1>1, <3>1, <3>2, BusTypes, AppendConsecutive DEF BusInv
    <3>4. Len(queue'[s]) <= QueueSize /\ seen'[s] + Len(queue'[s]) = emitted'
      BY <1>1, <3>1, <3>2, <3>3, BusTypes DEF BusInv
    <3> QED BY <1>1, <3>3, <3>4 DEF QueueOrdered, Consecutive
  <2> QED BY <2>1, <2>2
<1>4. queue' \in [Streams -> Seq(1..MaxEvents)] /\ stream' \in [Streams -> StreamStates]
  <2>1. queue' = [s \in Streams |-> IF s \in subscribers'
                                    THEN Append(queue[s], emitted + 1) ELSE queue[s]]
    BY DEF Emit
  <2>2. queue' = [s \in Streams |-> queue'[s]]
    BY <2>1
  <2>3. stream' \in [Streams -> StreamStates]
    BY DEF Emit, BusInv, FeedbackTypeOK, StreamStates
  <2> QED BY <1>3, <2>2, <2>3
<1>5. FeedbackTypeOK'
  BY <1>1, <1>2, <1>4 DEF BusInv, FeedbackTypeOK
<1> QED BY <1>2, <1>3, <1>5 DEF BusInv

\* What a stream does keeps its queue in order and touches no other queue.
LEMMA StreamInv ==
  ASSUME BusInv, NEW s \in Streams,
         Subscribe(s) \/ StartStream(s) \/ Deliver(s) \/ Disconnect(s) \/ Unsubscribe(s)
  PROVE  BusInv'
<1>1. /\ events' = events /\ emitted' = emitted /\ RingOrdered'
      /\ events' \in Seq(1..MaxEvents) /\ emitted' \in 0..MaxEvents
  BY DEF BusInv, FeedbackTypeOK, RingOrdered, Consecutive,
         Subscribe, StartStream, Deliver, Disconnect, Unsubscribe
<1>2. stream' \in [Streams -> StreamStates] /\ subscribers' \subseteq Streams
  BY DEF BusInv, FeedbackTypeOK, StreamStates,
         Subscribe, StartStream, Deliver, Disconnect, Unsubscribe
<1>3. CASE UNCHANGED <<queue, seen>> /\ subscribers' \subseteq subscribers
  BY <1>1, <1>2, <1>3 DEF BusInv, FeedbackTypeOK, QueueOrdered, Consecutive
<1>4. CASE Subscribe(s)
  <2>1. /\ seen' \in [Streams -> 0..MaxEvents]
        /\ queue' \in [Streams -> Seq(1..MaxEvents)]
        /\ queue'[s] = << >> /\ seen'[s] = emitted
        /\ \A u \in Streams \ {s} : /\ queue'[u] = queue[u] /\ seen'[u] = seen[u]
                                    /\ u \in subscribers' => u \in subscribers
    BY <1>4 DEF BusInv, FeedbackTypeOK, Subscribe
  <2>2. QueueOrdered(s)'
    BY <1>1, <2>1, BusTypes DEF BusInv, QueueOrdered, Consecutive
  <2>3. \A u \in Streams \ {s} : QueueOrdered(u)'
    BY <1>1, <2>1 DEF BusInv, QueueOrdered, Consecutive
  <2> QED BY <1>1, <1>2, <2>1, <2>2, <2>3 DEF BusInv, FeedbackTypeOK
<1>5. CASE Deliver(s)
  <2>1. /\ queue[s] # << >> /\ subscribers' = subscribers
        /\ seen' = [seen EXCEPT ![s] = Head(queue[s])]
        /\ queue' = [queue EXCEPT ![s] = Tail(queue[s])]
        /\ seen \in [Streams -> 0..MaxEvents]
        /\ queue \in [Streams -> Seq(1..MaxEvents)]
    BY <1>5 DEF BusInv, FeedbackTypeOK, Deliver
  <2>2. /\ Head(queue[s]) = seen[s] + 1 /\ Head(queue[s]) \in 1..MaxEvents
        /\ Tail(queue[s]) \in Seq(1..MaxEvents) /\ Len(Tail(queue[s])) = Len(queue[s]) - 1
        /\ Consecutive(Tail(queue[s]), seen[s] + 1)
    BY <2>1, BusTypes, TailConsecutive DEF BusInv, QueueOrdered
  <2>3. /\ seen' \in [Streams -> 0..MaxEvents]
        /\ queue' \in [Streams -> Seq(1..MaxEvents)]
        /\ queue'[s] = Tail(queue[s]) /\ seen'[s] = seen[s] + 1
        /\ \A u \in Streams \ {s} : queue'[u] = queue[u] /\ seen'[u] = seen[u]
    BY <2>1, <2>2, BusTypes DEF BusInv
  <2>4. QueueOrdered(s)'
    <3>1. /\ Len(queue'[s]) <= QueueSize
          /\ s \in subscribers' => seen'[s] + Len(queue'[s]) = emitted'
      <4>1. /\ Len(queue[s]) \in Nat /\ seen[s] \in Nat /\ QueueSize \in Nat
            /\ Len(queue[s]) <= QueueSize
            /\ s \in subscribers => seen[s] + Len(queue[s]) = emitted
        BY BusTypes DEF BusInv, QueueOrdered
      <4>2. Len(queue'[s]) = Len(queue[s]) - 1
        BY <2>2, <2>3
      <4>3. Len(queue'[s]) <= QueueSize
        BY <4>1, <4>2
      <4>4. ASSUME s \in subscribers' PROVE seen'[s] + Len(queue'[s]) = emitted'
        <5>1. emitted' = emitted /\ seen'[s] = seen[s] + 1 /\ s \in subscribers
          BY <1>1, <2>1, <2>3, <4>4
        <5> QED BY <4>1, <4>2, <5>1
      <4> QED BY <4>3, <4>4
    <3> QED BY <2>2, <2>3, <3>1 DEF QueueOrdered, Consecutive
  <2>5. \A u \in Streams \ {s} : QueueOrdered(u)'
    BY <1>1, <2>1, <2>3 DEF BusInv, QueueOrdered, Consecutive
  <2> QED BY <1>1, <1>2, <2>3, <2>4, <2>5 DEF BusInv, FeedbackTypeOK
<1> QED BY <1>3, <1>4, <1>5 DEF StartStream, Disconnect, Unsubscribe

\* Every step of the bus keeps the invariant.
LEMMA BusNextInv == BusInv /\ [BusNext]_busVars => BusInv'
<1> SUFFICES ASSUME BusInv, [BusNext]_busVars PROVE BusInv'
  OBVIOUS
<1>1. CASE Emit
  BY <1>1, EmitInv
<1>2. CASE ClearEvents
  <2>1. RingOrdered' /\ events' \in Seq(1..MaxEvents)
    BY <1>2, FeedbackAssumption DEF ClearEvents, RingOrdered, Consecutive
  <2> QED BY <1>2, <2>1
          DEF ClearEvents, BusInv, FeedbackTypeOK, QueueOrdered, Consecutive
<1>3. ASSUME NEW s \in Streams,
             Subscribe(s) \/ StartStream(s) \/ Deliver(s) \/ Disconnect(s) \/ Unsubscribe(s)
      PROVE  BusInv'
  BY <1>3, StreamInv
<1>4. CASE UNCHANGED busVars
  BY <1>4 DEF busVars, BusInv, FeedbackTypeOK, RingOrdered, QueueOrdered, Consecutive
<1> QED BY <1>1, <1>2, <1>3, <1>4 DEF BusNext

\* Queues, ring and list of subscribers agree in every state of the bus.
THEOREM BusInvariance == BusSpec => []BusInv
BY BusInitInv, BusNextInv, PTL DEF BusSpec

-----------------------------------------------------------------------------
(* The properties *)

\* Every variable of the bus keeps its type.
THEOREM FeedbackTypeCorrect == BusSpec => []FeedbackTypeOK
<1>1. BusInv => FeedbackTypeOK
  BY DEF BusInv
<1> QED BY <1>1, BusInvariance, PTL

\* No stream skips an event unnoticed: what it has sent and what waits for it
\* are consecutive, up to the newest event as long as it is subscribed.
THEOREM StreamsHaveNoGaps == BusSpec => []NoGaps
<1>1. BusInv => NoGaps
  <2> SUFFICES ASSUME BusInv, NEW s \in Streams
               PROVE  /\ \A i \in DOMAIN queue[s] : queue[s][i] = seen[s] + i
                      /\ s \in subscribers => seen[s] + Len(queue[s]) = emitted
    BY DEF NoGaps
  <2>1. DOMAIN queue[s] = 1..Len(queue[s])
    BY BusTypes, LenProperties DEF BusInv
  <2> QED BY <2>1 DEF BusInv, QueueOrdered, Consecutive
<1> QED BY <1>1, BusInvariance, PTL

\* A queue that nobody reads is dropped after QueueSize events.
THEOREM LeaksAreBounded == BusSpec => []UnreadIsForgotten
<1>1. BusInv => UnreadIsForgotten
  <2> SUFFICES ASSUME BusInv, NEW s \in subscribers PROVE emitted - seen[s] <= QueueSize
    BY DEF UnreadIsForgotten
  <2>1. s \in Streams
    BY DEF BusInv, FeedbackTypeOK
  <2> QED BY <2>1, BusTypes DEF BusInv, QueueOrdered
<1> QED BY <1>1, BusInvariance, PTL

\* get_recent(n) returns the n newest events, newest first.
THEOREM RecentIsCorrect == BusSpec => []RecentIsNewest
<1>1. BusInv => RecentIsNewest
  <2> SUFFICES ASSUME BusInv, NEW n \in 1..RingSize
               PROVE  Recent(n) = [i \in 1..(IF n < Len(events) THEN n ELSE Len(events))
                                     |-> emitted - i + 1]
    BY DEF RecentIsNewest, BusInv, RingOrdered
  <2> DEFINE len == Len(events)
             first == IF n = 0 \/ n >= len THEN 1 ELSE len - n + 1
             part == SubSeq(events, first, len)
             size == IF n < len THEN n ELSE len
  <2>1. /\ events \in Seq(1..MaxEvents) /\ len \in Nat /\ n \in Nat /\ n > 0 /\ emitted \in Nat
        /\ \A i \in 1..len : events[i] = emitted - len + i
    BY FeedbackAssumption, LenProperties DEF BusInv, FeedbackTypeOK, RingOrdered, Consecutive
  <2> HIDE DEF len
  <2>2. first \in Nat /\ first >= 1 /\ first <= len + 1 /\ size \in Nat /\ size = len - first + 1
    <3>1. CASE n >= len
      BY <2>1, <3>1
    <3>2. CASE n < len
      BY <2>1, <3>2
    <3> QED BY <2>1, <3>1, <3>2
  <2> HIDE DEF first, size
  <2>3. /\ Len(part) = size
        /\ \A i \in 1..size : part[i] = events[first + i - 1]
    <3>1. \A i \in first..len : events[i] \in 1..MaxEvents
      <4>1. ASSUME NEW i \in first..len PROVE i \in 1..Len(events)
        BY <2>1, <2>2 DEF len
      <4> QED BY <2>1, <4>1, ElementOfSeq
    <3>2. /\ Len(part) = IF first <= len THEN len - first + 1 ELSE 0
          /\ \A i \in 1..len - first + 1 : part[i] = events[first + i - 1]
      BY <2>1, <2>2, <3>1, SubSeqProperties
    <3> QED BY <2>1, <2>2, <3>2
  <2> HIDE DEF part
  <2>4. Len(part) = size
    BY <2>3
  <2>5. Recent(n) = [i \in 1..size |-> part[size - i + 1]]
    <3>1. Recent(n) = Reverse(part)
      BY DEF Recent, first, len, part
    <3> QED BY <3>1, <2>4 DEF Reverse
  <2>6. ASSUME NEW i \in 1..size PROVE part[size - i + 1] = emitted - i + 1
    <3>1. size - i + 1 \in 1..size /\ first + (size - i + 1) - 1 = len - i + 1 /\ len - i + 1 \in 1..len
      BY <2>1, <2>2
    <3>2. part[size - i + 1] = events[first + (size - i + 1) - 1]
      BY <2>3, <3>1
    <3>3. events[len - i + 1] = emitted - len + (len - i + 1)
      BY <2>1, <3>1
    <3> QED BY <2>1, <2>2, <3>1, <3>2, <3>3
  <2>7. Recent(n) = [i \in 1..size |-> emitted - i + 1]
    BY <2>5, <2>6
  <2> QED BY <2>7 DEF size, len
<1> QED BY <1>1, BusInvariance, PTL

-----------------------------------------------------------------------------
(* The log behind the streams *)

\* A response that is over has left no queue in the list.
ClosedIsOff == \A s \in Streams : stream[s] = "closed" => s \notin subscribers

\* Every step keeps it: whoever closes a stream has taken its queue off.
LEMMA ClosedIsOffNext ==
  ASSUME BusInv, ClosedIsOff, [BusNext]_busVars
  PROVE  ClosedIsOff'
<1>1. stream \in [Streams -> StreamStates]
  BY DEF BusInv, FeedbackTypeOK
<1>2. CASE Emit
  BY <1>2 DEF Emit, ClosedIsOff
<1>3. ASSUME NEW s \in Streams, Subscribe(s) PROVE ClosedIsOff'
  BY <1>1, <1>3 DEF Subscribe, ClosedIsOff
<1>4. ASSUME NEW s \in Streams, StartStream(s) \/ Deliver(s) PROVE ClosedIsOff'
  BY <1>1, <1>4 DEF StartStream, Deliver, ClosedIsOff
<1>5. ASSUME NEW s \in Streams, Disconnect(s) PROVE ClosedIsOff'
  BY <1>1, <1>5 DEF Disconnect, ClosedIsOff
<1>6. ASSUME NEW s \in Streams, Unsubscribe(s) PROVE ClosedIsOff'
  BY <1>1, <1>6 DEF Unsubscribe, ClosedIsOff
<1>7. CASE ClearEvents \/ UNCHANGED busVars
  BY <1>7 DEF ClearEvents, busVars, ClosedIsOff
<1> QED BY <1>2, <1>3, <1>4, <1>5, <1>6, <1>7 DEF BusNext

\* emit() writes to the log, and detaches whoever has fallen QueueSize behind.
LEMMA EmitWrites ==
  ASSUME BusInv, Emit
  PROVE  Log!Write
<1>1. /\ emitted' = emitted + 1 /\ UNCHANGED seen
      /\ \A s \in Streams : queue'[s] = IF s \in subscribers' THEN Append(queue[s], emitted + 1)
                                        ELSE queue[s]
  BY DEF Emit
<1>2. emitted + 1 \in 1..MaxEvents /\ subscribers \subseteq Streams
  BY BusTypes DEF BusInv, FeedbackTypeOK, Emit
<1>3. \A s \in Streams : End[s] = seen[s] + Len(queue[s]) /\ End'[s] = seen'[s] + Len(queue'[s])
  BY DEF End
<1>4. \A s \in subscribers : End[s] - seen[s] < QueueSize <=> ~Full(s)
  BY <1>2, <1>3, BusTypes DEF BusInv, Full
<1>5. subscribers' = {s \in subscribers : End[s] - seen[s] < QueueSize}
  BY <1>4 DEF Emit
<1>6. ASSUME NEW s \in Streams
      PROVE  End'[s] = IF s \in subscribers' THEN emitted + 1 ELSE End[s]
  <2>1. CASE s \in subscribers'
    <3>1. s \in subscribers /\ queue'[s] = Append(queue[s], emitted + 1)
      BY <1>1, <1>5, <2>1
    <3>2. Len(queue'[s]) = Len(queue[s]) + 1
      BY <1>2, <3>1, BusTypes, AppendProperties DEF BusInv
    <3>3. seen[s] + Len(queue[s]) = emitted
      BY <3>1 DEF BusInv, QueueOrdered
    <3>4. seen'[s] = seen[s] /\ seen[s] \in Nat /\ Len(queue[s]) \in Nat
      BY <1>1, BusTypes DEF BusInv
    <3> QED BY <1>3, <2>1, <3>2, <3>3, <3>4
  <2>2. CASE s \notin subscribers'
    BY <1>1, <1>3, <2>2
  <2> QED BY <2>1, <2>2
<1>7. End' = [s \in Streams |-> IF s \in subscribers' THEN emitted + 1 ELSE End[s]]
  BY <1>6 DEF End
<1>8. Closing' = Closing
  BY DEF Emit, Closing
<1> QED BY <1>1, <1>5, <1>7, <1>8 DEF Log!Write

\* A new stream is attached at the newest event.
LEMMA SubscribeAttaches ==
  ASSUME BusInv, ClosedIsOff, NEW s \in Streams, Subscribe(s)
  PROVE  Log!Attach(s)
<1>1. /\ s \notin subscribers /\ subscribers' = subscribers \cup {s} /\ UNCHANGED emitted
      /\ seen' = [seen EXCEPT ![s] = emitted]
      /\ queue' = [queue EXCEPT ![s] = << >>]
      /\ seen \in [Streams -> 0..MaxEvents] /\ queue \in [Streams -> Seq(1..MaxEvents)]
      /\ emitted \in Nat
  BY BusTypes DEF Subscribe, ClosedIsOff, BusInv, FeedbackTypeOK
<1>2. \A u \in Streams : seen'[u] + Len(queue'[u])
                           = IF u = s THEN emitted ELSE seen[u] + Len(queue[u])
  <2>1. seen'[s] = emitted /\ Len(queue'[s]) = 0
    BY <1>1
  <2>2. \A u \in Streams \ {s} : seen'[u] = seen[u] /\ queue'[u] = queue[u]
    BY <1>1
  <2> QED BY <1>1, <2>1, <2>2
<1>3. End' = [End EXCEPT ![s] = emitted]
  BY <1>2 DEF End
<1>4. Closing' = Closing
  BY DEF Subscribe, Closing, BusInv, FeedbackTypeOK
<1> QED BY <1>1, <1>3, <1>4 DEF Log!Attach

\* A delivery is the next event of the log.
LEMMA DeliverReads ==
  ASSUME BusInv, NEW s \in Streams, Deliver(s)
  PROVE  Log!Read(s)
<1>1. /\ queue[s] # << >> /\ UNCHANGED <<emitted, subscribers, stream>>
      /\ seen' = [seen EXCEPT ![s] = Head(queue[s])]
      /\ queue' = [queue EXCEPT ![s] = Tail(queue[s])]
      /\ seen \in [Streams -> 0..MaxEvents] /\ queue \in [Streams -> Seq(1..MaxEvents)]
  BY DEF Deliver, BusInv, FeedbackTypeOK
<1>2. Head(queue[s]) = seen[s] + 1 /\ Len(Tail(queue[s])) = Len(queue[s]) - 1
  BY <1>1, BusTypes, TailConsecutive DEF BusInv, QueueOrdered
<1>3. seen[s] \in Nat /\ Len(queue[s]) \in Nat /\ Len(queue[s]) # 0
  BY <1>1, BusTypes, EmptySeq DEF BusInv
<1>4. \A u \in Streams : seen'[u] + Len(queue'[u]) = seen[u] + Len(queue[u])
  <2>1. seen'[s] = seen[s] + 1 /\ Len(queue'[s]) = Len(queue[s]) - 1
    BY <1>1, <1>2
  <2>2. \A u \in Streams \ {s} : seen'[u] = seen[u] /\ queue'[u] = queue[u]
    BY <1>1
  <2> QED BY <1>3, <2>1, <2>2
<1>5. End' = End /\ Closing' = Closing
  BY <1>1, <1>4 DEF End, Closing
<1>6. seen[s] < End[s]
  BY <1>3 DEF End
<1>7. seen' = [seen EXCEPT ![s] = seen[s] + 1]
  BY <1>1, <1>2
<1> QED BY <1>1, <1>5, <1>6, <1>7 DEF Log!Read

\* Every step of the bus is a step of the log, or none.
LEMMA LogStep ==
  ASSUME BusInv, ClosedIsOff, [BusNext]_busVars
  PROVE  [Log!Next]_Log!logVars
<1>1. stream \in [Streams -> StreamStates]
  BY DEF BusInv, FeedbackTypeOK
<1>2. CASE Emit
  BY <1>2, EmitWrites DEF Log!Next
<1>3. ASSUME NEW s \in Streams, Subscribe(s) \/ Deliver(s) PROVE Log!Next
  BY <1>3, SubscribeAttaches, DeliverReads DEF Log!Next
<1>4. ASSUME NEW s \in Streams, StartStream(s) PROVE UNCHANGED Log!logVars
  <2>1. Closing' = Closing
    BY <1>1, <1>4 DEF StartStream, Closing
  <2> QED BY <1>4, <2>1 DEF StartStream, End, Log!logVars
<1>5. ASSUME NEW s \in Streams, Disconnect(s) PROVE [Log!Next]_Log!logVars
  <2>1. UNCHANGED <<emitted, subscribers, seen>> /\ End' = End
    BY <1>5 DEF Disconnect, End
  <2>2. CASE stream[s] = "streaming"
    <3>1. Closing' = Closing \cup {s}
      BY <1>1, <1>5, <2>2 DEF Disconnect, Closing
    <3>2. Log!Leave(s)
      BY <2>1, <3>1 DEF Log!Leave
    <3> QED BY <3>2 DEF Log!Next
  <2>3. CASE stream[s] = "accepted"
    <3>1. Closing' = Closing
      BY <1>1, <1>5, <2>3 DEF Disconnect, Closing
    <3> QED BY <2>1, <3>1 DEF Log!logVars
  <2> QED BY <1>5, <2>2, <2>3 DEF Disconnect
<1>6. ASSUME NEW s \in Streams, Unsubscribe(s) PROVE Log!Next
  <2>1. Closing' = Closing \ {s} /\ s \in Closing
    BY <1>1, <1>6 DEF Unsubscribe, Closing
  <2>2. End' = End
    BY <1>6 DEF Unsubscribe, End
  <2>3. Log!Detach(s)
    BY <1>6, <2>1, <2>2 DEF Unsubscribe, Log!Detach
  <2> QED BY <2>3 DEF Log!Next
<1>7. CASE ClearEvents \/ UNCHANGED busVars
  BY <1>7 DEF ClearEvents, busVars, End, Closing, Log!logVars
<1> QED BY <1>2, <1>3, <1>4, <1>5, <1>6, <1>7 DEF BusNext

\* A bus without streams is a log without readers.
LEMMA LogInit == BusInit => Log!Init
<1> SUFFICES ASSUME BusInit PROVE Log!Init
  OBVIOUS
<1>1. End = [s \in Streams |-> 0] /\ Closing = {}
  BY DEF BusInit, End, Closing
<1> QED BY <1>1 DEF BusInit, Log!Init

\* The bus implements one log that its streams read in order and without gaps,
\* and whose emits detach exactly the readers that lag by QueueSize events.
THEOREM BusIsLog == BusSpec => KeepsLog
<1>1. BusInit => ClosedIsOff
  BY DEF BusInit, ClosedIsOff
<1>2. BusInv /\ ClosedIsOff /\ [BusNext]_busVars => ClosedIsOff'
  BY ClosedIsOffNext
<1>3. BusInv /\ ClosedIsOff /\ [BusNext]_busVars => [Log!Next]_Log!logVars
  BY LogStep
<1> QED
  BY <1>1, <1>2, <1>3, LogInit, BusInvariance, PTL DEF BusSpec, KeepsLog, Log!Spec
=============================================================================
