------------------------------ MODULE FeedbackBus ------------------------------
(***************************************************************************)
(* core/feedback.py: the ring buffer of tool executions and its fan-out to *)
(* the SSE streams that mcp_server/server.py opens on GET /feedback.       *)
(*                                                                         *)
(* Atomicity.  emit() holds the lock around code that does not suspend,    *)
(* and put_nowait never does: an emit is one step.  A stream suspends in   *)
(* q.get() and wherever its response is sent.                              *)
(*                                                                         *)
(* An event is the number of the emit that made it.                        *)
(***************************************************************************)
EXTENDS Integers, SequencesExt

CONSTANTS
  Streams,       \* bound: open SSE responses, leftovers included
  RingSize,      \* _maxsize
  QueueSize,     \* maxsize of a subscriber's queue
  MaxEvents      \* bound: emits

ASSUME FeedbackAssumption ==
  /\ RingSize \in Nat \ {0}
  /\ QueueSize \in Nat \ {0}
  /\ MaxEvents \in Nat

VARIABLES
  events,        \* _events
  emitted,       \* how many emits there have been
  subscribers,   \* _subscribers: the streams whose queue is in the list
  queue,         \* per stream: its asyncio.Queue
  seen,          \* history, per stream: the newest event that left its queue
  stream         \* per stream: where its response is

busVars == <<events, emitted, subscribers, queue, seen, stream>>

\* "accepted": the handler has subscribed, the generator has not started;
\* "closing": the client is gone, the finally clause has not run; "orphan": the
\* client went before the generator started, so there is no finally clause.
StreamStates == {"closed", "accepted", "streaming", "closing", "orphan"}

FeedbackTypeOK ==
  /\ events \in Seq(1..MaxEvents)
  /\ emitted \in 0..MaxEvents
  /\ subscribers \subseteq Streams
  /\ queue \in [Streams -> Seq(1..MaxEvents)]
  /\ seen \in [Streams -> 0..MaxEvents]
  /\ stream \in [Streams -> StreamStates]

BusInit ==
  /\ events = << >>
  /\ emitted = 0
  /\ subscribers = {}
  /\ queue = [s \in Streams |-> << >>]
  /\ seen = [s \in Streams |-> 0]
  /\ stream = [s \in Streams |-> "closed"]

-----------------------------------------------------------------------------
(* FeedbackBus *)

\* Mutation: the event that does not fit is put in place of the newest one.
RememberedNewestLost(e) ==
  IF Len(events) < RingSize THEN Append(events, e)
  ELSE Append(Front(events), e)

\* The event is appended, and the oldest goes if that is one too many.
Remembered(e) ==
  LET ring == Append(events, e)
  IN  IF Len(ring) > RingSize THEN Tail(ring) ELSE ring

Full(s) == Len(queue[s]) >= QueueSize

\* Mutation: a full queue loses this event and stays subscribed.
EmitSkipsFull ==
  /\ emitted < MaxEvents
  /\ emitted' = emitted + 1
  /\ events' = Remembered(emitted + 1)
  /\ queue' = [s \in Streams |-> IF s \in subscribers /\ ~Full(s)
                                 THEN Append(queue[s], emitted + 1) ELSE queue[s]]
  /\ UNCHANGED <<subscribers, stream, seen>>

\* Mutation: the queue is unbounded.
EmitUnbounded ==
  /\ emitted < MaxEvents
  /\ emitted' = emitted + 1
  /\ events' = Remembered(emitted + 1)
  /\ queue' = [s \in Streams |-> IF s \in subscribers
                                 THEN Append(queue[s], emitted + 1) ELSE queue[s]]
  /\ UNCHANGED <<subscribers, stream, seen>>

\* Mutation: the dead queues are cut from the head of the list.
EmitDropsTooSoon ==
  /\ emitted < MaxEvents
  /\ emitted' = emitted + 1
  /\ events' = Remembered(emitted + 1)
  /\ subscribers' = {s \in subscribers : Len(queue[s]) + 1 < QueueSize}
  /\ queue' = [s \in Streams |-> IF s \in subscribers /\ ~Full(s)
                                 THEN Append(queue[s], emitted + 1) ELSE queue[s]]
  /\ UNCHANGED <<stream, seen>>

\* Mutation: the event is put in the ring before it is made.
EmitTooEarly ==
  /\ emitted < MaxEvents
  /\ emitted' = emitted + 1
  /\ events' = Remembered(emitted)
  /\ UNCHANGED <<subscribers, queue, stream, seen>>

\* A queue that is full is taken off the list; its stream is not told.
Emit ==
  /\ emitted < MaxEvents
  /\ emitted' = emitted + 1
  /\ events' = Remembered(emitted + 1)
  /\ subscribers' = {s \in subscribers : ~Full(s)}
  /\ queue' = [s \in Streams |-> IF s \in subscribers'
                                 THEN Append(queue[s], emitted + 1) ELSE queue[s]]
  /\ stream' = [s \in Streams |->
                  IF stream[s] = "orphan" /\ s \notin subscribers' THEN "closed" ELSE stream[s]]
  /\ UNCHANGED seen

\* get_recent(): _events[-n:], newest first.  The slice [-0:] is the whole list.
Recent(n) ==
  LET first == IF n = 0 \/ n >= Len(events) THEN 1 ELSE Len(events) - n + 1
  IN  Reverse(SubSeq(events, first, Len(events)))

ClearEvents ==
  /\ events' = << >>
  /\ UNCHANGED <<emitted, subscribers, queue, seen, stream>>

-----------------------------------------------------------------------------
(* GET /feedback *)

Subscribe(s) ==
  /\ stream[s] = "closed"
  /\ stream' = [stream EXCEPT ![s] = "accepted"]
  /\ subscribers' = subscribers \cup {s}
  /\ queue' = [queue EXCEPT ![s] = << >>]
  /\ seen' = [seen EXCEPT ![s] = emitted]
  /\ UNCHANGED <<events, emitted>>

StartStream(s) ==
  /\ stream[s] = "accepted"
  /\ stream' = [stream EXCEPT ![s] = "streaming"]
  /\ UNCHANGED <<events, emitted, subscribers, queue, seen>>

\* q.get() returns and the event is sent.
Deliver(s) ==
  /\ stream[s] = "streaming"
  /\ queue[s] # << >>
  /\ queue' = [queue EXCEPT ![s] = Tail(@)]
  /\ seen' = [seen EXCEPT ![s] = Head(queue[s])]
  /\ UNCHANGED <<events, emitted, subscribers, stream>>

Disconnect(s) ==
  /\ stream[s] \in {"accepted", "streaming"}
  /\ stream' = [stream EXCEPT ![s] =
                  IF @ = "streaming" THEN "closing"
                  ELSE IF s \in subscribers THEN "orphan" ELSE "closed"]
  /\ UNCHANGED <<events, emitted, subscribers, queue, seen>>

\* The finally clause: unsubscribe(), to which a queue that is no longer in the
\* list is no error.
Unsubscribe(s) ==
  /\ stream[s] = "closing"
  /\ stream' = [stream EXCEPT ![s] = "closed"]
  /\ subscribers' = subscribers \ {s}
  /\ UNCHANGED <<events, emitted, queue, seen>>

-----------------------------------------------------------------------------
BusNext ==
  \/ Emit
  \/ ClearEvents
  \/ \E s \in Streams :
       Subscribe(s) \/ StartStream(s) \/ Deliver(s) \/ Disconnect(s) \/ Unsubscribe(s)

BusSpec == BusInit /\ [][BusNext]_busVars

-----------------------------------------------------------------------------
(* Properties *)

\* What a stream has sent and what waits in its queue are consecutive events;
\* as long as it is subscribed they reach up to the newest one.  A slow stream
\* may therefore be cut off, but it never skips an event unnoticed.
NoGaps ==
  \A s \in Streams :
    /\ \A i \in DOMAIN queue[s] : queue[s][i] = seen[s] + i
    /\ s \in subscribers => seen[s] + Len(queue[s]) = emitted

\* A queue that nobody reads any more is kept for QueueSize events at the most:
\* a response that never started leaks its queue, but not for good.
UnreadIsForgotten ==
  \A s \in subscribers : stream[s] \in {"accepted", "closing", "orphan"}
                           => emitted - seen[s] <= QueueSize

\* get_recent(n) gives the n newest events of those remembered, newest first,
\* and no more than _maxsize of them are remembered.  That is so for n >= 1 only:
\* GET /feedback/recent?n=0 answers with all of them (see Recent).
RecentIsNewest ==
  /\ Len(events) <= RingSize
  /\ \A n \in 1..RingSize :
       Recent(n) = [i \in 1..(IF n < Len(events) THEN n ELSE Len(events)) |-> emitted - i + 1]

-----------------------------------------------------------------------------
(* Refinement: ring, queues and responses come to a log with cursors *)

End == [s \in Streams |-> seen[s] + Len(queue[s])]

Closing == {s \in Streams : stream[s] = "closing"}

Log == INSTANCE EventLog
         WITH Readers <- Streams, Room <- QueueSize, written <- emitted,
              attached <- subscribers, read <- seen, end <- End, leaving <- Closing

\* A stream sees every event once and in order from its subscription on, and is
\* taken off the list when it falls QueueSize events behind or closes, never
\* for another reason and never later.
KeepsLog == Log!Spec
=============================================================================
