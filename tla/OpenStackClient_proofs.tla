------------------------- MODULE OpenStackClient_proofs -------------------------
(***************************************************************************)
(* Proofs about OpenStackClient, for any requests, projects, thresholds    *)
(* and number of retries.                                                  *)
(*                                                                         *)
(* Every action of a request is first brought to one shape: StepOf says    *)
(* what the request does next and what it did to the breaker, PoolMove     *)
(* what it did to the pool.  The invariants then speak of these shapes.    *)
(*                                                                         *)
(* ConnectsOnce is not inductive.  That one coroutine at most connects     *)
(* rests on the queue of the lock: whoever connects is at its head, nobody *)
(* is in it twice, and whoever is in it does nothing but wait (QueueOK).   *)
(***************************************************************************)
EXTENDS OpenStackClient, CircuitBreaker_proofs, SequenceTheorems

Request == [pc : {"idle", "pool", "running", "backoff"}, kind : Kinds,
            project : Projects, attempt : 0..Retries-1, spent : BOOLEAN]

\* A request in a backoff has an attempt left, and one whose thread runs is the
\* one that is inside breaker.call.
RequestsOK ==
  /\ req \in [Callers -> Request]
  /\ \A c \in Callers : req[c].pc = "backoff" => req[c].attempt < Retries - 1
  /\ \A c \in Callers : req[c].pc = "running" <=> calls[c] # "idle"

\* The lock's queue holds each coroutine once, and only those that wait.
QueueOK ==
  /\ lock \in Seq(Callers)
  /\ \A i, j \in 1..Len(lock) : lock[i] = lock[j] => i = j
  /\ \A i \in 1..Len(lock) : req[lock[i]].pc = "pool"

\* Whoever waits is in it.
InLine == \A c \in Callers : req[c].pc = "pool" => \E i \in 1..Len(lock) : lock[i] = c

\* Whoever connects does so alone, at the head of the queue, for a key that is
\* not in the pool.
ConnectingOK ==
  \A c \in connecting :
    /\ c \in Callers /\ connecting = {c}
    /\ lock # << >> /\ lock[1] = c
    /\ req[c].project \notin pool

PoolTypeOK ==
  /\ pool \subseteq Projects
  /\ keystone \in {"closed", "open", "half"}
  /\ rejections \in 0..KeystoneThreshold

ClientInv ==
  /\ BreakerInv /\ RequestsOK
  /\ PoolTypeOK /\ QueueOK /\ InLine /\ ConnectingOK
  /\ up \in BOOLEAN

-----------------------------------------------------------------------------
(* What a step of a request is *)

\* c's request becomes r, and the breaker sees an admission, a result or nothing.
StepOf(c, r) ==
  /\ r \in Request
  /\ req' = [req EXCEPT ![c] = r]
  /\ r.pc = "backoff" => r.attempt < Retries - 1
  /\ \/ Admit(c) /\ r.pc = "running"
     \/ ShortCircuit(c) /\ r.pc = "idle"
     \/ (Succeed(c) \/ Fail(c) \/ Cancel(c)) /\ r.pc \in {"idle", "backoff"}
     \/ UNCHANGED breakerVars /\ r.pc \in {"idle", "pool"} /\ req[c].pc # "running"

\* What c does to the pool while its request becomes r.
PoolMove(c, r) ==
  \/ UNCHANGED poolVars /\ req[c].pc # "pool" /\ r.pc # "pool"
  \/ Wait(c) /\ req[c].pc = "idle" /\ r.pc = "pool"
  \/ Connect(c, r.project) /\ req[c].pc \in {"idle", "pool"} /\ r.pc = "pool"
  \/ /\ \E p \in Projects : Reuse(c, p) \/ Refused(c, p)
     /\ req[c].pc \in {"idle", "pool"} /\ r.pc # "pool"
  \/ Connected(c, req[c].project) /\ r.pc # "pool"
  \/ NotConnected(c) /\ r.pc # "pool"
  \/ LeavePool(c) /\ r.pc # "pool"

\* A coroutine without a request is described by a proper record.
LEMMA NoRequestType == NoRequest \in Request /\ NoRequest.pc = "idle"
BY PoolAssumption, ClientAssumption DEF NoRequest, NewRequest, Request, Kinds

\* An attempt is admitted or ends the request.
LEMMA AttemptShape ==
  ASSUME NEW c \in Callers, NEW q \in Request, Attempt(c, q)
  PROVE  \E r \in Request : StepOf(c, r) /\ r.pc \in {"idle", "running"}
<1>1. CASE Admit(c) /\ req' = [req EXCEPT ![c] = [q EXCEPT !.pc = "running"]]
  <2> DEFINE r == [q EXCEPT !.pc = "running"]
  <2>1. r \in Request /\ r.pc = "running"
    BY DEF Request
  <2>2. req' = [req EXCEPT ![c] = r] /\ Admit(c)
    BY <1>1
  <2> HIDE DEF r
  <2> QED BY <2>1, <2>2 DEF StepOf
<1>2. CASE ShortCircuit(c) /\ Ends(c)
  BY <1>2, NoRequestType DEF StepOf, Ends
<1> QED BY <1>1, <1>2 DEF Attempt

\* What follows once the lock is there.
LEMMA WithLockShape ==
  ASSUME NEW c \in Callers, NEW q \in Request, q.pc \in {"idle", "pool"},
         req[c].pc \in {"idle", "pool"}, WithLock(c, q)
  PROVE  \E r \in Request : StepOf(c, r) /\ PoolMove(c, r)
<1>1. q.project \in Projects
  BY DEF Request
<1>2. CASE Reuse(c, q.project) /\ Attempt(c, q)
  BY <1>1, <1>2, AttemptShape DEF PoolMove
<1>3. CASE /\ Connect(c, q.project)
           /\ req' = [req EXCEPT ![c] = [q EXCEPT !.pc = "pool"]]
           /\ UNCHANGED breakerVars
  <2> DEFINE r == [q EXCEPT !.pc = "pool"]
  <2>1. r \in Request /\ r.pc = "pool" /\ r.project = q.project
    BY DEF Request
  <2>2. /\ req' = [req EXCEPT ![c] = r] /\ Connect(c, r.project)
        /\ UNCHANGED breakerVars /\ req[c].pc # "running"
    BY <1>3, <2>1
  <2> HIDE DEF r
  <2> QED BY <2>1, <2>2 DEF StepOf, PoolMove
<1>4. CASE Refused(c, q.project) /\ Ends(c) /\ UNCHANGED breakerVars
  BY <1>1, <1>4, NoRequestType DEF StepOf, PoolMove, Ends
<1> QED BY <1>2, <1>3, <1>4 DEF WithLock

\* The actions of a request have the shapes.
LEMMA RequestShape ==
  ASSUME ClientInv, NEW c \in Callers,
         \/ \E kind \in Kinds, p \in Projects : Begin(c, kind, p)
         \/ GetLock(c) \/ Retry(c) \/ ThreadEnds(c) \/ CancelRequest(c)
  PROVE  (\E r \in Request : StepOf(c, r) /\ PoolMove(c, r)) /\ UNCHANGED up
<1>1. req \in [Callers -> Request] /\ req[c] \in Request
  BY DEF ClientInv, RequestsOK
<1>2. ASSUME NEW kind \in Kinds, NEW p \in Projects, Begin(c, kind, p)
      PROVE  (\E r \in Request : StepOf(c, r) /\ PoolMove(c, r)) /\ UNCHANGED up
  <2> DEFINE q == NewRequest(kind, p)
             w == [q EXCEPT !.pc = "pool"]
  <2>1. q \in Request /\ q.pc = "idle" /\ w \in Request /\ w.pc = "pool"
    <3>1. 0 \in 0..Retries-1
      BY ClientAssumption
    <3>2. q \in Request /\ q.pc = "idle"
      BY <3>1 DEF NewRequest, Request
    <3> HIDE DEF q
    <3> QED BY <3>2 DEF Request
  <2>2. req[c].pc = "idle" /\ UNCHANGED up
    BY <1>2 DEF Begin
  <2>3. CASE WithLock(c, q)
    <3> HIDE DEF q
    <3> QED BY <2>1, <2>2, <2>3, WithLockShape
  <2>4. CASE Wait(c) /\ req' = [req EXCEPT ![c] = w] /\ UNCHANGED breakerVars
    <3> HIDE DEF w
    <3> QED BY <2>1, <2>2, <2>4 DEF StepOf, PoolMove
  <2> QED BY <1>2, <2>3, <2>4 DEF Begin
<1>3. CASE GetLock(c)
  BY <1>1, <1>3, WithLockShape DEF GetLock
<1>4. CASE Retry(c)
  <2> DEFINE q == [req[c] EXCEPT !.attempt = @ + 1]
  <2>1. req[c].pc = "backoff" /\ req[c].attempt < Retries - 1
    BY <1>4 DEF Retry, ClientInv, RequestsOK
  <2>2. q \in Request
    BY <1>1, <2>1, ClientAssumption DEF Request
  <2>3. Attempt(c, q) /\ UNCHANGED <<poolVars, up>>
    BY <1>4 DEF Retry
  <2> HIDE DEF q
  <2>4. PICK r \in Request : StepOf(c, r) /\ r.pc \in {"idle", "running"}
    BY <2>2, <2>3, AttemptShape
  <2> QED BY <2>1, <2>3, <2>4 DEF PoolMove
<1>5. CASE ConnectOk(c)
  <2>1. PICK r \in Request : StepOf(c, r) /\ r.pc \in {"idle", "running"}
    BY <1>1, <1>5, AttemptShape DEF ConnectOk
  <2> QED BY <1>5, <2>1 DEF ConnectOk, PoolMove
<1>6. CASE ConnectFails(c)
  BY <1>6, NoRequestType DEF ConnectFails, Ends, StepOf, PoolMove
<1>7. CASE AttemptOk(c)
  BY <1>7, NoRequestType DEF AttemptOk, Ends, StepOf, PoolMove
<1>8. CASE AttemptFails(c)
  <2>1. CASE req[c].attempt = Retries - 1
    BY <1>8, <2>1, NoRequestType DEF AttemptFails, Ends, StepOf, PoolMove
  <2>2. CASE req[c].attempt # Retries - 1
    <3>0. PICK s \in BOOLEAN : s = (req[c].kind = "list")
      OBVIOUS
    <3> DEFINE r == [req[c] EXCEPT !.pc = "backoff", !.spent = s]
    <3>1. r \in Request /\ r.pc = "backoff" /\ r.attempt = req[c].attempt
      BY <1>1 DEF Request
    <3>3. r.attempt < Retries - 1
      BY <1>1, <2>2, <3>1, ClientAssumption DEF Request
    <3>2. /\ req' = [req EXCEPT ![c] = r] /\ Fail(c) /\ req[c].pc = "running"
          /\ UNCHANGED <<poolVars, up>>
      BY <1>1, <1>8, <2>2, <3>0 DEF AttemptFails
    <3> HIDE DEF r
    <3> QED BY <3>1, <3>2, <3>3 DEF StepOf, PoolMove
  <2> QED BY <2>1, <2>2
<1>9. CASE CancelRequest(c)
  BY <1>9, NoRequestType DEF CancelRequest, Ends, StepOf, PoolMove
<1> QED BY <1>2, <1>3, <1>4, <1>5, <1>6, <1>7, <1>8, <1>9 DEF ThreadEnds

-----------------------------------------------------------------------------
(* Requests and breaker *)

\* Nothing is asked, nobody waits.
LEMMA ClientInitInv == ClientInit => ClientInv
<1> SUFFICES ASSUME ClientInit PROVE ClientInv
  OBVIOUS
<1>1. RequestsOK
  BY NoRequestType DEF ClientInit, BreakerInit, RequestsOK
<1>2. QueueOK /\ ConnectingOK
  BY EmptySeq DEF ClientInit, PoolInit, QueueOK, ConnectingOK
<1>4. InLine
  BY NoRequestType DEF ClientInit, InLine
<1>3. PoolTypeOK
  BY PoolAssumption DEF ClientInit, PoolInit, PoolTypeOK
<1> QED BY <1>1, <1>2, <1>3, <1>4, BreakerInitInv DEF ClientInit, ClientInv

\* A step of a request is one of the breaker, or leaves it alone.
LEMMA BreakerOfStep ==
  ASSUME NEW c \in Callers, NEW r \in Request, StepOf(c, r)
  PROVE  [BreakerNext]_breakerVars
BY DEF StepOf, BreakerNext

\* Requests keep their types, and being inside breaker.call.
LEMMA RequestsStep ==
  ASSUME ClientInv, NEW c \in Callers, NEW r \in Request, StepOf(c, r)
  PROVE  /\ RequestsOK'
         /\ \A d \in Callers : req'[d] = IF d = c THEN r ELSE req[d]
<1>1. /\ req \in [Callers -> Request]
      /\ calls \in [Callers -> {"idle", "normal", "trial"}]
      /\ \A d \in Callers : req[d].pc = "running" <=> calls[d] # "idle"
  BY DEF ClientInv, RequestsOK, BreakerInv, BreakerTypeOK
<1>2. \A d \in Callers : req'[d] = IF d = c THEN r ELSE req[d]
  BY <1>1 DEF StepOf
<1>3. /\ \A d \in Callers : d # c => calls'[d] = calls[d]
      /\ r.pc = "running" <=> calls'[c] # "idle"
  <2>1. CASE Admit(c) /\ r.pc = "running"
    BY <1>1, <2>1 DEF Admit, AdmitClosed, AdmitHalf
  <2>2. CASE ShortCircuit(c) /\ r.pc = "idle"
    BY <2>2 DEF ShortCircuit, breakerVars
  <2>3. CASE (Succeed(c) \/ Fail(c) \/ Cancel(c)) /\ r.pc \in {"idle", "backoff"}
    BY <1>1, <2>3 DEF Succeed, Fail, Cancel, Leave
  <2>4. CASE UNCHANGED breakerVars /\ r.pc \in {"idle", "pool"} /\ req[c].pc # "running"
    BY <1>1, <2>4 DEF breakerVars
  <2> QED BY <2>1, <2>2, <2>3, <2>4 DEF StepOf
<1>4. req' \in [Callers -> Request]
  BY <1>1 DEF StepOf
<1>5. r.pc = "backoff" => r.attempt < Retries - 1
  BY DEF StepOf
<1> QED BY <1>1, <1>2, <1>3, <1>4, <1>5 DEF ClientInv, RequestsOK

-----------------------------------------------------------------------------
(* The queue of the lock *)

\* Taking out one position leaves the others in order.
LEMMA RemoveAtProperties ==
  ASSUME NEW S, NEW s \in Seq(S), NEW p \in 1..Len(s)
  PROVE  /\ RemoveAt(s, p) \in Seq(S)
         /\ Len(RemoveAt(s, p)) = Len(s) - 1
         /\ \A i \in 1..Len(s)-1 : RemoveAt(s, p)[i] = IF i < p THEN s[i] ELSE s[i + 1]
<1> DEFINE l == SubSeq(s, 1, p - 1)
           r == SubSeq(s, p + 1, Len(s))
<1>1. Len(s) \in Nat /\ \A i \in 1..Len(s) : s[i] \in S
  BY LenProperties, ElementOfSeq
<1>2. /\ l \in Seq(S) /\ Len(l) = p - 1
      /\ \A i \in 1..p-1 : l[i] = s[i]
  <2>1. (\A i \in 1..p-1 : s[i] \in S) /\ p - 1 \in Int /\ 1 \in Int
    BY <1>1
  <2>2. /\ l \in Seq(S)
        /\ Len(l) = IF 1 <= p - 1 THEN (p - 1) - 1 + 1 ELSE 0
        /\ \A i \in 1..(p - 1) - 1 + 1 : l[i] = s[1 + i - 1]
    BY <2>1, SubSeqProperties
  <2> QED BY <1>1, <2>2
<1>3. /\ r \in Seq(S) /\ Len(r) = Len(s) - p
      /\ \A i \in 1..Len(s)-p : r[i] = s[p + i]
  <2>1. (\A i \in p+1..Len(s) : s[i] \in S) /\ p + 1 \in Int /\ Len(s) \in Int
    BY <1>1
  <2>2. /\ r \in Seq(S)
        /\ Len(r) = IF p + 1 <= Len(s) THEN Len(s) - (p + 1) + 1 ELSE 0
        /\ \A i \in 1..Len(s) - (p + 1) + 1 : r[i] = s[(p + 1) + i - 1]
    BY <2>1, SubSeqProperties
  <2> HIDE DEF r
  <2>3. ASSUME NEW i \in 1..Len(s) - p PROVE r[i] = s[p + i]
    <3>1. i \in 1..Len(s) - (p + 1) + 1 /\ (p + 1) + i - 1 = p + i
      BY <1>1
    <3>2. r[i] = s[(p + 1) + i - 1]
      BY <2>2, <3>1
    <3> QED BY <3>1, <3>2
  <2>4. Len(r) = Len(s) - p
    BY <1>1, <2>2
  <2> QED BY <2>2, <2>3, <2>4
<1> HIDE DEF l, r
<1>4. RemoveAt(s, p) = l \o r
  BY DEF RemoveAt, l, r
<1>5. /\ l \o r \in Seq(S)
      /\ Len(l \o r) = Len(l) + Len(r)
      /\ \A i \in 1..Len(l) + Len(r) : (l \o r)[i] = IF i <= Len(l) THEN l[i] ELSE r[i - Len(l)]
  BY <1>2, <1>3, ConcatProperties
<1>6. Len(RemoveAt(s, p)) = Len(s) - 1
  BY <1>1, <1>2, <1>3, <1>4, <1>5
<1>7. ASSUME NEW i \in 1..Len(s)-1
      PROVE  RemoveAt(s, p)[i] = IF i < p THEN s[i] ELSE s[i + 1]
  <2>1. (l \o r)[i] = IF i <= p - 1 THEN l[i] ELSE r[i - (p - 1)]
    BY <1>1, <1>2, <1>3, <1>5
  <2>2. CASE i < p
    BY <1>1, <1>2, <1>4, <2>1, <2>2
  <2>3. CASE ~(i < p)
    <3>1. i - (p - 1) \in 1..Len(s)-p /\ p + (i - (p - 1)) = i + 1
      BY <1>1, <2>3
    <3> QED BY <1>1, <1>3, <1>4, <2>1, <2>3, <3>1
  <2> QED BY <2>2, <2>3
<1> QED BY <1>4, <1>5, <1>6, <1>7

\* s holds nobody twice, and the members of the queue other than c.
SubQueue(s, c) ==
  /\ s \in Seq(Callers)
  /\ \A i, j \in 1..Len(s) : s[i] = s[j] => i = j
  /\ \A i \in 1..Len(s) : s[i] # c /\ \E j \in 1..Len(lock) : s[i] = lock[j]
  /\ \A j \in 1..Len(lock) : lock[j] # c => \E i \in 1..Len(s) : s[i] = lock[j]

\* Whoever has the turn or connects passes the lock on to the next.
LEMMA ReleasedProperties ==
  ASSUME QueueOK, NEW c \in Callers, lock = << >> \/ lock[1] = c
  PROVE  SubQueue(Released, c)
<1>1. CASE lock = << >>
  BY <1>1, EmptySeq DEF Released, SubQueue, QueueOK
<1>2. CASE lock # << >>
  <2>1. /\ Released = Tail(lock) /\ Released \in Seq(Callers)
        /\ Len(Released) = Len(lock) - 1
        /\ \A i \in 1..Len(Released) : Released[i] = lock[i + 1]
    BY <1>2, HeadTailProperties DEF Released, QueueOK
  <2>2. Len(lock) \in Nat
    BY LenProperties DEF QueueOK
  <2>3. ASSUME NEW i \in 1..Len(Released)
        PROVE  i + 1 \in 1..Len(lock) /\ 1 \in 1..Len(lock) /\ i + 1 # 1 /\ i \in Nat
    BY <2>1, <2>2
  <2>4. ASSUME NEW i \in 1..Len(Released), NEW j \in 1..Len(Released), Released[i] = Released[j]
        PROVE  i = j
    <3>1. i + 1 = j + 1
      BY <2>1, <2>3, <2>4 DEF QueueOK
    <3> QED BY <2>3, <3>1
  <2>5. ASSUME NEW i \in 1..Len(Released)
        PROVE  Released[i] # c /\ \E j \in 1..Len(lock) : Released[i] = lock[j]
    BY <1>2, <2>1, <2>3 DEF QueueOK
  <2>6. ASSUME NEW j \in 1..Len(lock), lock[j] # c
        PROVE  \E i \in 1..Len(Released) : Released[i] = lock[j]
    <3>1. j - 1 \in 1..Len(Released) /\ (j - 1) + 1 = j
      BY <1>2, <2>1, <2>2, <2>6
    <3> QED BY <2>1, <3>1
  <2> QED BY <2>1, <2>4, <2>5, <2>6 DEF SubQueue
<1> QED BY <1>1, <1>2

\* The state and the count of the keystone breaker keep their ranges.
LEMMA KeystoneType ==
  ASSUME PoolTypeOK, Breaker!Success \/ Breaker!Failure \/ Breaker!CoolDown
  PROVE  keystone' \in {"closed", "open", "half"} /\ rejections' \in 0..KeystoneThreshold
<1>1. KeystoneThreshold \in Nat \ {0} /\ rejections \in 0..KeystoneThreshold
  BY PoolAssumption DEF PoolTypeOK
<1>2. CASE Breaker!Success
  BY <1>1, <1>2 DEF Breaker!Success
<1>3. CASE Breaker!Failure
  BY <1>1, <1>3 DEF Breaker!Failure
<1>4. CASE Breaker!CoolDown
  BY <1>1, <1>4 DEF Breaker!CoolDown
<1> QED BY <1>2, <1>3, <1>4

\* Whoever has the turn finds nobody connecting, and is first or alone.
LEMMA TurnMeansNobodyConnects ==
  ASSUME QueueOK, ConnectingOK, NEW c \in Callers, HasTurn(c)
  PROVE  connecting = {} /\ (lock = << >> \/ lock[1] = c)
<1>1. lock # << >> => Head(lock) = lock[1]
  BY DEF QueueOK
<1>2. lock = << >> \/ lock[1] = c
  BY <1>1 DEF HasTurn
<1>3. ASSUME NEW d \in connecting PROVE FALSE
  BY <1>2, <1>3 DEF HasTurn, ConnectingOK
<1> QED BY <1>2, <1>3

\* Every move keeps the queue in order, and the one who connects at its head.
LEMMA PoolStepInv ==
  ASSUME ClientInv, NEW c \in Callers, NEW r \in Request, StepOf(c, r), PoolMove(c, r)
  PROVE  PoolTypeOK' /\ QueueOK' /\ InLine' /\ ConnectingOK'
<1>1. \A d \in Callers : req'[d] = IF d = c THEN r ELSE req[d]
  BY RequestsStep
<1>2. /\ PoolTypeOK /\ QueueOK /\ InLine /\ ConnectingOK
      /\ Len(lock) \in Nat /\ \A i \in 1..Len(lock) : lock[i] \in Callers
  BY LenProperties, ElementOfSeq DEF ClientInv, QueueOK
<1>3. ASSUME SubQueue(lock', c), r.pc # "pool" PROVE QueueOK' /\ InLine'
  <2>1. QueueOK'
    BY <1>1, <1>2, <1>3 DEF SubQueue, QueueOK
  <2>2. ASSUME NEW d \in Callers, req'[d].pc = "pool"
        PROVE  \E i \in 1..Len(lock') : lock'[i] = d
    <3>1. d # c /\ req[d].pc = "pool"
      BY <1>1, <1>3, <2>2
    <3> QED BY <1>2, <1>3, <3>1 DEF InLine, SubQueue
  <2> QED BY <2>1, <2>2 DEF InLine
<1>4. lock # << >> => 1 \in 1..Len(lock)
  BY <1>2, EmptySeq DEF QueueOK
<1>5. CASE UNCHANGED poolVars /\ req[c].pc # "pool" /\ r.pc # "pool"
  <2>1. \A i \in 1..Len(lock) : lock[i] # c
    BY <1>2, <1>5 DEF QueueOK
  <2>2. \A i \in 1..Len(lock) : req'[lock[i]] = req[lock[i]]
    BY <1>1, <1>2, <2>1
  <2>3. QueueOK'
    BY <1>2, <1>5, <2>2 DEF QueueOK, poolVars
  <2>4. ConnectingOK'
    BY <1>2, <1>4, <1>5, <2>2 DEF ConnectingOK, poolVars
  <2>5. InLine'
    BY <1>1, <1>2, <1>5 DEF InLine, poolVars
  <2> QED BY <1>2, <1>5, <2>3, <2>4, <2>5 DEF PoolTypeOK, poolVars
<1>6. CASE Wait(c) /\ req[c].pc = "idle" /\ r.pc = "pool"
  <2>1. \A i \in 1..Len(lock) : lock[i] # c /\ req'[lock[i]] = req[lock[i]]
    BY <1>1, <1>2, <1>6 DEF QueueOK
  <2>2. /\ lock # << >> /\ lock' = Append(lock, c)
        /\ UNCHANGED <<pool, connecting, keystone, rejections>>
    BY <1>6 DEF Wait
  <2>3. /\ lock' \in Seq(Callers) /\ lock' # << >>
        /\ Len(lock') = Len(lock) + 1
        /\ \A i \in 1..Len(lock) : lock'[i] = lock[i]
        /\ lock'[Len(lock) + 1] = c
    BY <2>2, AppendProperties DEF QueueOK, ClientInv
  <2>4. \A i \in 1..Len(lock') : i \in 1..Len(lock) \/ i = Len(lock) + 1
    BY <1>2, <2>3
  <2>5. QueueOK'
    <3>1. \A i, j \in 1..Len(lock') : lock'[i] = lock'[j] => i = j
      BY <1>2, <2>1, <2>3, <2>4 DEF QueueOK
    <3>2. \A i \in 1..Len(lock') : req'[lock'[i]].pc = "pool"
      BY <1>1, <1>2, <1>6, <2>1, <2>3, <2>4 DEF QueueOK
    <3> QED BY <2>3, <3>1, <3>2 DEF QueueOK
  <2>6. ConnectingOK'
    BY <1>2, <1>4, <2>1, <2>2, <2>3 DEF ConnectingOK
  <2>7. InLine'
    <3>1. Len(lock) + 1 \in 1..Len(lock') /\ \A i \in 1..Len(lock) : i \in 1..Len(lock')
      BY <1>2, <2>3
    <3> QED BY <1>1, <1>2, <2>3, <3>1 DEF InLine
  <2> QED BY <1>2, <2>2, <2>5, <2>6, <2>7 DEF PoolTypeOK
<1>7. CASE Connect(c, r.project) /\ req[c].pc \in {"idle", "pool"} /\ r.pc = "pool"
  <2>1. /\ connecting = {} /\ (lock = << >> \/ lock[1] = c)
    BY <1>2, <1>7, TurnMeansNobodyConnects DEF Connect
  <2>2. /\ lock' = <<c>> \o Released /\ connecting' = {c} /\ r.project \notin pool
        /\ UNCHANGED <<pool, keystone, rejections>>
    BY <1>7, <2>1 DEF Connect
  <2>3. SubQueue(Released, c)
    BY <1>2, <2>1, ReleasedProperties
  <2>4. PICK s : s = Released
    OBVIOUS
  <2>5. /\ s \in Seq(Callers) /\ Len(s) \in Nat
        /\ \A i, j \in 1..Len(s) : s[i] = s[j] => i = j
        /\ \A i \in 1..Len(s) : s[i] # c /\ \E j \in 1..Len(lock) : s[i] = lock[j]
        /\ \A j \in 1..Len(lock) : lock[j] # c => \E i \in 1..Len(s) : s[i] = lock[j]
    BY <2>3, <2>4, LenProperties DEF SubQueue
  <2>6. /\ <<c>> \in Seq(Callers) /\ Len(<<c>>) = 1 /\ <<c>>[1] = c
    OBVIOUS
  <2>7. /\ lock' \in Seq(Callers)
        /\ Len(lock') = 1 + Len(s)
        /\ \A i \in 1..1 + Len(s) : lock'[i] = IF i <= 1 THEN <<c>>[i] ELSE s[i - 1]
    BY <2>2, <2>4, <2>5, <2>6, ConcatProperties
  <2>8. lock'[1] = c /\ \A i \in 1..Len(lock') : i # 1 => i - 1 \in 1..Len(s) /\ lock'[i] = s[i - 1]
    <3>1. 1 \in 1..1 + Len(s)
      BY <2>5
    <3>2. lock'[1] = <<c>>[1]
      BY <2>7, <3>1
    <3>3. ASSUME NEW i \in 1..Len(lock'), i # 1
          PROVE  i \in 1..1 + Len(s) /\ ~(i <= 1) /\ i - 1 \in 1..Len(s)
      BY <2>5, <2>7, <3>3
    <3> QED BY <2>6, <2>7, <3>2, <3>3
  <2>9. QueueOK'
    <3>1. ASSUME NEW i \in 1..Len(lock'), NEW j \in 1..Len(lock'), lock'[i] = lock'[j]
          PROVE  i = j
      <4>1. \A k \in 1..Len(lock') : k # 1 => lock'[k] # lock'[1]
        <5> SUFFICES ASSUME NEW k \in 1..Len(lock'), k # 1 PROVE lock'[k] # c
          BY <2>8
        <5>1. k - 1 \in 1..Len(s) /\ lock'[k] = s[k - 1]
          BY <2>8
        <5>2. s[k - 1] # c
          BY <2>5, <5>1
        <5> QED BY <5>1, <5>2
      <4>2. CASE i = 1 \/ j = 1
        BY <3>1, <4>1, <4>2
      <4>3. CASE i # 1 /\ j # 1
        <5>1. /\ i - 1 \in 1..Len(s) /\ lock'[i] = s[i - 1]
              /\ j - 1 \in 1..Len(s) /\ lock'[j] = s[j - 1]
          BY <2>8, <4>3
        <5>2. i - 1 = j - 1
          BY <2>5, <3>1, <5>1
        <5>3. i \in Int /\ j \in Int
          BY <2>5, <2>7
        <5> QED BY <5>2, <5>3
      <4> QED BY <4>2, <4>3
    <3>2. ASSUME NEW i \in 1..Len(lock') PROVE req'[lock'[i]].pc = "pool"
      <4>1. CASE i = 1
        BY <1>1, <1>7, <2>8, <4>1
      <4>2. CASE i # 1
        <5>1. PICK j \in 1..Len(lock) : lock'[i] = lock[j] /\ lock[j] # c
          BY <2>5, <2>8, <4>2
        <5> QED BY <1>1, <1>2, <5>1 DEF QueueOK
      <4> QED BY <4>1, <4>2
    <3> QED BY <2>7, <3>1, <3>2 DEF QueueOK
  <2>10. lock' # << >>
    BY <2>5, <2>7, EmptySeq
  <2>11. ConnectingOK'
    BY <1>1, <2>2, <2>8, <2>10 DEF ConnectingOK
  <2>12. ASSUME NEW d \in Callers, req'[d].pc = "pool"
         PROVE  \E i \in 1..Len(lock') : lock'[i] = d
    <3>1. CASE d = c
      <4>1. 1 \in 1..Len(lock')
        BY <2>5, <2>7
      <4> QED BY <2>8, <3>1, <4>1
    <3>2. CASE d # c
      <4>1. PICK j \in 1..Len(lock) : lock[j] = d
        BY <1>1, <1>2, <2>12, <3>2 DEF InLine
      <4>2. PICK i \in 1..Len(s) : s[i] = d
        BY <2>5, <3>2, <4>1
      <4>3. i + 1 \in 1..Len(lock') /\ i + 1 # 1 /\ (i + 1) - 1 = i
        BY <2>5, <2>7, <4>2
      <4>4. lock'[i + 1] = s[(i + 1) - 1]
        BY <2>8, <4>3
      <4> QED BY <4>2, <4>3, <4>4
    <3> QED BY <3>1, <3>2
  <2> QED BY <1>2, <2>2, <2>9, <2>11, <2>12 DEF PoolTypeOK, InLine
<1>8. CASE (\E p \in Projects : Reuse(c, p) \/ Refused(c, p)) /\ r.pc # "pool"
  <2>1. /\ HasTurn(c) /\ lock' = Released
        /\ UNCHANGED <<pool, connecting, keystone, rejections>>
    BY <1>8 DEF Reuse, Refused
  <2>2. connecting = {} /\ (lock = << >> \/ lock[1] = c)
    BY <1>2, <2>1, TurnMeansNobodyConnects
  <2>3. SubQueue(lock', c)
    BY <1>2, <2>1, <2>2, ReleasedProperties
  <2> QED BY <1>2, <1>3, <1>8, <2>1, <2>2, <2>3 DEF PoolTypeOK, ConnectingOK
<1>9. CASE (Connected(c, req[c].project) \/ NotConnected(c)) /\ r.pc # "pool"
  <2>1. /\ c \in connecting /\ connecting' = connecting \ {c} /\ lock' = Released
        /\ Breaker!Success \/ Breaker!Failure
        /\ pool' = pool \/ pool' = pool \cup {req[c].project}
    BY <1>9 DEF Connected, NotConnected
  <2>2. connecting' = {} /\ lock[1] = c
    BY <1>2, <2>1 DEF ConnectingOK
  <2>3. SubQueue(lock', c)
    BY <1>2, <2>1, <2>2, ReleasedProperties
  <2>4. req[c].project \in Projects
    BY DEF ClientInv, RequestsOK, Request
  <2>5. PoolTypeOK'
    BY <1>2, <2>1, <2>4, KeystoneType DEF PoolTypeOK
  <2> QED BY <1>3, <1>9, <2>2, <2>3, <2>5 DEF ConnectingOK
<1>10. CASE LeavePool(c) /\ r.pc # "pool"
  <2>1. PICK p \in 1..Len(lock) : lock[p] = c /\ lock' = RemoveAt(lock, p)
    BY <1>2, <1>10, LenProperties DEF LeavePool, QueueOK
  <2>2. connecting' = connecting \ {c} /\ UNCHANGED <<pool, keystone, rejections>>
    BY <1>10 DEF LeavePool
  <2>3. /\ lock' \in Seq(Callers) /\ Len(lock') = Len(lock) - 1
        /\ \A i \in 1..Len(lock)-1 : lock'[i] = IF i < p THEN lock[i] ELSE lock[i + 1]
    BY <2>1, RemoveAtProperties DEF ClientInv, QueueOK
  <2>4. ASSUME NEW i \in 1..Len(lock')
        PROVE  /\ i \in 1..Len(lock) /\ i + 1 \in 1..Len(lock)
               /\ i < p => i # p /\ lock'[i] = lock[i]
               /\ ~(i < p) => i + 1 # p /\ lock'[i] = lock[i + 1]
    BY <1>2, <2>3
  <2>5. SubQueue(lock', c)
    <3>1. ASSUME NEW i \in 1..Len(lock'), NEW j \in 1..Len(lock'), lock'[i] = lock'[j]
          PROVE  i = j
      BY <1>2, <2>4, <3>1 DEF QueueOK
    <3>2. ASSUME NEW i \in 1..Len(lock')
          PROVE  lock'[i] # c /\ \E j \in 1..Len(lock) : lock'[i] = lock[j]
      BY <1>2, <2>1, <2>4 DEF QueueOK
    <3>3. ASSUME NEW j \in 1..Len(lock), lock[j] # c
          PROVE  \E i \in 1..Len(lock') : lock'[i] = lock[j]
      <4>1. CASE j < p
        <5>1. j \in 1..Len(lock')
          BY <1>2, <2>3, <4>1
        <5> QED BY <2>3, <4>1, <5>1
      <4>2. CASE ~(j < p)
        <5>1. j # p
          BY <2>1, <3>3
        <5>2. j - 1 \in 1..Len(lock)-1 /\ ~(j - 1 < p) /\ (j - 1) + 1 = j
          BY <1>2, <4>2, <5>1
        <5> QED BY <2>3, <5>2
      <4> QED BY <4>1, <4>2
    <3> QED BY <2>3, <3>1, <3>2, <3>3 DEF SubQueue
  <2>6. ASSUME NEW d \in connecting'
        PROVE  /\ d \in Callers /\ connecting' = {d}
               /\ lock' # << >> /\ lock'[1] = d
               /\ req'[d].project \notin pool'
    <3>1. /\ d \in Callers /\ connecting = {d} /\ d # c /\ lock # << >> /\ lock[1] = d
          /\ req[d].project \notin pool
      BY <1>2, <2>2, <2>6 DEF ConnectingOK
    <3>2. p # 1 /\ 1 \in 1..Len(lock)-1 /\ 1 < p
      BY <1>2, <1>4, <2>1, <3>1
    <3>3. lock'[1] = d
      BY <2>3, <3>1, <3>2
    <3>4. lock' # << >>
      BY <1>2, <2>3, <3>2, EmptySeq
    <3> QED BY <1>1, <2>2, <3>1, <3>3, <3>4
  <2> QED BY <1>2, <1>3, <1>10, <2>2, <2>5, <2>6 DEF PoolTypeOK, ConnectingOK
<1> QED BY <1>5, <1>6, <1>7, <1>8, <1>9, <1>10 DEF PoolMove

-----------------------------------------------------------------------------
(* The client *)

\* Every step keeps the invariant, uses the breaker as CircuitBreaker says, and
\* starts a thread only where the breaker admitted it.
LEMMA ClientNextInv ==
  ASSUME ClientInv, [ClientNext]_clientVars
  PROVE  /\ ClientInv'
         /\ [BreakerNext]_breakerVars
         /\ \A c \in Callers : req[c].pc # "running" /\ req'[c].pc = "running"
              => state' # "open"
<1>1. ASSUME NEW c \in Callers,
             \/ \E kind \in Kinds, p \in Projects : Begin(c, kind, p)
             \/ GetLock(c) \/ Retry(c) \/ ThreadEnds(c) \/ CancelRequest(c)
      PROVE  /\ ClientInv'
             /\ [BreakerNext]_breakerVars
             /\ \A d \in Callers : req[d].pc # "running" /\ req'[d].pc = "running"
                  => state' # "open"
  <2>1. PICK r \in Request : StepOf(c, r) /\ PoolMove(c, r)
    BY <1>1, RequestShape
  <2>2. UNCHANGED up
    BY <1>1, RequestShape
  <2>3. [BreakerNext]_breakerVars /\ BreakerInv'
    BY <2>1, BreakerOfStep, BreakerNextInv DEF ClientInv
  <2>4. RequestsOK' /\ \A d \in Callers : req'[d] = IF d = c THEN r ELSE req[d]
    BY <2>1, RequestsStep
  <2>5. PoolTypeOK' /\ QueueOK' /\ InLine' /\ ConnectingOK'
    BY <2>1, PoolStepInv
  <2>6. ASSUME NEW d \in Callers, req[d].pc # "running", req'[d].pc = "running"
        PROVE  state' # "open"
    <3>1. d = c /\ r.pc = "running"
      BY <2>4, <2>6
    <3>2. Admit(c)
      BY <2>1, <3>1 DEF StepOf
    <3> QED BY <3>2 DEF Admit, AdmitClosed, AdmitHalf
  <2> QED BY <2>2, <2>3, <2>4, <2>5, <2>6 DEF ClientInv
<1>2. ASSUME [BreakerNext]_breakerVars, UNCHANGED <<req, calls, poolVars>>, up' \in BOOLEAN
      PROVE  ClientInv' /\ \A c \in Callers : req'[c] = req[c]
  <2>1. BreakerInv'
    BY <1>2, BreakerNextInv DEF ClientInv
  <2> QED
    BY <1>2, <2>1
    DEF ClientInv, RequestsOK, PoolTypeOK, QueueOK, InLine, ConnectingOK, poolVars
<1>3. CASE OpenStackChanges
  BY <1>2, <1>3 DEF OpenStackChanges, breakerVars
<1>4. CASE ClientTick
  BY <1>2, <1>4 DEF ClientTick, BreakerTick, BreakerNext, ClientInv
<1>5. CASE ClientCoolDown
  <2>1. UNCHANGED <<pool, lock, connecting, breakerVars, req, up>> /\ Breaker!CoolDown
    BY <1>5 DEF ClientCoolDown, KeystoneCoolsDown
  <2>2. PoolTypeOK'
    BY <2>1, KeystoneType DEF ClientInv, PoolTypeOK
  <2>3. BreakerInv'
    BY <2>1, BreakerNextInv DEF ClientInv
  <2> QED
    BY <2>1, <2>2, <2>3
    DEF ClientInv, RequestsOK, QueueOK, InLine, ConnectingOK, breakerVars
<1>6. CASE UNCHANGED clientVars
  BY <1>2, <1>6 DEF clientVars, breakerVars, ClientInv
<1> QED BY <1>1, <1>3, <1>4, <1>5, <1>6 DEF ClientNext

\* The invariant holds in every state of every execution.
THEOREM ClientInvariance == ClientSpec => []ClientInv
<1>1. ClientInv /\ [ClientNext]_clientVars => ClientInv'
  BY ClientNextInv
<1> QED BY <1>1, ClientInitInv, PTL DEF ClientSpec

\* Requests, pool and breaker keep their types.
THEOREM ClientTypeCorrect == ClientSpec => []ClientTypeOK
<1>1. ClientInv => ClientTypeOK
  <2> SUFFICES ASSUME ClientInv PROVE ClientTypeOK
    OBVIOUS
  <2>1. connecting \subseteq Callers
    BY DEF ClientInv, ConnectingOK
  <2> QED
    BY <2>1
    DEF ClientInv, BreakerInv, RequestsOK, Request, PoolTypeOK, QueueOK, ClientTypeOK
<1> QED BY <1>1, ClientInvariance, PTL

\* The pool opens one connection at a time, and none for a key that has one,
\* however the requests wait, fail and are cancelled.
THEOREM OneConnect == ClientSpec => []ConnectsOnce
<1>1. ClientInv => ConnectsOnce
  <2> SUFFICES ASSUME ClientInv, NEW c \in connecting
               PROVE  connecting = {c} /\ Head(lock) = c /\ req[c].project \notin pool
    BY DEF ConnectsOnce
  <2> QED BY DEF ClientInv, ConnectingOK, QueueOK
<1> QED BY <1>1, ClientInvariance, PTL

\* Nobody waits for the lock behind a coroutine that has left get_connection, and
\* nobody who waits is out of its queue.
THEOREM LockGoesOn == ClientSpec => []LockIsHandedOn
<1>1. ClientInv => LockIsHandedOn
  <2> SUFFICES ASSUME ClientInv PROVE LockIsHandedOn
    OBVIOUS
  <2>1. lock \in Seq(Callers) /\ DOMAIN lock = 1..Len(lock)
        /\ \A i \in 1..Len(lock) : lock[i] \in Callers
    BY LenProperties, ElementOfSeq DEF ClientInv, QueueOK
  <2>2. ToSet(lock) = {c \in Callers : req[c].pc = "pool"}
    BY <2>1 DEF ClientInv, QueueOK, InLine, ToSet
  <2>3. IsInjective(lock)
    BY <2>1 DEF ClientInv, QueueOK, IsInjective
  <2> QED BY <2>2, <2>3 DEF LockIsHandedOn
<1> QED BY <1>1, ClientInvariance, PTL

\* No attempt, first or repeated, gets past an open breaker.
THEOREM OpenMeansNoAttempt == ClientSpec => NoAttemptWhileOpen
<1>1. ClientInv /\ [ClientNext]_clientVars =>
        [\A c \in Callers : req[c].pc # "running" /\ req'[c].pc = "running"
           => state' # "open"]_clientVars
  BY ClientNextInv
<1> QED BY <1>1, ClientInvariance, PTL DEF ClientSpec, NoAttemptWhileOpen

\* run_sdk and list_sdk use their breaker in no way that CircuitBreaker does not
\* allow, so all that is proved of the breaker alone holds inside the client.
THEOREM ClientUsesBreaker == ClientSpec => BreakerSpec
<1>1. ClientInit => BreakerInit
  BY DEF ClientInit
<1>2. ClientInv /\ [ClientNext]_clientVars => [BreakerNext]_breakerVars
  BY ClientNextInv
<1> QED BY <1>1, <1>2, ClientInvariance, PTL DEF ClientSpec, BreakerSpec

\* In particular the service's breaker keeps its contract under the retry loops.
THEOREM ClientKeepsContract == ClientSpec => KeepsContract
BY ClientUsesBreaker, BreakerImplementsContract, PTL

-----------------------------------------------------------------------------
(* Which lists are incomplete *)

\* Only a list's generator is shared, and only by the attempts after one that
\* failed.
Fresh(r) == r.spent => r.kind = "list" /\ r.attempt > 0

SpentOK == \A c \in Callers : Fresh(req[c]) \/ (req[c].pc = "backoff" /\ req[c].kind = "list")

\* A coroutine without a request has nothing spent.
LEMMA NoRequestFresh == Fresh(NoRequest)
BY DEF Fresh, NoRequest, NewRequest

\* To attempt a request, to wait for the pool with it or to give it up spends
\* nothing.
LEMMA AttemptFresh ==
  ASSUME NEW c \in Callers, NEW q \in Request, Fresh(q), Attempt(c, q)
  PROVE  \E r \in Request : Fresh(r) /\ req' = [req EXCEPT ![c] = r]
<1>1. CASE req' = [req EXCEPT ![c] = [q EXCEPT !.pc = "running"]]
  <2> DEFINE r == [q EXCEPT !.pc = "running"]
  <2>1. r \in Request /\ Fresh(r)
    BY DEF Request, Fresh
  <2>2. req' = [req EXCEPT ![c] = r]
    BY <1>1
  <2> HIDE DEF r
  <2> QED BY <2>1, <2>2
<1> QED BY <1>1, NoRequestFresh, NoRequestType DEF Attempt, Ends

LEMMA WithLockFresh ==
  ASSUME NEW c \in Callers, NEW q \in Request, Fresh(q), WithLock(c, q)
  PROVE  \E r \in Request : Fresh(r) /\ req' = [req EXCEPT ![c] = r]
<1>1. CASE req' = [req EXCEPT ![c] = [q EXCEPT !.pc = "pool"]]
  <2> DEFINE r == [q EXCEPT !.pc = "pool"]
  <2>1. r \in Request /\ Fresh(r)
    BY DEF Request, Fresh
  <2>2. req' = [req EXCEPT ![c] = r]
    BY <1>1
  <2> HIDE DEF r
  <2> QED BY <2>1, <2>2
<1> QED BY <1>1, AttemptFresh, NoRequestFresh, NoRequestType DEF WithLock, Ends

\* A generator is spent by an attempt that fails, and the retry counts it.
LEMMA SpentStep == ClientInv /\ SpentOK /\ [ClientNext]_clientVars => SpentOK'
<1> SUFFICES ASSUME ClientInv, SpentOK, [ClientNext]_clientVars PROVE SpentOK'
  OBVIOUS
<1>0. req \in [Callers -> Request]
  BY DEF ClientInv, RequestsOK
<1>1. ASSUME NEW c \in Callers, NEW r \in Request, req' = [req EXCEPT ![c] = r],
             Fresh(r) \/ (r.pc = "backoff" /\ r.kind = "list")
      PROVE  SpentOK'
  <2>1. \A d \in Callers : req'[d] = IF d = c THEN r ELSE req[d]
    BY <1>0, <1>1
  <2> QED BY <1>1, <2>1 DEF SpentOK, Fresh
<1>2. ASSUME NEW c \in Callers, NEW kind \in Kinds, NEW p \in Projects, Begin(c, kind, p)
      PROVE  SpentOK'
  <2> DEFINE q == NewRequest(kind, p)
             w == [q EXCEPT !.pc = "pool"]
  <2>1. q \in Request /\ Fresh(q) /\ w \in Request /\ Fresh(w)
    <3>1. 0 \in 0..Retries-1
      BY ClientAssumption
    <3>2. q \in Request /\ ~q.spent
      BY <3>1 DEF NewRequest, Request
    <3> HIDE DEF q
    <3> QED BY <3>2 DEF Request, Fresh
  <2>2. CASE WithLock(c, q)
    <3> HIDE DEF q
    <3> QED BY <1>1, <2>1, <2>2, WithLockFresh
  <2>3. CASE req' = [req EXCEPT ![c] = w]
    <3> HIDE DEF w
    <3> QED BY <1>1, <2>1, <2>3
  <2> QED BY <1>2, <2>2, <2>3 DEF Begin
<1>3. ASSUME NEW c \in Callers, GetLock(c) \/ ConnectOk(c) PROVE SpentOK'
  <2>1. req[c] \in Request /\ Fresh(req[c])
    BY <1>0, <1>3 DEF GetLock, ConnectOk, SpentOK
  <2> QED BY <1>1, <1>3, <2>1, WithLockFresh, AttemptFresh DEF GetLock, ConnectOk
<1>4. ASSUME NEW c \in Callers, Retry(c) PROVE SpentOK'
  <2> DEFINE q == [req[c] EXCEPT !.attempt = @ + 1]
  <2>1. req[c] \in Request /\ req[c].attempt \in 0..Retries-2 /\ req[c].pc = "backoff"
    BY <1>0, <1>4, ClientAssumption DEF Retry, ClientInv, RequestsOK, Request
  <2>2. q \in Request /\ q.attempt > 0 /\ q.spent = req[c].spent /\ q.kind = req[c].kind
    BY <2>1, ClientAssumption DEF Request
  <2>3. Attempt(c, q)
    BY <1>4 DEF Retry
  <2>4. Fresh(q)
    BY <2>1, <2>2 DEF Fresh, SpentOK
  <2> HIDE DEF q
  <2> QED BY <1>1, <2>2, <2>3, <2>4, AttemptFresh
<1>5. ASSUME NEW c \in Callers, AttemptFails(c) PROVE SpentOK'
  <2>1. CASE Ends(c)
    BY <1>1, <2>1, NoRequestType, NoRequestFresh DEF Ends
  <2>2. CASE req' = [req EXCEPT ![c].pc = "backoff", ![c].spent = req[c].kind = "list"]
    <3>0. PICK s \in BOOLEAN : s = (req[c].kind = "list")
      OBVIOUS
    <3> DEFINE r == [req[c] EXCEPT !.pc = "backoff", !.spent = s]
    <3>1. r \in Request /\ r.pc = "backoff" /\ r.spent = s /\ r.kind = req[c].kind
      BY <1>0 DEF Request
    <3>2. req' = [req EXCEPT ![c] = r]
      BY <1>0, <2>2, <3>0
    <3>3. Fresh(r) \/ (r.pc = "backoff" /\ r.kind = "list")
      BY <3>0, <3>1 DEF Fresh
    <3> HIDE DEF r
    <3> QED BY <1>1, <3>1, <3>2, <3>3
  <2> QED BY <1>5, <2>1, <2>2 DEF AttemptFails
<1>6. ASSUME NEW c \in Callers, ConnectFails(c) \/ AttemptOk(c) \/ CancelRequest(c)
      PROVE  SpentOK'
  BY <1>1, <1>6, NoRequestType, NoRequestFresh DEF ConnectFails, AttemptOk, CancelRequest, Ends
<1>7. CASE UNCHANGED req
  BY <1>7 DEF SpentOK, Fresh
<1> QED
  BY <1>2, <1>3, <1>4, <1>5, <1>6, <1>7
  DEF ClientNext, ThreadEnds, OpenStackChanges, ClientTick, ClientCoolDown, clientVars

LEMMA SpentHolds == ClientSpec => []SpentOK
<1>1. ClientInit => SpentOK
  BY NoRequestFresh DEF ClientInit, SpentOK
<1> QED BY <1>1, SpentStep, ClientInvariance, PTL DEF ClientSpec

\* What list_sdk loses it loses in a retry: a result that OpenStack did not give
\* is that of a list, and never that of its first attempt.
THEOREM OnlyRetriesLose ==
  ClientSpec => [][\A c \in Callers : AttemptOk(c) /\ req[c].spent
                      => req[c].kind = "list" /\ req[c].attempt > 0]_clientVars
<1>1. SpentOK => (\A c \in Callers : AttemptOk(c) /\ req[c].spent
                    => req[c].kind = "list" /\ req[c].attempt > 0)
  BY DEF SpentOK, Fresh, AttemptOk
<1> QED BY <1>1, SpentHolds, PTL
=============================================================================
