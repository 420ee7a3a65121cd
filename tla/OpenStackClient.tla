---------------------------- MODULE OpenStackClient ----------------------------
(***************************************************************************)
(* core/openstack_client.py as the tools use it: a coroutine takes a       *)
(* connection from the pool and makes its request through run_sdk or       *)
(* list_sdk, the retry loops around the one CircuitBreaker of the service. *)
(*                                                                         *)
(* A request suspends while it waits for the pool's lock, for osk.connect, *)
(* for the thread that asks OpenStack and in a backoff.  What it does      *)
(* between two of these is one step: the pool's part, the loop's and the   *)
(* breaker's conjoined.                                                    *)
(*                                                                         *)
(* A request is a "read" of what exists, run by run_sdk; a "missing" one,  *)
(* run by run_sdk, which a healthy OpenStack refuses with 404; or a "list" *)
(* run by list_sdk, whose attempts share one Python generator.             *)
(***************************************************************************)
EXTENDS CircuitBreaker, ConnectionPool

CONSTANT Retries    \* retries of run_sdk and list_sdk

ASSUME ClientAssumption == Retries \in Nat \ {0}

VARIABLES
  req,       \* per coroutine: its request and where it is
  up         \* OpenStack, Keystone included, answers

clientVars == <<breakerVars, poolVars, req, up>>

Kinds == {"read", "missing", "list"}

\* `spent': the generator of a list request has raised, so it is exhausted.
NewRequest(kind, p) ==
  [pc |-> "idle", kind |-> kind, project |-> p, attempt |-> 0, spent |-> FALSE]

ClientTypeOK ==
  /\ BreakerTypeOK
  /\ pool \subseteq Projects
  /\ lock \in Seq(Callers)
  /\ connecting \subseteq Callers
  /\ keystone \in {"closed", "open", "half"}
  /\ rejections \in 0..KeystoneThreshold
  /\ req \in [Callers -> [pc : {"idle", "pool", "running", "backoff"}, kind : Kinds,
                          project : Projects, attempt : 0..Retries-1, spent : BOOLEAN]]
  /\ up \in BOOLEAN

NoRequest == NewRequest("read", CHOOSE p \in Projects : TRUE)

ClientInit ==
  /\ BreakerInit
  /\ PoolInit
  /\ req = [c \in Callers |-> NoRequest]
  /\ up \in BOOLEAN

-----------------------------------------------------------------------------
Ends(c) == req' = [req EXCEPT ![c] = NoRequest]

\* breaker.call in iteration r.attempt: a thread is started, or the breaker
\* refuses and the loop raises at once.
Attempt(c, r) ==
  \/ /\ Admit(c)
     /\ req' = [req EXCEPT ![c] = [r EXCEPT !.pc = "running"]]
  \/ ShortCircuit(c) /\ Ends(c)

\* get_connection with the lock, and what follows if it returns.
WithLock(c, r) ==
  \/ Reuse(c, r.project) /\ Attempt(c, r)
  \/ /\ Connect(c, r.project)
     /\ req' = [req EXCEPT ![c] = [r EXCEPT !.pc = "pool"]]
     /\ UNCHANGED breakerVars
  \/ Refused(c, r.project) /\ Ends(c) /\ UNCHANGED breakerVars

Begin(c, kind, p) ==
  /\ req[c].pc = "idle"
  /\ \/ WithLock(c, NewRequest(kind, p))
     \/ /\ Wait(c)
        /\ req' = [req EXCEPT ![c] = [NewRequest(kind, p) EXCEPT !.pc = "pool"]]
        /\ UNCHANGED breakerVars
  /\ UNCHANGED up

\* Woken from the wait for the lock.
GetLock(c) ==
  /\ req[c].pc = "pool" /\ c \in ToSet(lock)
  /\ WithLock(c, req[c])
  /\ UNCHANGED up

ConnectOk(c) ==
  /\ req[c].pc = "pool" /\ up
  /\ Connected(c, req[c].project)
  /\ Attempt(c, req[c])
  /\ UNCHANGED up

ConnectFails(c) ==
  /\ req[c].pc = "pool" /\ ~up
  /\ NotConnected(c)
  /\ Ends(c)
  /\ UNCHANGED <<breakerVars, up>>

-----------------------------------------------------------------------------
\* Mutation: the loop does not count the attempt.
RetryUncounted(c) ==
  /\ req[c].pc = "backoff"
  /\ Attempt(c, req[c])
  /\ UNCHANGED <<poolVars, up>>

\* Mutation: the retry calls the thread pool without asking the breaker.
RetryUnguarded(c) ==
  /\ req[c].pc = "backoff"
  /\ req' = [req EXCEPT ![c].pc = "running", ![c].attempt = @ + 1]
  /\ calls' = [calls EXCEPT ![c] = "normal"]
  /\ UNCHANGED <<state, failures, openAge, halfTrials, streak, poolVars, up>>

\* The sleep is over.
Retry(c) ==
  /\ req[c].pc = "backoff"
  /\ Attempt(c, [req[c] EXCEPT !.attempt = @ + 1])
  /\ UNCHANGED <<poolVars, up>>

\* list() over an exhausted generator is the empty list, and asks nobody.
AttemptOk(c) ==
  /\ req[c].pc = "running"
  /\ \/ up /\ req[c].kind # "missing"
     \/ req[c].spent
  /\ Succeed(c)
  /\ Ends(c)
  /\ UNCHANGED <<poolVars, up>>

\* Mutation: one attempt more than retries.
AttemptFailsOffByOne(c) ==
  /\ req[c].pc = "running"
  /\ ~req[c].spent
  /\ ~up \/ req[c].kind = "missing"
  /\ Fail(c)
  /\ IF req[c].attempt = Retries
     THEN Ends(c)
     ELSE req' = [req EXCEPT ![c].pc = "backoff", ![c].spent = req[c].kind = "list"]
  /\ UNCHANGED <<poolVars, up>>

\* Every exception is treated alike: it counts for the breaker, and it is
\* retried unless this was the last attempt.
AttemptFails(c) ==
  /\ req[c].pc = "running"
  /\ ~req[c].spent
  /\ ~up \/ req[c].kind = "missing"
  /\ Fail(c)
  /\ IF req[c].attempt = Retries - 1
     THEN Ends(c)
     ELSE req' = [req EXCEPT ![c].pc = "backoff", ![c].spent = req[c].kind = "list"]
  /\ UNCHANGED <<poolVars, up>>

\* wait_for of the tool around the request runs out.
CancelRequest(c) ==
  /\ \/ req[c].pc = "pool" /\ LeavePool(c) /\ UNCHANGED breakerVars
     \/ req[c].pc = "running" /\ Cancel(c) /\ UNCHANGED poolVars
     \/ req[c].pc = "backoff" /\ UNCHANGED <<breakerVars, poolVars>>
  /\ Ends(c)
  /\ UNCHANGED up

OpenStackChanges ==
  /\ up' = ~up
  /\ UNCHANGED <<breakerVars, poolVars, req>>

ClientTick == BreakerTick /\ UNCHANGED <<poolVars, req, up>>

ClientCoolDown == KeystoneCoolsDown /\ UNCHANGED <<breakerVars, req, up>>

-----------------------------------------------------------------------------
ThreadEnds(c) == ConnectOk(c) \/ ConnectFails(c) \/ AttemptOk(c) \/ AttemptFails(c)

ClientNext ==
  \/ \E c \in Callers :
       \/ \E kind \in Kinds, p \in Projects : Begin(c, kind, p)
       \/ GetLock(c) \/ Retry(c) \/ ThreadEnds(c) \/ CancelRequest(c)
  \/ OpenStackChanges
  \/ ClientTick
  \/ ClientCoolDown

ClientSpec == ClientInit /\ [][ClientNext]_clientVars

\* Time passes, sleeps end, the lock is handed on, a connect or an attempt ends
\* at the latest with the tool's timeout, and requests for what exists keep
\* coming.  Strongly fair are GetLock, because a coroutine that is woken runs in
\* the next turn of the event loop and its timeout is seconds away, and ConnectOk
\* and AttemptOk: an OpenStack that is up does not let every one time out.
ClientFairness ==
  /\ WF_clientVars(ClientTick)
  /\ WF_clientVars(ClientCoolDown)
  /\ \A c \in Callers :
       /\ SF_clientVars(GetLock(c))
       /\ WF_clientVars(ThreadEnds(c) \/ CancelRequest(c))
       /\ SF_clientVars(ConnectOk(c))
       /\ SF_clientVars(AttemptOk(c))
       /\ WF_clientVars(Retry(c))
       /\ WF_clientVars(\E p \in Projects : Begin(c, "read", p) \/ Begin(c, "list", p))

ClientFairSpec == ClientSpec /\ ClientFairness

-----------------------------------------------------------------------------
(* Properties *)

\* A request ends: the lock of the pool is handed on to it, whoever fails, is
\* refused or is cancelled before it, and its loop ends after at most `retries'
\* attempts or as soon as the breaker refuses one of them.
RequestEnds == \A c \in Callers : req[c].pc # "idle" ~> req[c].pc = "idle"

\* "Breaker acik - retry etme": no attempt, a first one or one after a backoff
\* during which other requests opened the breaker, leaves the breaker open.
NoAttemptWhileOpen ==
  [][\A c \in Callers : req[c].pc # "running" /\ req'[c].pc = "running"
                          => state' # "open"]_clientVars

\* One connect at a time, by the coroutine that holds the lock and for a project
\* that has no connection, also if the coroutine asked for it long before.
ConnectsOnce ==
  \A c \in connecting :
    connecting = {c} /\ Head(lock) = c /\ req[c].project \notin pool

\* The lock of the pool is handed on: whoever is in its queue, at the head or behind
\* it, is there once and is still in get_connection, so that nobody waits behind a
\* coroutine whose connect has failed or which was refused or cancelled long ago.
LockIsHandedOn ==
  /\ IsInjective(lock)
  /\ ToSet(lock) = {c \in Callers : req[c].pc = "pool"}

\* Once OpenStack stays up and nobody asks for what does not exist, the breaker
\* closes and stays closed, although requests that failed before are still in
\* their retry loops.
ClosesWhenHealthy ==
  <>[](up /\ \A c \in Callers : req[c].kind # "missing") => <>[](state = "closed")

\* "Lazy SDK generator'i ... liste olarak topla": a listing that is returned is
\* one that OpenStack gave.
ListIsComplete == [][\A c \in Callers : AttemptOk(c) => ~req[c].spent]_clientVars
=============================================================================
