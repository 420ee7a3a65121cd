---------------------------- MODULE ConnectionPool ----------------------------
(***************************************************************************)
(* core/openstack_client.py: OpenStackConnectionPool.get_connection.  The  *)
(* lock is held across the Keystone connect, behind the "keystone" breaker.*)
(*                                                                         *)
(* That breaker is used here by its contract, BreakerContract, which       *)
(* CircuitBreaker is shown to implement: it may cool down at any time.     *)
(*                                                                         *)
(* asyncio.Lock is fair: while somebody waits nobody takes it directly, and*)
(* a waiter that is cancelled leaves its place.  So the holder and those   *)
(* that wait are one queue.  close_all() has no caller.                    *)
(***************************************************************************)
EXTENDS Naturals, SequencesExt

CONSTANTS
  Projects,            \* keys of _pool, "__admin__" among them
  KeystoneThreshold    \* threshold of the "keystone" breaker

ASSUME PoolAssumption == Projects # {} /\ KeystoneThreshold \in Nat \ {0}

VARIABLES
  pool,          \* keys of _pool: the projects that have a connection
  lock,          \* _lock: who holds it, followed by who waits for it
  connecting,    \* the coroutines that await osk.connect
  keystone,      \* _state of the "keystone" breaker
  rejections     \* connects in a row that failed, up to KeystoneThreshold

poolVars == <<pool, lock, connecting, keystone, rejections>>

PoolInit ==
  /\ pool = {}
  /\ lock = << >>
  /\ connecting = {}
  /\ keystone = "closed"
  /\ rejections = 0

Breaker == INSTANCE BreakerContract
             WITH mode <- keystone, streak <- rejections, Threshold <- KeystoneThreshold

-----------------------------------------------------------------------------
\* Nobody has the lock, or the coroutines before c have passed it on to c.
HasTurn(c) ==
  /\ c \notin connecting
  /\ lock # << >> => Head(lock) = c

\* The queue behind a holder that leaves it.
Released == IF lock = << >> THEN << >> ELSE Tail(lock)

Wait(c) ==
  /\ lock # << >> /\ c \notin ToSet(lock)
  /\ lock' = Append(lock, c)
  /\ UNCHANGED <<pool, connecting, keystone, rejections>>

\* The key is in _pool, by now at least: the connection is returned.
Reuse(c, p) ==
  /\ HasTurn(c)
  /\ p \in pool
  /\ lock' = Released
  /\ UNCHANGED <<pool, connecting, keystone, rejections>>

\* Mutation: whether the key is in _pool was asked before the lock was awaited.
ConnectUnchecked(c, p) ==
  /\ HasTurn(c)
  /\ keystone # "open"
  /\ lock' = <<c>> \o Released
  /\ connecting' = connecting \cup {c}
  /\ UNCHANGED <<pool, keystone, rejections>>

Connect(c, p) ==
  /\ HasTurn(c)
  /\ p \notin pool
  /\ keystone # "open"
  /\ lock' = <<c>> \o Released
  /\ connecting' = connecting \cup {c}
  /\ UNCHANGED <<pool, keystone, rejections>>

\* The keystone breaker is open: CircuitBreakerOpen leaves the lock's block.
Refused(c, p) ==
  /\ HasTurn(c)
  /\ p \notin pool
  /\ keystone = "open"
  /\ lock' = Released
  /\ UNCHANGED <<pool, connecting, keystone, rejections>>

Connected(c, p) ==
  /\ c \in connecting
  /\ connecting' = connecting \ {c}
  /\ pool' = pool \cup {p}
  /\ lock' = Released
  /\ Breaker!Success

\* Mutation: the lock is released only after a connect that succeeds.
NotConnectedHoldsLock(c) ==
  /\ c \in connecting
  /\ connecting' = connecting \ {c}
  /\ Breaker!Failure
  /\ UNCHANGED <<pool, lock>>

\* The exception leaves the lock's block; there is no retry here.
NotConnected(c) ==
  /\ c \in connecting
  /\ connecting' = connecting \ {c}
  /\ lock' = Released
  /\ Breaker!Failure
  /\ UNCHANGED pool

\* The coroutine is cancelled while it waits for the lock or for osk.connect.
LeavePool(c) ==
  /\ \E i \in DOMAIN lock : lock[i] = c /\ lock' = RemoveAt(lock, i)
  /\ connecting' = connecting \ {c}
  /\ UNCHANGED <<pool, keystone, rejections>>

KeystoneCoolsDown ==
  /\ Breaker!CoolDown
  /\ UNCHANGED <<pool, lock, connecting>>
=============================================================================
