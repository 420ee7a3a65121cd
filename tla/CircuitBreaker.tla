---------------------------- MODULE CircuitBreaker ----------------------------
(***************************************************************************)
(* core/circuit_breaker.py: one CircuitBreaker object and the coroutines   *)
(* that are inside its call().                                             *)
(*                                                                         *)
(* Atomicity.  Every `async with self._lock' body of the class runs        *)
(* without suspending, so the lock is free whenever a coroutine runs and   *)
(* acquiring it never suspends.  A call() is therefore two steps: from its *)
(* first line to the await of fn, and from the result of fn to its end.    *)
(*                                                                         *)
(* Time.  Only `time.monotonic() - _opened_at >= timeout' is ever asked, so*)
(* the model keeps that difference, `openAge', and stops it at Timeout.    *)
(*                                                                         *)
(* Counters.  _failures is only compared with threshold and _half_trials   *)
(* with nothing: the model counts them up to Threshold and HalfOpenMax + 1,*)
(* so it needs no bound on the number of calls.                            *)
(***************************************************************************)
EXTENDS Naturals, FiniteSets

CONSTANTS
  Callers,       \* coroutines that use the breaker
  Threshold,     \* threshold: failures that open a closed breaker
  Timeout,       \* timeout: ticks an open breaker refuses every call
  HalfOpenMax    \* half_open_max

ASSUME BreakerAssumption ==
  /\ Threshold \in Nat \ {0}
  /\ Timeout \in Nat
  /\ HalfOpenMax \in Nat

VARIABLES
  state,         \* _state
  failures,      \* _failures, counted up to Threshold
  openAge,       \* time.monotonic() - _opened_at, at most Timeout
  halfTrials,    \* _half_trials, counted up to HalfOpenMax + 1
  calls,         \* per coroutine: outside call(), or running fn since CLOSED or HALF
  streak         \* history: failures recorded since the last success, up to Threshold

breakerVars == <<state, failures, openAge, halfTrials, calls, streak>>

BreakerTypeOK ==
  /\ state \in {"closed", "open", "half"}
  /\ failures \in 0..Threshold
  /\ openAge \in 0..Timeout
  /\ halfTrials \in 0..HalfOpenMax + 1
  /\ calls \in [Callers -> {"idle", "normal", "trial"}]
  /\ streak \in 0..Threshold

BreakerInit ==
  /\ state = "closed"
  /\ failures = 0
  /\ openAge = Timeout
  /\ halfTrials = 0
  /\ calls = [c \in Callers |-> "idle"]
  /\ streak = 0

\* A counter one higher, but no higher than max.
UpTo(max, n) == IF n < max THEN n + 1 ELSE n

-----------------------------------------------------------------------------
(* call(), up to the await of fn *)

\* _maybe_transition(): the state a call finds once the lock body has run it.
CooledDown == state = "open" /\ openAge >= Timeout

\* Mutation: a refused call restarts the cool-down.
ShortCircuitRestartsTimer(c) ==
  /\ calls[c] = "idle"
  /\ state = "open" /\ ~CooledDown
  /\ openAge' = 0
  /\ UNCHANGED <<state, failures, halfTrials, calls, streak>>

\* OPEN and not cooled down: CircuitBreakerOpen is raised, nothing is changed.
ShortCircuit(c) ==
  /\ calls[c] = "idle"
  /\ state = "open" /\ ~CooledDown
  /\ UNCHANGED breakerVars

AdmitClosed(c) ==
  /\ calls[c] = "idle"
  /\ state = "closed"
  /\ calls' = [calls EXCEPT ![c] = "normal"]
  /\ UNCHANGED <<state, failures, openAge, halfTrials, streak>>

\* Either this call turns OPEN into HALF and resets the trial count, or it
\* finds HALF.  half_open_max is stored by __init__ and never compared.
AdmitHalf(c) ==
  /\ calls[c] = "idle"
  /\ \/ CooledDown /\ halfTrials' = UpTo(HalfOpenMax + 1, 0)
     \/ state = "half" /\ halfTrials' = UpTo(HalfOpenMax + 1, halfTrials)
  /\ state' = "half"
  /\ calls' = [calls EXCEPT ![c] = "trial"]
  /\ UNCHANGED <<failures, openAge, streak>>

Admit(c) == AdmitClosed(c) \/ AdmitHalf(c)

-----------------------------------------------------------------------------
(* call(), from the result of fn *)

\* Mutation: a success forgives one failure instead of all of them.
OnSuccessForgivesOne ==
  /\ IF state = "open"
     THEN UNCHANGED <<state, failures>>
     ELSE state' = "closed" /\ failures' = failures - 1
  /\ streak' = 0
  /\ UNCHANGED <<openAge, halfTrials>>

\* Mutation: a success is looked at while CLOSED only, and never ends HALF.
OnSuccessOnlyClosed ==
  /\ IF state # "closed"
     THEN UNCHANGED <<state, failures>>
     ELSE state' = "closed" /\ failures' = 0
  /\ streak' = 0
  /\ UNCHANGED <<openAge, halfTrials>>

\* Mutation: a late success closes an open breaker too.
OnSuccessAlwaysCloses ==
  /\ state' = "closed" /\ failures' = 0
  /\ streak' = 0
  /\ UNCHANGED <<openAge, halfTrials>>

\* _on_success(), run by any call in flight, whenever it was admitted.
OnSuccess ==
  /\ IF state = "open"
     THEN UNCHANGED <<state, failures>>
     ELSE state' = "closed" /\ failures' = 0
  /\ streak' = 0
  /\ UNCHANGED <<openAge, halfTrials>>

\* Mutation: > for >=, one failure more than the threshold is let through.
OnFailureOffByOne ==
  /\ failures' = UpTo(Threshold, failures)
  /\ IF failures + 1 > Threshold \/ state = "half"
     THEN state' = "open" /\ openAge' = 0
     ELSE UNCHANGED <<state, openAge>>
  /\ streak' = UpTo(Threshold, streak)
  /\ UNCHANGED halfTrials

\* _on_failure(), run by any call in flight, also while already OPEN.
OnFailure ==
  /\ failures' = UpTo(Threshold, failures)
  /\ IF failures + 1 >= Threshold \/ state = "half"
     THEN state' = "open" /\ openAge' = 0
     ELSE UNCHANGED <<state, openAge>>
  /\ streak' = UpTo(Threshold, streak)
  /\ UNCHANGED halfTrials

Leave(c) ==
  /\ calls[c] # "idle"
  /\ calls' = [calls EXCEPT ![c] = "idle"]

Succeed(c) == Leave(c) /\ OnSuccess

Fail(c) == Leave(c) /\ OnFailure

\* The awaiting task is cancelled (wait_for in BaseTool.__call__, or its own
\* caller): CancelledError is no Exception, so neither handler runs.
Cancel(c) ==
  /\ Leave(c)
  /\ UNCHANGED <<state, failures, openAge, halfTrials, streak>>

\* One unit of time.monotonic().
BreakerTick ==
  /\ openAge < Timeout
  /\ openAge' = openAge + 1
  /\ UNCHANGED <<state, failures, halfTrials, calls, streak>>

-----------------------------------------------------------------------------
BreakerNext ==
  \/ \E c \in Callers :
       ShortCircuit(c) \/ Admit(c) \/ Succeed(c) \/ Fail(c) \/ Cancel(c)
  \/ BreakerTick

BreakerSpec == BreakerInit /\ [][BreakerNext]_breakerVars

\* Time passes; a call in flight ends, because BaseTool.__call__ bounds it
\* with wait_for; and each coroutine that is outside keeps calling.
BreakerFairness ==
  /\ WF_breakerVars(BreakerTick)
  /\ \A c \in Callers :
       /\ WF_breakerVars(Succeed(c) \/ Fail(c) \/ Cancel(c))
       /\ WF_breakerVars(Admit(c))

BreakerFairSpec == BreakerSpec /\ BreakerFairness

-----------------------------------------------------------------------------
(* Properties *)

\* The breaker is CLOSED exactly while fewer than Threshold failures are
\* counted.  call() asks only _state, _on_failure decides from _failures: the
\* two must agree whatever order late results, cancellations and trials end in.
ClosedIffBelowThreshold == (state = "closed") <=> (failures < Threshold)

\* The class keeps the promise of its module comment: it opens after Threshold
\* failures in a row and no other way, closes only from HALF, and leaves OPEN
\* only by cooling down, although results of calls admitted in one state are
\* recorded in another.
Contract == INSTANCE BreakerContract WITH mode <- state

KeepsContract == Contract!Spec

\* An open breaker lets a trial through again in the end: refused calls and
\* late failures of calls admitted earlier do not keep it open for ever.
Recovers == state = "open" ~> state # "open"

\* "HALF: timeout dolunca tek deneme" and "half_open_max: HALF modunda kac
\* deneme": no more than half_open_max trials while half-open.
HalfOpenLimit == state = "half" => halfTrials <= HalfOpenMax
=============================================================================
