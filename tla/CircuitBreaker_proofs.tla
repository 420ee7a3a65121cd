------------------------- MODULE CircuitBreaker_proofs -------------------------
(***************************************************************************)
(* Proofs about CircuitBreaker for every number of coroutines, every       *)
(* threshold and every timeout.                                            *)
(*                                                                         *)
(* BreakerInv is inductive: ClosedIffBelowThreshold needs the range of     *)
(* `failures' from the type invariant, CountsARow needs both, because a    *)
(* failure that is recorded while CLOSED keeps the breaker CLOSED only if  *)
(* the count stays below Threshold.                                        *)
(***************************************************************************)
EXTENDS CircuitBreaker, TLAPS

\* While CLOSED, _failures counts failures in a row ("art arda N hata").
CountsARow == state = "closed" => failures = streak

BreakerInv == BreakerTypeOK /\ ClosedIffBelowThreshold /\ CountsARow

-----------------------------------------------------------------------------
\* A saturating counter stays in its range, and moves unless it is at the end.
LEMMA UpToRange ==
  ASSUME NEW max \in Nat, NEW n \in 0..max
  PROVE  /\ UpTo(max, n) \in 0..max
         /\ UpTo(max, n) < max <=> n + 1 < max
         /\ n < max => UpTo(max, n) = n + 1
BY DEF UpTo

\* A breaker that has served no call satisfies the invariant.
LEMMA BreakerInitInv == BreakerInit => BreakerInv
BY BreakerAssumption
DEF BreakerInit, BreakerInv, BreakerTypeOK, ClosedIffBelowThreshold, CountsARow

\* Recording a success keeps the invariant, whoever the call was.
LEMMA OnSuccessInv ==
  ASSUME BreakerInv, OnSuccess, calls' \in [Callers -> {"idle", "normal", "trial"}]
  PROVE  BreakerInv'
BY BreakerAssumption
DEF OnSuccess, BreakerInv, BreakerTypeOK, ClosedIffBelowThreshold, CountsARow

\* Recording a failure keeps the invariant, also while OPEN.
LEMMA OnFailureInv ==
  ASSUME BreakerInv, OnFailure, calls' \in [Callers -> {"idle", "normal", "trial"}]
  PROVE  BreakerInv'
<1>1. /\ Threshold \in Nat \ {0}
      /\ failures \in 0..Threshold
      /\ streak \in 0..Threshold
  BY BreakerAssumption DEF BreakerInv, BreakerTypeOK
<1>2. /\ failures' = UpTo(Threshold, failures)
      /\ streak' = UpTo(Threshold, streak)
  BY DEF OnFailure
<1>3. /\ failures' \in 0..Threshold
      /\ streak' \in 0..Threshold
      /\ failures' < Threshold <=> failures + 1 < Threshold
  BY <1>1, <1>2, UpToRange
<1>4. BreakerTypeOK'
  BY <1>3, BreakerAssumption DEF OnFailure, BreakerInv, BreakerTypeOK
<1>5. ClosedIffBelowThreshold'
  BY <1>1, <1>3 DEF OnFailure, BreakerInv, BreakerTypeOK, ClosedIffBelowThreshold
<1>6. CountsARow'
  BY <1>1, <1>2, <1>5
  DEF OnFailure, BreakerInv, BreakerTypeOK, ClosedIffBelowThreshold, CountsARow
<1> QED BY <1>4, <1>5, <1>6 DEF BreakerInv

\* Every step of the breaker keeps the invariant.
LEMMA BreakerNextInv == BreakerInv /\ [BreakerNext]_breakerVars => BreakerInv'
<1> SUFFICES ASSUME BreakerInv, [BreakerNext]_breakerVars PROVE BreakerInv'
  OBVIOUS
<1> USE BreakerAssumption
<1>1. ASSUME NEW c \in Callers, AdmitClosed(c) PROVE BreakerInv'
  BY <1>1 DEF AdmitClosed, BreakerInv, BreakerTypeOK, ClosedIffBelowThreshold, CountsARow
<1>2. ASSUME NEW c \in Callers, AdmitHalf(c) PROVE BreakerInv'
  <2>1. halfTrials' \in 0..HalfOpenMax + 1
    BY <1>2 DEF AdmitHalf, UpTo, BreakerInv, BreakerTypeOK
  <2>2. state # "closed"
    BY <1>2 DEF AdmitHalf, CooledDown
  <2> QED
    BY <1>2, <2>1, <2>2
    DEF AdmitHalf, BreakerInv, BreakerTypeOK, ClosedIffBelowThreshold, CountsARow
<1>3. ASSUME NEW c \in Callers, Leave(c)
      PROVE  calls' \in [Callers -> {"idle", "normal", "trial"}]
  BY <1>3 DEF Leave, BreakerInv, BreakerTypeOK
<1>4. ASSUME NEW c \in Callers, Succeed(c) PROVE BreakerInv'
  BY <1>3, <1>4, OnSuccessInv DEF Succeed
<1>5. ASSUME NEW c \in Callers, Fail(c) PROVE BreakerInv'
  BY <1>3, <1>5, OnFailureInv DEF Fail
<1>6. ASSUME NEW c \in Callers, Cancel(c) PROVE BreakerInv'
  BY <1>3, <1>6 DEF Cancel, BreakerInv, BreakerTypeOK, ClosedIffBelowThreshold, CountsARow
<1>7. CASE BreakerTick
  BY <1>7 DEF BreakerTick, BreakerInv, BreakerTypeOK, ClosedIffBelowThreshold, CountsARow
<1>8. CASE UNCHANGED breakerVars
  BY <1>8 DEF breakerVars, BreakerInv, BreakerTypeOK, ClosedIffBelowThreshold, CountsARow
<1> QED
  BY <1>1, <1>2, <1>4, <1>5, <1>6, <1>7, <1>8 DEF BreakerNext, Admit, ShortCircuit

\* The invariant holds in every state of every execution.
THEOREM BreakerInvariance == BreakerSpec => []BreakerInv
BY BreakerInitInv, BreakerNextInv, PTL DEF BreakerSpec

\* The variables keep their types: the counters saturate where the code stops
\* comparing them.
THEOREM BreakerTypeCorrect == BreakerSpec => []BreakerTypeOK
BY BreakerInvariance, PTL DEF BreakerInv

\* _state is CLOSED exactly while _failures is below threshold, however late
\* results, trials and cancellations interleave.
THEOREM ClosedIffBelow == BreakerSpec => []ClosedIffBelowThreshold
BY BreakerInvariance, PTL DEF BreakerInv

\* While CLOSED, _failures is the number of failures in a row.
THEOREM FailuresInARow == BreakerSpec => []CountsARow
BY BreakerInvariance, PTL DEF BreakerInv

-----------------------------------------------------------------------------
(* The class implements BreakerContract *)

\* A fresh breaker is a fresh contract.
LEMMA ContractInit == BreakerInit => Contract!Init
BY DEF BreakerInit, Contract!Init

\* Each step is a Success, a Failure or a CoolDown of the contract, or one that
\* it does not see.
LEMMA ContractStep ==
  BreakerInv /\ [BreakerNext]_breakerVars => [Contract!Next]_(Contract!contractVars)
<1> SUFFICES ASSUME BreakerInv, [BreakerNext]_breakerVars
             PROVE  [Contract!Next]_(Contract!contractVars)
  OBVIOUS
<1> USE DEF Contract!contractVars
<1>1. ASSUME NEW c \in Callers, AdmitClosed(c) PROVE UNCHANGED <<state, streak>>
  BY <1>1 DEF AdmitClosed
<1>2. ASSUME NEW c \in Callers, AdmitHalf(c)
      PROVE  Contract!CoolDown \/ UNCHANGED <<state, streak>>
  BY <1>2 DEF AdmitHalf, CooledDown, Contract!CoolDown
<1>3. ASSUME OnSuccess PROVE Contract!Success
  <2>1. state \in {"closed", "open", "half"}
    BY DEF BreakerInv, BreakerTypeOK
  <2> QED BY <1>3, <2>1 DEF OnSuccess, Contract!Success
<1>4. ASSUME OnFailure PROVE Contract!Failure
  <2>1. /\ state \in {"closed", "open", "half"}
        /\ Threshold \in Nat \ {0}
        /\ failures \in 0..Threshold
        /\ streak \in 0..Threshold
    BY BreakerAssumption DEF BreakerInv, BreakerTypeOK
  <2>2. streak' = IF streak < Threshold THEN streak + 1 ELSE streak
    BY <1>4 DEF OnFailure, UpTo
  <2>3. CASE state = "closed"
    <3>1. failures = streak
      BY <2>3 DEF BreakerInv, CountsARow
    <3> QED BY <1>4, <2>1, <2>2, <2>3, <3>1 DEF OnFailure, Contract!Failure
  <2>4. CASE state = "half"
    BY <1>4, <2>2, <2>4 DEF OnFailure, Contract!Failure
  <2>5. CASE state = "open"
    <3>1. failures + 1 >= Threshold
      BY <2>1, <2>5 DEF BreakerInv, ClosedIffBelowThreshold
    <3> QED BY <1>4, <2>2, <2>5, <3>1 DEF OnFailure, Contract!Failure
  <2> QED BY <2>1, <2>3, <2>4, <2>5
<1>5. ASSUME NEW c \in Callers, Cancel(c) PROVE UNCHANGED <<state, streak>>
  BY <1>5 DEF Cancel
<1>6. CASE BreakerTick
  BY <1>6 DEF BreakerTick
<1>7. CASE UNCHANGED breakerVars
  BY <1>7 DEF breakerVars
<1> QED
  BY <1>1, <1>2, <1>3, <1>4, <1>5, <1>6, <1>7
  DEF BreakerNext, ShortCircuit, Admit, Succeed, Fail, Contract!Next, breakerVars

\* CircuitBreaker implements what its module comment promises: it opens after
\* Threshold failures in a row and no other way, and OPEN only cools down.
THEOREM BreakerImplementsContract == BreakerSpec => KeepsContract
<1>1. BreakerSpec => []BreakerInv
  BY BreakerInvariance
<1> QED
  BY <1>1, ContractInit, ContractStep, PTL DEF BreakerSpec, KeepsContract, Contract!Spec
=============================================================================
