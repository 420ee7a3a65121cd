---------------------------- MODULE MCCircuitBreaker ----------------------------
(* CircuitBreaker on three coroutines: one can be a late call of an earlier    *)
(* closed period, one the trial and one the next caller.  Threshold 2 lets a   *)
(* success come between two failures, Timeout 2 lets a late failure push the   *)
(* opening time while the cool-down is under way.                              *)
EXTENDS CircuitBreaker
=============================================================================
