--------------------------- MODULE BreakerContract ---------------------------
(***************************************************************************)
(* What the module comment of core/circuit_breaker.py promises, without    *)
(* callers, locks or a clock: CLOSED opens after Threshold failures in a   *)
(* row, OPEN only cools down to HALF, HALF is decided by the next result.  *)
(* `streak' counts, up to Threshold, the results in a row that failed.     *)
(***************************************************************************)
EXTENDS Naturals

CONSTANT Threshold

VARIABLES mode, streak

contractVars == <<mode, streak>>

Init == mode = "closed" /\ streak = 0

\* A success closes the breaker, except that it does nothing to an open one.
Success ==
  /\ streak' = 0
  /\ mode' = IF mode = "open" THEN "open" ELSE "closed"

\* A failure opens a half-open breaker at once, and a closed one exactly when
\* it completes a run of Threshold failures.
Failure ==
  /\ streak' = IF streak < Threshold THEN streak + 1 ELSE streak
  /\ mode' = IF mode = "closed" /\ streak + 1 < Threshold THEN "closed" ELSE "open"

CoolDown ==
  /\ mode = "open"
  /\ mode' = "half"
  /\ UNCHANGED streak

Next == Success \/ Failure \/ CoolDown

Spec == Init /\ [][Next]_contractVars
=============================================================================
