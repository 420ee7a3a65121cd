------------------------------ MODULE MCReadTools ------------------------------
(* Tools, the warm-up and a background task on the list, the project list that *)
(* the list needs, and, with a third key, one that needs nothing.              *)
EXTENDS ReadTools

CONSTANTS c1, w1, w2, b1, n1, n2, n3

MCKeyTtl == [k \in Keys |-> 0]
MCFrame == (c1 :> n1) @@ (w2 :> n2) @@ (b1 :> n3)
=============================================================================
