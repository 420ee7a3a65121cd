---------------------------- MODULE MCInstanceTools ----------------------------
(* One client that reads and writes, one background refresh, one instance and  *)
(* the list, of which the cache has room for one.                              *)
EXTENDS InstanceTools

MCKeyTtl == [k \in Keys |-> 0]

\* Every way through the gates.  The writes are a confirmed delete, a confirmed
\* action in DESTRUCTIVE, and one that needs no confirmation and has none.
MCGiven ==
  {[tool |-> "delete", confirm |-> TRUE, dry |-> FALSE],
   [tool |-> "delete", confirm |-> TRUE, dry |-> TRUE],
   [tool |-> "delete", confirm |-> FALSE, dry |-> FALSE],
   [tool |-> "destructive", confirm |-> TRUE, dry |-> FALSE],
   [tool |-> "destructive", confirm |-> FALSE, dry |-> FALSE],
   [tool |-> "harmless", confirm |-> FALSE, dry |-> FALSE],
   [tool |-> "unknown", confirm |-> TRUE, dry |-> FALSE]}
=============================================================================
