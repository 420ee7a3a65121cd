----------------------------- MODULE EagerBucket -----------------------------
(***************************************************************************)
(* The token bucket that mcp_proxy/middleware.py has in mind, without the  *)
(* time of last use: it gains Rate tokens in every tick, spills what is    *)
(* over Capacity, and lets a request through when it holds Cost of them.   *)
(* What a client has taken beyond Rate is forgotten at the same pace.      *)
(***************************************************************************)
EXTENDS Integers

CONSTANTS Clients, Rate, Capacity, Cost

VARIABLES
  level,         \* per client: the tokens in its bucket
  owed           \* per client: the tokens taken beyond Rate

eagerVars == <<level, owed>>

Init ==
  /\ level = [c \in Clients |-> Capacity]
  /\ owed = [c \in Clients |-> 0]

Take(c) ==
  /\ level[c] >= Cost
  /\ level' = [level EXCEPT ![c] = @ - Cost]
  /\ owed' = [owed EXCEPT ![c] = @ + Cost]

Tick ==
  /\ level' = [c \in Clients |-> IF level[c] + Rate <= Capacity THEN level[c] + Rate
                                 ELSE Capacity]
  /\ owed' = [c \in Clients |-> IF owed[c] >= Rate THEN owed[c] - Rate ELSE 0]

Next == Tick \/ \E c \in Clients : Take(c)

Spec == Init /\ [][Next]_eagerVars
==============================================================================
