----------------------------- MODULE UpstreamRouter -----------------------------
(***************************************************************************)
(* mcp_proxy/router.py: the round-robin choice among the upstream servers  *)
(* and the background health checks.  create_app() asks for no other       *)
(* strategy.                                                               *)
(*                                                                         *)
(* Atomicity.  pick() does not suspend.  _check() suspends in its GET; the *)
(* checks of a round run side by side, and the loop waits for all of them  *)
(* before it sleeps again.  A check reads whether the server answers and   *)
(* writes its verdict in one step, although the server may have changed    *)
(* since it answered: the properties see only the verdicts, and the server *)
(* in the long run, when it changes no more.                               *)
(*                                                                         *)
(* The request counters and failure_count, which only status() reads, are  *)
(* left out.                                                               *)
(***************************************************************************)
EXTENDS Integers

CONSTANT NumServers

ASSUME RouterAssumption == NumServers \in Nat \ {0}

Servers == 0..NumServers-1

VARIABLES
  healthy,       \* per server: healthy
  next,          \* what the cycle _rr_counter gives next
  probing,       \* servers whose check of this round has not ended
  up,            \* servers that answer 200 on /health now
  route,         \* the server that pick() gave last
  ahead          \* history: <<s, t>> when s was picked and t, healthy all the
                 \* time since, was not

routerVars == <<healthy, next, probing, up, route, ahead>>

RouterTypeOK ==
  /\ healthy \in [Servers -> BOOLEAN]
  /\ next \in Servers
  /\ probing \subseteq Servers
  /\ up \subseteq Servers
  /\ route \in Servers
  /\ ahead \subseteq Servers \X Servers

RouterInit ==
  /\ healthy = [s \in Servers |-> TRUE]
  /\ next = 0
  /\ probing = {}
  /\ up \in SUBSET Servers
  /\ route = 0
  /\ ahead = {}

-----------------------------------------------------------------------------
(* pick() *)

Turn(k) == (next + k) % NumServers

AllUnhealthy == \A s \in Servers : ~healthy[s]

\* Mutation: the search over the cycle is one server too short.
TurnsTakenOneShort ==
  IF \A k \in 0..NumServers-2 : ~healthy[Turn(k)] THEN NumServers
  ELSE CHOOSE k \in 0..NumServers-1 :
         healthy[Turn(k)] /\ \A j \in 0..k-1 : ~healthy[Turn(j)]

\* How many servers the loop passes over before it finds a healthy one.
TurnsTaken ==
  IF AllUnhealthy THEN NumServers
  ELSE CHOOSE k \in 0..NumServers-1 :
         healthy[Turn(k)] /\ \A j \in 0..k-1 : ~healthy[Turn(j)]

Picked(s) ==
  /\ route' = s
  /\ ahead' = {p \in ahead : p[2] # s} \cup {<<s, t>> : t \in {u \in Servers \ {s} : healthy[u]}}

\* Mutation: the cycle is not advanced over the server that is returned.
PickStaysThere ==
  LET k == TurnsTaken
  IN  /\ next' = IF k = NumServers THEN next ELSE Turn(k)
      /\ Picked(IF k = NumServers THEN 0 ELSE Turn(k))
      /\ UNCHANGED <<healthy, probing, up>>

\* When no server is healthy the cycle has gone once around, and the first
\* server is taken.
Pick ==
  LET k == TurnsTaken
  IN  /\ next' = IF k = NumServers THEN next ELSE Turn(k + 1)
      /\ Picked(IF k = NumServers THEN 0 ELSE Turn(k))
      /\ UNCHANGED <<healthy, probing, up>>

-----------------------------------------------------------------------------
(* _health_loop() and _check() *)

\* Mutation: only servers that are thought healthy are checked.
BeginRoundHealthyOnly ==
  /\ probing = {}
  /\ probing' = {s \in Servers : healthy[s]}
  /\ UNCHANGED <<healthy, next, up, route, ahead>>

BeginRound ==
  /\ probing = {}
  /\ probing' = Servers
  /\ UNCHANGED <<healthy, next, up, route, ahead>>

\* The answer, the refusal or the timeout of 5 seconds.
Checked(s) ==
  /\ s \in probing
  /\ probing' = probing \ {s}
  /\ healthy' = [healthy EXCEPT ![s] = s \in up]
  /\ ahead' = IF s \in up THEN ahead ELSE {p \in ahead : p[2] # s}
  /\ UNCHANGED <<next, up, route>>

HealthStep == BeginRound \/ \E s \in Servers : Checked(s)

RouterFairness ==
  /\ WF_routerVars(BeginRound)
  /\ \A s \in Servers : WF_routerVars(Checked(s))

-----------------------------------------------------------------------------
(* Properties *)

\* A server is picked although it is not healthy only when none is.
PickPrefersHealthy == [][Pick => healthy[route'] \/ AllUnhealthy]_routerVars

\* No server is picked twice while another one is healthy all the time and is
\* not picked in between, however the health of the others changes.
NobodyIsPassedOver ==
  [][Pick => \A t \in Servers : healthy[t] => <<route', t>> \notin ahead]_routerVars

\* A server that stays up is, from some time on, taken for healthy.
RecoveryIsNoticed ==
  \A s \in Servers : <>[](s \in up) => <>[](healthy[s])
=============================================================================
