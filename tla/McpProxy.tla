-------------------------------- MODULE McpProxy --------------------------------
(***************************************************************************)
(* mcp_proxy/proxy.py: the /mcp endpoint, behind the rate limiter and in   *)
(* front of the upstream servers, each of which keeps the MCP sessions     *)
(* that were opened on it (mcp_server/server.py).                          *)
(*                                                                         *)
(* A request is one step: refused with 429, or admitted and forwarded.  In *)
(* the code the middleware awaits between the token and pick(), and pick() *)
(* is followed by awaits for the body and for the upstream, where other    *)
(* requests come in between.  No property relates tokens to picks: those   *)
(* of the bucket see the order in which tokens are taken, those of the     *)
(* router the order of the picks, and each order is one of the model's.  A *)
(* session that an upstream opens is known to the client only after its    *)
(* answer, before which the client cannot use it.                          *)
(***************************************************************************)
EXTENDS UpstreamRouter, TokenBucket

CONSTANT None

ASSUME ProxyAssumption == None \notin Servers

VARIABLE session   \* per client: the upstream that holds its MCP session

proxyVars == <<routerVars, bucketVars, session>>

ProxyTypeOK ==
  /\ RouterTypeOK
  /\ BucketTypeOK
  /\ session \in [Clients -> Servers \cup {None}]

ProxyInit ==
  /\ RouterInit
  /\ BucketInit
  /\ session = [c \in Clients |-> None]

-----------------------------------------------------------------------------
Forwarded(c) == Admit(c) /\ Pick

\* POST without a session: the upstream that gets it opens one.
Open(c) ==
  /\ session[c] = None
  /\ Forwarded(c)
  /\ session' = IF route' \in up THEN [session EXCEPT ![c] = route'] ELSE session

\* POST or GET with the session's id: pick() is not told of it.
Call(c) ==
  /\ session[c] # None
  /\ Forwarded(c)
  /\ UNCHANGED session

\* DELETE ends the session if it reaches the upstream that holds it.
Close(c) ==
  /\ session[c] # None
  /\ Forwarded(c)
  /\ session' = IF route' \in up /\ route' = session[c]
                THEN [session EXCEPT ![c] = None] ELSE session

TooMany(c) ==
  /\ Refuse(c)
  /\ UNCHANGED <<routerVars, session>>

\* A server's sessions are in its memory.
UpstreamStops(s) ==
  /\ s \in up
  /\ up' = up \ {s}
  /\ session' = [c \in Clients |-> IF session[c] = s THEN None ELSE session[c]]
  /\ UNCHANGED <<bucketVars, healthy, next, probing, route, ahead>>

UpstreamStarts(s) ==
  /\ s \notin up
  /\ up' = up \cup {s}
  /\ UNCHANGED <<bucketVars, healthy, next, probing, route, ahead, session>>

ProxyNext ==
  \/ \E c \in Clients : Open(c) \/ Call(c) \/ Close(c) \/ TooMany(c)
  \/ \E s \in Servers : UpstreamStops(s) \/ UpstreamStarts(s)
  \/ HealthStep /\ UNCHANGED <<bucketVars, session>>
  \/ BucketTick /\ UNCHANGED <<routerVars, session>>

ProxySpec == ProxyInit /\ [][ProxyNext]_proxyVars

\* The health loop sleeps and checks for ever.  That a check ends is assumed of
\* the upstreams: its timeout of 5 seconds bounds each wait, and an answer that
\* trickles in could take any number of them.
ProxyFairSpec == ProxySpec /\ RouterFairness

-----------------------------------------------------------------------------
(* Properties *)

\* "Proxy, LLM'in baglantisini secilen upstream'e tuneller": what a client
\* sends in its session goes to the upstream that holds the session.
SessionStaysPut == [][\A c \in Clients : Call(c) => route' = session[c]]_proxyVars
=============================================================================
