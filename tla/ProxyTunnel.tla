------------------------------ MODULE ProxyTunnel ------------------------------
(***************************************************************************)
(* mcp_proxy/proxy.py: what becomes of a request after the rate limit and  *)
(* pick().  Every request to an upstream, of mcp_proxy() or of _fetch_json,*)
(* takes a connection of the one httpx.AsyncClient, which has a limited    *)
(* number of them and serves those that wait in the order they came: that  *)
(* pool is httpx's and modelled as it is used.  That client has            *)
(* timeout=None; _fetch_json brings timeouts of its own, which bound the   *)
(* wait for a connection and each single read, but no whole answer.        *)
(*                                                                         *)
(* A connection is returned when its response is closed: by httpx after an *)
(* error or a complete answer, and by the finally clause of _stream().     *)
(* That clause runs only if the generator has started.  If the client has  *)
(* gone by then, Starlette may drop the response without starting it.      *)
(*                                                                         *)
(* A request is not told that its client has gone while it waits for a     *)
(* connection or for the upstream, only before, while it reads the body,   *)
(* and after, while the response streams.                                  *)
(***************************************************************************)
EXTENDS Integers, FiniteSetsExt, SequencesExt

CONSTANTS
  Posts,         \* POST and DELETE /mcp, as many as there are at once
  Gets,          \* GET /mcp, whose response is an event stream
  Feedbacks,     \* calls of _fetch_json
  Limit          \* connections of the client: 100 by default

Tunnels == Posts \cup Gets
Requests == Tunnels \cup Feedbacks

ASSUME TunnelAssumption ==
  /\ IsFiniteSet(Requests)
  /\ Posts \cap Gets = {} /\ Tunnels \cap Feedbacks = {}
  /\ Limit \in Nat \ {0}

VARIABLES
  pc,            \* per request: where its coroutine is
  queue,         \* requests that wait for a connection
  gone,          \* tunnels whose client has closed its connection
  busy,          \* connections of the client that have been taken and not returned
  dropped        \* history: responses that were dropped before they were started

tunnelVars == <<pc, queue, gone, busy, dropped>>

\* "body": in request.body(); "queued", "sent": in http.send() or http.get(),
\* without a connection and with one; "answered": the StreamingResponse is
\* returned; "streaming": its generator runs.
TunnelTypeOK ==
  /\ pc \in [Requests -> {"idle", "body", "queued", "sent", "answered", "streaming"}]
  /\ queue \in Seq(Requests) /\ IsInjective(queue)
  /\ ToSet(queue) = {r \in Requests : pc[r] = "queued"}
  /\ gone \subseteq {r \in Tunnels : pc[r] # "idle"}
  /\ busy \in 0..Limit /\ dropped \in 0..Limit

TunnelInit ==
  /\ pc = [r \in Requests |-> "idle"]
  /\ queue = << >>
  /\ gone = {}
  /\ busy = 0 /\ dropped = 0

-----------------------------------------------------------------------------
(* The connections of httpx.AsyncClient *)

Full == busy >= Limit

AskConnection(r) ==
  IF Full
  THEN /\ pc' = [pc EXCEPT ![r] = "queued"]
       /\ queue' = Append(queue, r)
       /\ UNCHANGED busy
  ELSE /\ pc' = [pc EXCEPT ![r] = "sent"]
       /\ busy' = busy + 1
       /\ UNCHANGED queue

\* The request ends and its connection goes to the first that waits for one.
EndsAndHandsOver(r) ==
  /\ pc' = [q \in Requests |->
       IF q = r THEN "idle"
       ELSE IF queue # << >> /\ q = Head(queue) THEN "sent" ELSE pc[q]]
  /\ queue' = IF queue = << >> THEN queue ELSE Tail(queue)
  /\ busy' = IF queue = << >> THEN busy - 1 ELSE busy
  /\ gone' = gone \ {r}

-----------------------------------------------------------------------------
(* mcp_proxy() *)

Receive(r) ==
  /\ r \in Tunnels /\ pc[r] = "idle"
  /\ pc' = [pc EXCEPT ![r] = "body"]
  /\ UNCHANGED <<queue, gone, busy, dropped>>

ClientLeaves(r) ==
  /\ r \in Tunnels /\ pc[r] # "idle" /\ r \notin gone
  /\ gone' = gone \cup {r}
  /\ UNCHANGED <<pc, queue, busy, dropped>>

\* request.body() raises ClientDisconnect, outside the try.
BodyFails(r) ==
  /\ pc[r] = "body" /\ r \in gone
  /\ pc' = [pc EXCEPT ![r] = "idle"]
  /\ gone' = gone \ {r}
  /\ UNCHANGED <<queue, busy, dropped>>

\* The body may have been there before the client left.
Send(r) ==
  /\ pc[r] = "body"
  /\ AskConnection(r)
  /\ UNCHANGED <<gone, dropped>>

\* Headers are there, whatever their status.
Answered(r) ==
  /\ r \in Tunnels /\ pc[r] = "sent"
  /\ pc' = [pc EXCEPT ![r] = "answered"]
  /\ UNCHANGED <<queue, gone, busy, dropped>>

\* ConnectError, 503, or another error, 502.
SendFails(r) ==
  /\ r \in Tunnels /\ pc[r] = "sent"
  /\ EndsAndHandsOver(r)
  /\ UNCHANGED dropped

StreamStarts(r) ==
  /\ pc[r] = "answered"
  /\ pc' = [pc EXCEPT ![r] = "streaming"]
  /\ UNCHANGED <<queue, gone, busy, dropped>>

\* The generator never starts, and nobody calls resp.aclose().
Dropped(r) ==
  /\ pc[r] = "answered" /\ r \in gone
  /\ pc' = [pc EXCEPT ![r] = "idle"]
  /\ gone' = gone \ {r}
  /\ dropped' = dropped + 1
  /\ UNCHANGED <<queue, busy>>

\* The upstream ends the response, or its connection breaks.
StreamEnds(r) ==
  /\ pc[r] = "streaming"
  /\ EndsAndHandsOver(r)
  /\ UNCHANGED dropped

\* Mutation: the generator has no finally clause.
StreamCancelledUnclosed(r) ==
  /\ pc[r] = "streaming" /\ r \in gone
  /\ pc' = [pc EXCEPT ![r] = "idle"]
  /\ gone' = gone \ {r}
  /\ UNCHANGED <<queue, busy, dropped>>

\* Mutation: an event stream is not cancelled when its client has gone.
StreamCancelledPostsOnly(r) ==
  /\ r \in Posts /\ pc[r] = "streaming" /\ r \in gone
  /\ EndsAndHandsOver(r)
  /\ UNCHANGED dropped

\* The response is cancelled for the client that has gone; finally: aclose().
StreamCancelled(r) ==
  /\ pc[r] = "streaming" /\ r \in gone
  /\ EndsAndHandsOver(r)
  /\ UNCHANGED dropped

-----------------------------------------------------------------------------
(* _fetch_json() *)

Fetch(r) ==
  /\ r \in Feedbacks /\ pc[r] = "idle"
  /\ AskConnection(r)
  /\ UNCHANGED <<gone, dropped>>

\* An answer, an error, or a read that takes too long.
FetchEnds(r) ==
  /\ r \in Feedbacks /\ pc[r] = "sent"
  /\ EndsAndHandsOver(r)
  /\ UNCHANGED dropped

\* Mutation: what gives up stays in the queue.
FetchGivesUpInQueue(r) ==
  /\ r \in Feedbacks /\ pc[r] = "queued"
  /\ pc' = [pc EXCEPT ![r] = "idle"]
  /\ UNCHANGED <<queue, gone, busy, dropped>>

\* The timeout for getting a connection.
FetchGivesUp(r) ==
  /\ r \in Feedbacks /\ pc[r] = "queued"
  /\ pc' = [pc EXCEPT ![r] = "idle"]
  /\ \E i \in DOMAIN queue : queue[i] = r /\ queue' = RemoveAt(queue, i)
  /\ UNCHANGED <<gone, busy, dropped>>

-----------------------------------------------------------------------------
FromClient(r) == Receive(r) \/ ClientLeaves(r) \/ Send(r) \/ BodyFails(r)
FromUpstream(r) == Answered(r) \/ SendFails(r) \/ StreamEnds(r)
Responds(r) == StreamStarts(r) \/ Dropped(r)
FetchReturns(r) == FetchEnds(r) \/ FetchGivesUp(r)

TunnelNext ==
  \E r \in Requests :
    \/ FromClient(r) \/ FromUpstream(r) \/ Responds(r) \/ StreamCancelled(r)
    \/ Fetch(r) \/ FetchReturns(r)

TunnelSpec == TunnelInit /\ [][TunnelNext]_tunnelVars

\* What the proxy does on its own.  Nothing is assumed of clients, and of the
\* upstreams neither that they answer nor that they end what they send; the
\* timeouts of _fetch_json do not bound that either.
TunnelFairness ==
  \A r \in Requests :
    /\ WF_tunnelVars(Responds(r))
    /\ WF_tunnelVars(StreamCancelled(r))
    /\ WF_tunnelVars(BodyFails(r) \/ (r \in gone /\ Send(r)))

TunnelFairSpec == TunnelSpec /\ TunnelFairness

-----------------------------------------------------------------------------
(* Properties *)

\* Requests whose coroutine has a connection, and will close its response.
Holders == {r \in Requests : pc[r] \in {"sent", "answered", "streaming"}}

\* Whatever fails, ends or is cancelled at whichever await, no connection is out
\* that no request will close, but for one per response that was dropped before
\* its generator started: its finally clause is all that closes it.
OnlyDropsLeak == busy = Cardinality(Holders) + dropped

\* A tunnel whose client has gone ends, its event stream included, if requests
\* are answered and the streams of clients that stay end: a client that leaves
\* does not keep a connection busy, unless it loses one (see Dropped), and all
\* but one may be lost.
GoneClientsAreForgotten ==
  /\ <>[](dropped < Limit)
  /\ \A r \in Requests : []<>(pc[r] # "sent")
  /\ \A r \in Tunnels : []<>(pc[r] # "streaming" \/ r \in gone)
  => \A r \in Tunnels : r \in gone ~> r \notin gone
=============================================================================
