----------------------------- MODULE MCProxyTunnel -----------------------------
(* Two connections for four tunnels and a feedback call, so that several wait  *)
(* for one, that both can be lost, and that event streams can hold both.       *)
EXTENDS ProxyTunnel
=============================================================================
