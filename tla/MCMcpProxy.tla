------------------------------ MODULE MCMcpProxy ------------------------------
(* Three upstreams, so that the round robin has somebody to pass over, and one *)
(* client that can use its whole burst.                                        *)
EXTENDS McpProxy
=============================================================================
