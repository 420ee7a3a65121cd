--------------------------- MODULE MCOpenStackClient ---------------------------
(* Two requests that share the pool and a breaker.  As in the code, retries is *)
(* below threshold, so that one request alone does not open a closed breaker   *)
(* and two do; Retries 2 leaves one backoff for the other request to act in.   *)
(* The tools ask for one connection only, the admin's.                         *)
EXTENDS OpenStackClient
=============================================================================
