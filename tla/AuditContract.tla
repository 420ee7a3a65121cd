----------------------------- MODULE AuditContract -----------------------------
(***************************************************************************)
(* What the audit log promises of a SET tool, without coroutines, cache,   *)
(* threads or timeouts.  Records are numbered in the order of their calls. *)
(* A caller is told once how its call went: a success only of what         *)
(* OpenStack has accepted, or of a dry run.  Only a call that its inputs   *)
(* allow makes attempts, and none once its caller has been told.           *)
(* OpenStack accepts each of them or not, whenever it comes to it: a       *)
(* failure is no promise that nothing is done, what is retried may be done *)
(* again, and a call may never be told anything.                           *)
(***************************************************************************)
EXTENDS Naturals

CONSTANTS
  Limit,         \* bound: calls of SET tools
  Attempts       \* attempts of a call

VARIABLES
  inputs,        \* per record: the tool, or the kind of action, and its flags
  said,          \* per record: what its caller has been told
  sent,          \* per record: the attempts made
  accepted       \* the attempts, <<record, number>>, that OpenStack has accepted

contractVars == <<inputs, said, sent, accepted>>

\* What the schemas of the tools say of their flags.  set_instance_delete: confirm
\* "must be true to actually delete", dry_run is to "validate existence only".
\* set_instance_action: confirm "must be true to proceed with destructive actions".
DryRun(q) == q.tool = "delete" /\ q.dry

Allowed(q) ==
  \/ q.tool = "harmless"
  \/ q.tool \in {"delete", "destructive"} /\ q.confirm /\ ~DryRun(q)

Init ==
  /\ inputs = [r \in 1..Limit |-> [tool |-> "none", confirm |-> FALSE, dry |-> FALSE]]
  /\ said = [r \in 1..Limit |-> "nothing"]
  /\ sent = [r \in 1..Limit |-> 0]
  /\ accepted = {}

\* A call is recorded before it does anything.
Begin(r, q) ==
  /\ \A p \in 1..Limit : said[p] = "nothing" <=> p >= r
  /\ inputs' = [inputs EXCEPT ![r] = q]
  /\ said' = [said EXCEPT ![r] = "pending"]
  /\ UNCHANGED <<sent, accepted>>

Send(r) ==
  /\ Allowed(inputs[r]) /\ said[r] = "pending"
  /\ sent[r] < Attempts
  /\ sent' = [sent EXCEPT ![r] = @ + 1]
  /\ UNCHANGED <<inputs, said, accepted>>

Accept(r, n) ==
  /\ n <= sent[r] /\ <<r, n>> \notin accepted
  /\ accepted' = accepted \cup {<<r, n>>}
  /\ UNCHANGED <<inputs, said, sent>>

Tell(r, result) ==
  /\ said[r] = "pending"
  /\ result = "success" =>
       DryRun(inputs[r]) \/ \E n \in 1..sent[r] : <<r, n>> \in accepted
  /\ said' = [said EXCEPT ![r] = result]
  /\ UNCHANGED <<inputs, sent, accepted>>

Next ==
  \E r \in 1..Limit :
    \/ \E tool \in {"delete", "destructive", "harmless", "unknown"},
          confirm \in BOOLEAN, dry \in BOOLEAN :
         Begin(r, [tool |-> tool, confirm |-> confirm, dry |-> dry])
    \/ Send(r)
    \/ \E n \in 1..Attempts : Accept(r, n)
    \/ \E result \in {"success", "failed"} : Tell(r, result)

Spec == Init /\ [][Next]_contractVars
=============================================================================
