----------------------------- MODULE InstanceTools -----------------------------
(***************************************************************************)
(* mcp_server/tools: BaseTool.__call__ around the instance tools, with the *)
(* audit log and the AsyncTTLCache that they share.                        *)
(*                                                                         *)
(* GET tools read one key through @cached: ListKey (_fetch_all_instances)  *)
(* or an instance (_fetch_instance_detail).  SET tools verify the instance,*)
(* pass their gates, write through run_sdk and invalidate.  An answered    *)
(* write is one that OpenStack has accepted ("deletion requested", "action *)
(* dispatched"): what it changes, and when, is CloudChanges, like all that *)
(* other users of OpenStack change.                                        *)
(*                                                                         *)
(* Atomicity.  __call__ suspends only in wait_for(_run).  Before it, the   *)
(* audit record is made; after it, audit, metrics and feedback follow      *)
(* without suspending, so a call ends in one step.  A cancelled await of   *)
(* to_thread leaves the thread running: OpenStack may accept a write later, *)
(* and also one whose answer was lost, which run_sdk has long sent again.  *)
(***************************************************************************)
EXTENDS AsyncTTLCache

CONSTANTS
  ListKey,       \* the cache key of _fetch_all_instances
  Retries,       \* attempts of run_sdk
  MaxWrites,     \* bound: calls of SET tools
  Given          \* bound: the inputs they are called with

Instances == Keys \ {ListKey}

\* What the gates of the SET tools look at: set_instance_delete with its two
\* flags, and set_instance_action with an action in DESTRUCTIVE, another valid
\* one, or an unknown one.  Only the delete tool has a dry_run.
Inputs ==
  [tool : {"delete"}, confirm : BOOLEAN, dry : BOOLEAN] \cup
  [tool : {"destructive", "harmless", "unknown"}, confirm : BOOLEAN, dry : {FALSE}]

ASSUME ToolsAssumption ==
  /\ ListKey \in Keys
  /\ MaxWrites \in Nat /\ Retries \in Nat \ {0}
  /\ Given \subseteq Inputs

VARIABLES
  call,          \* per coroutine: where its __call__ is, and its audit record
  audit,         \* _records of the AuditLog
  attempts,      \* per audit record: the attempts that run_sdk has made to write
  accepted,      \* the attempts, <<record, number>>, that OpenStack has accepted
  abandoned,     \* history: records of calls that were cancelled from outside
  floor          \* history: what OpenStack held of an instance when a success of
                 \* a write to it was last reported with no answer on its way

writeVars == <<attempts, accepted>>

toolsVars == <<cacheVars, call, audit, writeVars, abandoned, floor>>

NoCall == [pc |-> "idle", rec |-> 0]

NoInputs == [tool |-> "none", confirm |-> FALSE, dry |-> FALSE]

ToolsTypeOK ==
  /\ CacheTypeOK
  /\ call \in [Callers -> [pc : {"idle", "get", "verify", "write"}, rec : 0..MaxWrites]]
  /\ audit \in Seq([inst : Instances, inputs : Inputs,
                   result : {"pending", "success", "failed"}])
  /\ attempts \in [1..MaxWrites -> 0..Retries]
  /\ accepted \subseteq (1..MaxWrites) \X (1..Retries)
  /\ abandoned \subseteq 1..MaxWrites
  /\ floor \in [Instances -> Versions]

ToolsInit ==
  /\ CacheInit
  /\ call = [c \in Callers |-> NoCall]
  /\ audit = << >>
  /\ attempts = [r \in 1..MaxWrites |-> 0]
  /\ accepted = {}
  /\ abandoned = {}
  /\ floor = [i \in Instances |-> 0]

-----------------------------------------------------------------------------
(* GET tools *)

GetHit(c, k) ==
  /\ call[c].pc = "idle"
  /\ HitFresh(c, k) \/ HitStale(c, k)
  /\ UNCHANGED <<call, audit, writeVars, abandoned, floor>>

GetMiss(c, k) ==
  /\ call[c].pc = "idle"
  /\ WaitForLeader(c, k) \/ Lead(c, k)
  /\ call' = [call EXCEPT ![c].pc = "get"]
  /\ UNCHANGED <<audit, writeVars, abandoned, floor>>

GetEnds(c) ==
  /\ call[c].pc = "get"
  /\ Refreshed(c) \/ RefreshFailed(c) \/ Resume(c)
  /\ call' = [call EXCEPT ![c] = NoCall]
  /\ UNCHANGED <<audit, writeVars, abandoned, floor>>

\* Steps of the cache that end no call, and of OpenStack: it carries out what it
\* has accepted, and what its other users want.
CacheGoesOn ==
  /\ \/ \E t \in Tasks : Answer(t)
     \/ \E b \in Refreshers : BeginRefresh(b) \/ Refreshed(b) \/ RefreshFailed(b)
     \/ \E k \in Keys : CloudChanges(k)
     \/ CacheTick
  /\ UNCHANGED <<call, audit, writeVars, abandoned, floor>>

-----------------------------------------------------------------------------
(* SET tools *)

Record(c) == audit[call[c].rec]

\* The result of _run is known: update_result, and the answer.
Settle(c, result) ==
  /\ audit' = [audit EXCEPT ![call[c].rec].result = result]
  /\ call' = [call EXCEPT ![c] = NoCall]

\* Mutation: the record is numbered after it has been appended.
SetBeginWrongRecord(c, i, q) ==
  /\ call[c].pc = "idle"
  /\ Len(audit) < MaxWrites
  /\ audit' = Append(audit, [inst |-> i, inputs |-> q, result |-> "pending"])
  /\ call' = [call EXCEPT ![c] = [pc |-> "verify", rec |-> Len(audit') + 1]]
  /\ UNCHANGED <<cacheVars, writeVars, abandoned, floor>>

\* AuditLog.record() comes before anything else.
SetBegin(c, i, q) ==
  /\ call[c].pc = "idle"
  /\ Len(audit) < MaxWrites
  /\ audit' = Append(audit, [inst |-> i, inputs |-> q, result |-> "pending"])
  /\ call' = [call EXCEPT ![c] = [pc |-> "verify", rec |-> Len(audit) + 1]]
  /\ UNCHANGED <<cacheVars, writeVars, abandoned, floor>>

\* What set_instance_action refuses before it asks OpenStack for the instance.
Refused(q) == q.tool = "unknown" \/ (q.tool = "destructive" /\ ~q.confirm)

\* A gate refuses the call, or get_server raises.
VerifyFails(c) ==
  /\ call[c].pc = "verify"
  /\ Settle(c, "failed")
  /\ UNCHANGED <<cacheVars, writeVars, abandoned, floor>>

\* breaker.call sends a request to OpenStack, from a thread.
Attempt(c) == attempts' = [attempts EXCEPT ![call[c].rec] = @ + 1]

Write(c) ==
  /\ call' = [call EXCEPT ![c].pc = "write"]
  /\ Attempt(c)
  /\ UNCHANGED audit

\* Mutation: only the confirmation is asked for, not dry_run.
VerifiedForgetsDryRun(c) ==
  LET q == Record(c).inputs
  IN  /\ call[c].pc = "verify" /\ ~Refused(q)
      /\ IF q.tool = "delete" /\ ~q.confirm
         THEN Settle(c, "failed") /\ UNCHANGED attempts
         ELSE Write(c)
      /\ UNCHANGED <<cacheVars, accepted, abandoned, floor>>

\* get_server has answered.  The delete tool looks at dry_run, which succeeds
\* whatever confirm says, and then at confirm; everything else writes.
Verified(c) ==
  LET q == Record(c).inputs
  IN  /\ call[c].pc = "verify" /\ ~Refused(q)
      /\ IF q.tool = "delete" /\ (q.dry \/ ~q.confirm)
         THEN Settle(c, IF q.dry THEN "success" ELSE "failed") /\ UNCHANGED attempts
         ELSE Write(c)
      /\ UNCHANGED <<cacheVars, accepted, abandoned, floor>>

Accepted(r) ==
  \E n \in 1..attempts[r] : <<r, n>> \notin accepted /\ accepted' = accepted \cup {<<r, n>>}

\* Mutation: a write that is accepted late corrects its audit record.
AcceptsAndSettles(r) ==
  /\ Accepted(r)
  /\ audit' = [audit EXCEPT ![r].result = "success"]
  /\ UNCHANGED <<cacheVars, call, attempts, abandoned, floor>>

\* OpenStack accepts an attempt, whoever still waits for it.
Accepts(r) ==
  /\ Accepted(r)
  /\ UNCHANGED <<cacheVars, call, audit, attempts, abandoned, floor>>

\* The attempt raises and run_sdk makes the next, also of what was accepted.
WriteRetries(c) ==
  /\ call[c].pc = "write"
  /\ attempts[call[c].rec] < Retries
  /\ Attempt(c)
  /\ UNCHANGED <<cacheVars, call, audit, accepted, abandoned, floor>>

\* The history of a reported success, of which a fetched answer knows nothing.
Reported(i) ==
  floor' = IF \E t \in Tasks : task[t].pc = "fetched" /\ task[t].key = i
           THEN floor ELSE [floor EXCEPT ![i] = cloud[i]]

\* Mutation: the cache is invalidated before the write is sent, not after.
WriteReturnsNoInvalidation(c) ==
  /\ call[c].pc = "write"
  /\ <<call[c].rec, attempts[call[c].rec]>> \in accepted
  /\ Reported(Record(c).inst)
  /\ Settle(c, "success")
  /\ UNCHANGED <<cacheVars, writeVars, abandoned>>

\* run_sdk returns: every cached key that names the instance is deleted.  The
\* other pattern, "get_instances", matches no key: the list is stored under the
\* name of the cached function, _fetch_all_instances.
WriteReturns(c) ==
  /\ call[c].pc = "write"
  /\ <<call[c].rec, attempts[call[c].rec]>> \in accepted
  /\ store' = Without(Record(c).inst)
  /\ Reported(Record(c).inst)
  /\ Settle(c, "success")
  /\ UNCHANGED <<inflight, task, cloud, writeVars, abandoned>>

\* run_sdk raises: the breaker is open, or its attempts have been refused or had
\* their answers lost, and some were, or will be, accepted.
WriteFails(c) ==
  /\ call[c].pc = "write"
  /\ Settle(c, "failed")
  /\ UNCHANGED <<cacheVars, writeVars, abandoned, floor>>

-----------------------------------------------------------------------------
(* Calls that do not end by themselves *)

\* Mutation: the timeout answers a SET call without update_result.
TimeoutUnaudited(c) ==
  \/ /\ call[c].pc = "get"
     /\ CancelCaller(c)
     /\ call' = [call EXCEPT ![c] = NoCall]
     /\ UNCHANGED <<audit, writeVars, abandoned, floor>>
  \/ /\ call[c].pc \in {"verify", "write"}
     /\ call' = [call EXCEPT ![c] = NoCall]
     /\ UNCHANGED <<cacheVars, audit, writeVars, abandoned, floor>>

\* wait_for runs out: _run is cancelled, the answer is a failure.
Timeout(c) ==
  \/ /\ call[c].pc = "get"
     /\ CancelCaller(c)
     /\ call' = [call EXCEPT ![c] = NoCall]
     /\ UNCHANGED <<audit, writeVars, abandoned, floor>>
  \/ /\ call[c].pc \in {"verify", "write"}
     /\ Settle(c, "failed")
     /\ UNCHANGED <<cacheVars, writeVars, abandoned, floor>>

\* The client goes away and the server cancels __call__ itself: CancelledError
\* passes both except clauses, and nothing after wait_for is run.
Abandon(c) ==
  \/ /\ call[c].pc = "get"
     /\ CancelCaller(c)
     /\ call' = [call EXCEPT ![c] = NoCall]
     /\ UNCHANGED <<audit, writeVars, abandoned, floor>>
  \/ /\ call[c].pc \in {"verify", "write"}
     /\ call' = [call EXCEPT ![c] = NoCall]
     /\ abandoned' = abandoned \cup {call[c].rec}
     /\ UNCHANGED <<cacheVars, audit, writeVars, floor>>

-----------------------------------------------------------------------------
GetStep(c) == GetEnds(c) \/ \E k \in Keys : GetHit(c, k) \/ GetMiss(c, k)

SetStep(c) ==
  \/ \E i \in Instances, q \in Given : SetBegin(c, i, q)
  \/ VerifyFails(c) \/ Verified(c) \/ WriteRetries(c) \/ WriteReturns(c)
  \/ WriteFails(c)

ToolsNext ==
  \/ \E c \in Callers : GetStep(c) \/ SetStep(c) \/ Timeout(c) \/ Abandon(c)
  \/ \E r \in DOMAIN audit : Accepts(r)
  \/ CacheGoesOn

ToolsSpec == ToolsInit /\ [][ToolsNext]_toolsVars

-----------------------------------------------------------------------------
(* Properties *)

Runs(r) == \E c \in Callers : call[c].pc \in {"verify", "write"} /\ call[c].rec = r

\* A record stays "pending" exactly while its call runs, except that a call
\* cancelled from outside leaves it so for good.
PendingMeansRunning ==
  \A r \in DOMAIN audit : audit[r].result = "pending" <=> Runs(r) \/ r \in abandoned

\* Once settled, a record says for ever what the caller was told.
AuditIsFinal ==
  [][\A r \in DOMAIN audit : audit[r].result # "pending" => audit'[r] = audit[r]]_toolsVars

\* Who has been told of a success reads its effects: a cached detail is never older
\* than what OpenStack held of the instance when the last such report was made,
\* save that a fetch which had its answer by then still stores it.  What the write
\* changes after the report, or others change, stays unseen until the entry goes.
DetailsFollowReports ==
  \A e \in ToSet(store) : e.key \in Instances /\ e.val # None => floor[e.key] <= e.val

\* "Cache invalidated after successful deletion": after it, the instance list
\* that still shows the instance is not cached either.
DeleteInvalidatesList ==
  [][\A r \in DOMAIN audit :
       /\ audit[r].inputs.tool = "delete" /\ ~audit[r].inputs.dry
       /\ audit[r].result = "pending" /\ audit'[r].result = "success"
       => \A e \in ToSet(store') : e.key = ListKey => e.val = None]_toolsVars

-----------------------------------------------------------------------------
(* Refinement: tools, cache and threads keep the contract of the audit log *)

Said == [r \in 1..MaxWrites |-> IF r \in DOMAIN audit THEN audit[r].result ELSE "nothing"]

InputsOf == [r \in 1..MaxWrites |-> IF r \in DOMAIN audit THEN audit[r].inputs ELSE NoInputs]

Contract == INSTANCE AuditContract
              WITH Limit <- MaxWrites, Attempts <- Retries,
                   inputs <- InputsOf, said <- Said, sent <- attempts

\* Whatever else happens, the audit log records every call before it acts, is
\* settled once, and says "success" only of what OpenStack has accepted or of a
\* dry run.  What the flags of a call do not allow makes no attempt, and nothing
\* makes one once its caller has been answered, or more than Retries.
KeepsAuditContract == Contract!Spec
=============================================================================
