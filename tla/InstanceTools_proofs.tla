-------------------------- MODULE InstanceTools_proofs --------------------------
(***************************************************************************)
(* Proofs about InstanceTools, for any instances, coroutines, background   *)
(* tasks and number of writes.                                             *)
(*                                                                         *)
(* AuditInv is the inductive part about calls, audit records and attempts. *)
(* The properties of the audit log do not imply each other: that a record  *)
(* is settled once needs that no two running calls share a record, which   *)
(* none of them says, and that attempts belong to a record that has been   *)
(* made.  DetailInv is the inductive part about the cached details; it     *)
(* also speaks of the answers that are still to be stored, and keeps the   *)
(* floor below what OpenStack holds.                                       *)
(***************************************************************************)
EXTENDS InstanceTools, AsyncTTLCache_proofs

CallRecord == [pc : {"idle", "get", "verify", "write"}, rec : 0..MaxWrites]

AuditRecord ==
  [inst : Instances, inputs : Inputs, result : {"pending", "success", "failed"}]

AuditTypeOK ==
  /\ call \in [Callers -> CallRecord]
  /\ audit \in Seq(AuditRecord)
  /\ Len(audit) <= MaxWrites
  /\ attempts \in [1..MaxWrites -> 0..Retries]
  /\ accepted \subseteq (1..MaxWrites) \X (1..Retries)
  /\ abandoned \subseteq 1..Len(audit)

\* c is in the middle of a call of a SET tool.
InSetCall(c) == call[c].pc \in {"verify", "write"}

\* A running call has a record of its own, which is pending and which it alone
\* will settle; only one that its inputs allow goes on to write.
CallsOwnRecords ==
  /\ \A c \in Callers : InSetCall(c) =>
       /\ call[c].rec \in 1..Len(audit)
       /\ audit[call[c].rec].result = "pending"
       /\ call[c].rec \notin abandoned
       /\ call[c].pc = "write" => Contract!Allowed(audit[call[c].rec].inputs)
       /\ call[c].pc = "verify" => attempts[call[c].rec] = 0
  /\ \A c, d \in Callers : InSetCall(c) /\ InSetCall(d) /\ call[c].rec = call[d].rec => c = d

\* Attempts are made for a record that exists.
AttemptsHaveRecords == \A r \in 1..MaxWrites : attempts[r] # 0 => r \in 1..Len(audit)

AuditInv ==
  /\ AuditTypeOK
  /\ CallsOwnRecords
  /\ PendingMeansRunning
  /\ AttemptsHaveRecords

\* What AuditIsFinal says of a step.
KeepsSettled == \A r \in DOMAIN audit : audit[r].result # "pending" => audit'[r] = audit[r]

-----------------------------------------------------------------------------
(* Calls, audit records and attempts *)

\* Before the first call there is nothing to say.
LEMMA AuditInitInv == ToolsInit => AuditInv
<1> SUFFICES ASSUME ToolsInit PROVE AuditInv
  OBVIOUS
<1>1. MaxWrites \in Nat /\ audit = << >> /\ Len(audit) = 0 /\ DOMAIN audit = {}
  BY ToolsAssumption DEF ToolsInit
<1>2. audit \in Seq(AuditRecord)
  BY <1>1, EmptySeq
<1>3. NoCall \in CallRecord /\ NoCall.pc = "idle"
  BY <1>1 DEF NoCall, CallRecord
<1>4. call \in [Callers -> CallRecord] /\ \A c \in Callers : ~InSetCall(c)
  BY <1>3 DEF ToolsInit, InSetCall
<1>5. AuditTypeOK
  BY <1>1, <1>2, <1>4, ToolsAssumption DEF ToolsInit, AuditTypeOK
<1> QED
  BY <1>1, <1>4, <1>5
  DEF ToolsInit, AuditInv, CallsOwnRecords, PendingMeansRunning, AttemptsHaveRecords

\* The facts of the invariant in the form the steps need them.
LEMMA AuditFacts ==
  ASSUME AuditInv
  PROVE  /\ Len(audit) \in Nat /\ MaxWrites \in Nat /\ Len(audit) <= MaxWrites
         /\ DOMAIN audit = 1..Len(audit)
         /\ \A r \in 1..Len(audit) : audit[r] \in AuditRecord
         /\ \A c \in Callers : call[c] \in CallRecord
BY ToolsAssumption, LenProperties, ElementOfSeq DEF AuditInv, AuditTypeOK

\* A step that neither begins nor ends a call of a SET tool.
LEMMA OtherCallInv ==
  ASSUME AuditInv, NEW c \in Callers, NEW r \in CallRecord,
         ~InSetCall(c), r.pc \in {"idle", "get"}, call' = [call EXCEPT ![c] = r],
         UNCHANGED <<audit, writeVars, abandoned>>
  PROVE  AuditInv' /\ KeepsSettled
<1>1. \A d \in Callers : call'[d] = IF d = c THEN r ELSE call[d]
  BY DEF AuditInv, AuditTypeOK
<1>2. \A d \in Callers : /\ InSetCall(d)' <=> InSetCall(d)
                         /\ InSetCall(d) => call'[d] = call[d]
  BY <1>1 DEF InSetCall
<1>3. AuditTypeOK'
  BY DEF AuditInv, AuditTypeOK, writeVars
<1>4. CallsOwnRecords'
  BY <1>2 DEF AuditInv, CallsOwnRecords, InSetCall, writeVars
<1>5. \A q : Runs(q)' <=> Runs(q)
  BY <1>2 DEF Runs, InSetCall
<1>6. PendingMeansRunning'
  BY <1>5 DEF AuditInv, PendingMeansRunning
<1> QED
  BY <1>3, <1>4, <1>6
  DEF AuditInv, AttemptsHaveRecords, KeepsSettled, writeVars

\* A call that ends settles its record, and no other.
LEMMA SettleInv ==
  ASSUME AuditInv, NEW c \in Callers, NEW result \in {"success", "failed"},
         InSetCall(c), Settle(c, result),
         UNCHANGED <<writeVars, abandoned>>
  PROVE  AuditInv' /\ KeepsSettled
<1> DEFINE q == call[c].rec
           a == [audit[q] EXCEPT !.result = result]
<1>1. /\ Len(audit) \in Nat /\ MaxWrites \in Nat /\ Len(audit) <= MaxWrites
      /\ DOMAIN audit = 1..Len(audit)
      /\ \A r \in 1..Len(audit) : audit[r] \in AuditRecord
  BY AuditFacts
<1>2. /\ q \in 1..Len(audit) /\ audit[q].result = "pending" /\ q \notin abandoned
      /\ \A d \in Callers : InSetCall(d) /\ call[d].rec = q => d = c
  BY DEF AuditInv, CallsOwnRecords
<1>3. a \in AuditRecord /\ a.result = result /\ a.inputs = audit[q].inputs
  BY <1>1, <1>2 DEF AuditRecord
<1>4. audit' = [audit EXCEPT ![q] = a]
  BY <1>1, <1>2 DEF Settle
<1>5. /\ audit' \in Seq(AuditRecord)
      /\ Len(audit') = Len(audit)
      /\ \A r \in 1..Len(audit) : audit'[r] = IF r = q THEN a ELSE audit[r]
  <2> HIDE DEF a
  <2> QED BY <1>2, <1>3, <1>4, ExceptSeq DEF AuditInv, AuditTypeOK
<1>6. DOMAIN audit' = 1..Len(audit)
  BY <1>5, LenProperties
<1>7. \A d \in Callers : call'[d] = IF d = c THEN NoCall ELSE call[d]
  BY DEF Settle, AuditInv, AuditTypeOK
<1>8. \A d \in Callers : /\ InSetCall(d)' <=> InSetCall(d) /\ d # c
                         /\ InSetCall(d)' => call'[d] = call[d] /\ call[d].rec # q
  BY <1>2, <1>7 DEF InSetCall, NoCall
<1> HIDE DEF a
<1>9. AuditTypeOK'
  <2>1. NoCall \in CallRecord
    BY <1>1 DEF NoCall, CallRecord
  <2>2. call' \in [Callers -> CallRecord]
    BY <2>1 DEF Settle, AuditInv, AuditTypeOK
  <2> QED BY <1>1, <1>5, <2>2 DEF AuditInv, AuditTypeOK, writeVars
<1>10. CallsOwnRecords'
  BY <1>5, <1>8 DEF AuditInv, CallsOwnRecords, InSetCall, writeVars
<1>11. PendingMeansRunning'
  <2>1. \A r : Runs(r)' <=> Runs(r) /\ r # q
    BY <1>2, <1>8 DEF Runs, InSetCall
  <2>2. ASSUME NEW r \in 1..Len(audit)
        PROVE  audit'[r].result = "pending" <=> Runs(r)' \/ r \in abandoned'
    <3>1. CASE r = q
      BY <1>2, <1>3, <1>5, <2>1, <3>1
    <3>2. CASE r # q
      BY <1>1, <1>5, <2>1, <3>2 DEF AuditInv, PendingMeansRunning
    <3> QED BY <3>1, <3>2
  <2> QED BY <1>6, <2>2 DEF PendingMeansRunning
<1>12. AttemptsHaveRecords'
  BY <1>5 DEF AuditInv, AttemptsHaveRecords, writeVars
<1>13. KeepsSettled
  BY <1>1, <1>2, <1>5 DEF KeepsSettled
<1> QED BY <1>9, <1>10, <1>11, <1>12, <1>13 DEF AuditInv

\* A new record is the last one, and pending.
LEMMA AppendInv ==
  ASSUME AuditInv, NEW c \in Callers, NEW a \in AuditRecord, ~InSetCall(c),
         Len(audit) < MaxWrites, audit' = Append(audit, a), a.result = "pending",
         call' = [call EXCEPT ![c] = [pc |-> "verify", rec |-> Len(audit) + 1]],
         UNCHANGED <<writeVars, abandoned>>
  PROVE  AuditInv' /\ KeepsSettled
<1>0. PICK q : q = Len(audit) + 1
  OBVIOUS
<1>1. /\ Len(audit) \in Nat /\ MaxWrites \in Nat
      /\ DOMAIN audit = 1..Len(audit)
      /\ \A r \in 1..Len(audit) : audit[r] \in AuditRecord
      /\ \A d \in Callers : call[d] \in CallRecord
  BY AuditFacts
<1>2. /\ audit' \in Seq(AuditRecord)
      /\ Len(audit') = q
      /\ audit'[q] = a
      /\ \A r \in 1..Len(audit) : audit'[r] = audit[r]
  BY <1>0, AppendProperties DEF AuditInv, AuditTypeOK
<1>3. DOMAIN audit' = 1..q
  BY <1>2, LenProperties
<1>4. /\ q \in 1..MaxWrites /\ q \notin 1..Len(audit)
      /\ 1..q = 1..Len(audit) \cup {q}
  BY <1>0, <1>1
<1>5. q \notin abandoned /\ attempts[q] = 0
  BY <1>4 DEF AuditInv, AuditTypeOK, AttemptsHaveRecords
<1>6. \A d \in Callers : InSetCall(d) => call[d].rec \in 1..Len(audit)
  BY DEF AuditInv, CallsOwnRecords
<1> DEFINE n == [pc |-> "verify", rec |-> q]
<1>7. n \in CallRecord /\ n.pc = "verify" /\ n.rec = q
  BY <1>4 DEF CallRecord
<1>8. \A d \in Callers : call'[d] = IF d = c THEN n ELSE call[d]
  BY <1>0 DEF AuditInv, AuditTypeOK
<1>9. call' \in [Callers -> CallRecord]
  BY <1>0, <1>7 DEF AuditInv, AuditTypeOK
<1> HIDE DEF n
<1>10. AuditTypeOK'
  BY <1>1, <1>2, <1>4, <1>9 DEF AuditInv, AuditTypeOK, writeVars
<1>11. \A d \in Callers : InSetCall(d)' <=> d = c \/ InSetCall(d)
  BY <1>7, <1>8 DEF InSetCall
<1>12. CallsOwnRecords'
  <2>1. ASSUME NEW d \in Callers, InSetCall(d)'
        PROVE  /\ call'[d].rec \in 1..q
               /\ audit'[call'[d].rec].result = "pending"
               /\ call'[d].rec \notin abandoned
               /\ call'[d].pc = "write" => Contract!Allowed(audit'[call'[d].rec].inputs)
               /\ call'[d].pc = "verify" => attempts'[call'[d].rec] = 0
    <3>1. CASE d = c
      BY <1>2, <1>4, <1>5, <1>7, <1>8, <3>1 DEF writeVars
    <3>2. CASE d # c
      <4>1. call'[d] = call[d] /\ InSetCall(d)
        BY <1>8, <1>11, <2>1, <3>2
      <4>2. call[d].rec \in 1..Len(audit) /\ call[d].rec \in 1..q
        BY <1>4, <1>6, <4>1
      <4> QED BY <1>2, <4>1, <4>2 DEF AuditInv, CallsOwnRecords, writeVars
    <3> QED BY <3>1, <3>2
  <2>2. ASSUME NEW d \in Callers, NEW e \in Callers, InSetCall(d)', InSetCall(e)',
               call'[d].rec = call'[e].rec
        PROVE  d = e
    BY <1>4, <1>6, <1>7, <1>8, <1>11, <2>2 DEF AuditInv, CallsOwnRecords
  <2> QED BY <1>2, <2>1, <2>2 DEF CallsOwnRecords
<1>13. \A r : Runs(r)' <=> r = q \/ Runs(r)
  BY <1>7, <1>8, <1>11 DEF Runs, InSetCall
<1>14. PendingMeansRunning'
  <2>1. ASSUME NEW r \in 1..q
        PROVE  audit'[r].result = "pending" <=> Runs(r)' \/ r \in abandoned
    <3>1. CASE r = q
      BY <1>2, <1>13, <3>1
    <3>2. CASE r \in 1..Len(audit)
      BY <1>1, <1>2, <1>4, <1>13, <3>2 DEF AuditInv, PendingMeansRunning
    <3> QED BY <1>4, <3>1, <3>2
  <2> QED BY <1>3, <2>1 DEF PendingMeansRunning
<1>15. AttemptsHaveRecords'
  BY <1>1, <1>2, <1>4 DEF AuditInv, AttemptsHaveRecords, writeVars
<1>16. KeepsSettled
  BY <1>1, <1>2 DEF KeepsSettled
<1> QED BY <1>10, <1>12, <1>14, <1>15, <1>16 DEF AuditInv

\* An allowed call that has verified its instance, or whose attempt has raised,
\* makes the next attempt to write.
LEMMA AttemptInv ==
  ASSUME AuditInv, NEW c \in Callers, InSetCall(c), Contract!Allowed(Record(c).inputs),
         attempts[call[c].rec] < Retries, Attempt(c),
         call' = [call EXCEPT ![c].pc = "write"],
         UNCHANGED <<audit, accepted, abandoned>>
  PROVE  AuditInv' /\ KeepsSettled
<1> DEFINE q == call[c].rec
           n == [call[c] EXCEPT !.pc = "write"]
<1>1. /\ Len(audit) \in Nat /\ MaxWrites \in Nat /\ Len(audit) <= MaxWrites
      /\ DOMAIN audit = 1..Len(audit)
      /\ \A d \in Callers : call[d] \in CallRecord
  BY AuditFacts
<1>2. /\ q \in 1..Len(audit) /\ q \in 1..MaxWrites
      /\ audit[q].result = "pending" /\ Contract!Allowed(audit[q].inputs)
  BY <1>1 DEF AuditInv, CallsOwnRecords, Record
<1>3. n \in CallRecord /\ n.pc = "write" /\ n.rec = q
  BY <1>1 DEF CallRecord
<1>4. call' = [call EXCEPT ![c] = n]
  BY DEF AuditInv, AuditTypeOK
<1> HIDE DEF n
<1>5. \A d \in Callers : call'[d] = IF d = c THEN n ELSE call[d]
  BY <1>4 DEF AuditInv, AuditTypeOK
<1>6. \A d \in Callers : (InSetCall(d)' <=> InSetCall(d)) /\ call'[d].rec = call[d].rec
  BY <1>3, <1>5 DEF InSetCall
<1>7. /\ \A r \in 1..MaxWrites : attempts[r] \in 0..Retries
      /\ \A r \in 1..MaxWrites : attempts'[r] = IF r = q THEN attempts[q] + 1 ELSE attempts[r]
  BY DEF Attempt, AuditInv, AuditTypeOK
<1>8. AuditTypeOK'
  <2>1. attempts' \in [1..MaxWrites -> 0..Retries]
    BY <1>2, <1>7, ToolsAssumption DEF Attempt, AuditInv, AuditTypeOK
  <2> QED BY <1>3, <1>4, <2>1 DEF AuditInv, AuditTypeOK
<1>9. CallsOwnRecords'
  <2>1. ASSUME NEW d \in Callers, InSetCall(d)
        PROVE  /\ call'[d].pc = "write" => Contract!Allowed(audit[call[d].rec].inputs)
               /\ call'[d].pc = "verify" => attempts'[call[d].rec] = 0
    <3>1. CASE d = c
      BY <1>2, <1>3, <1>5, <3>1
    <3>2. CASE d # c
      <4>1. call'[d] = call[d] /\ call[d].rec # q /\ call[d].rec \in 1..MaxWrites
        BY <1>1, <1>5, <2>1, <3>2 DEF AuditInv, CallsOwnRecords
      <4> QED BY <1>7, <2>1, <4>1 DEF AuditInv, CallsOwnRecords
    <3> QED BY <3>1, <3>2
  <2> QED BY <1>6, <2>1 DEF AuditInv, CallsOwnRecords
<1>10. \A r : Runs(r)' <=> Runs(r)
  BY <1>6 DEF Runs, InSetCall
<1>11. PendingMeansRunning'
  BY <1>10 DEF AuditInv, PendingMeansRunning
<1>12. AttemptsHaveRecords'
  BY <1>2, <1>7 DEF AuditInv, AttemptsHaveRecords
<1> QED
  BY <1>8, <1>9, <1>11, <1>12 DEF AuditInv, KeepsSettled

\* A call that is cancelled from outside leaves its record pending for good.
LEMMA AbandonInv ==
  ASSUME AuditInv, NEW c \in Callers, InSetCall(c),
         call' = [call EXCEPT ![c] = NoCall],
         abandoned' = abandoned \cup {call[c].rec},
         UNCHANGED <<audit, writeVars>>
  PROVE  AuditInv' /\ KeepsSettled
<1> DEFINE q == call[c].rec
<1>1. q \in 1..Len(audit) /\ audit[q].result = "pending" /\ MaxWrites \in Nat
  BY AuditFacts DEF AuditInv, CallsOwnRecords
<1>2. NoCall \in CallRecord /\ NoCall.pc = "idle"
  BY <1>1 DEF NoCall, CallRecord
<1>3. \A d \in Callers : call'[d] = IF d = c THEN NoCall ELSE call[d]
  BY DEF AuditInv, AuditTypeOK
<1>4. \A d \in Callers : /\ InSetCall(d)' <=> InSetCall(d) /\ d # c
                         /\ InSetCall(d)' => call'[d] = call[d] /\ call[d].rec # q
  BY <1>2, <1>3 DEF InSetCall, AuditInv, CallsOwnRecords
<1>5. AuditTypeOK'
  BY <1>1, <1>2 DEF AuditInv, AuditTypeOK, writeVars
<1>6. CallsOwnRecords'
  BY <1>4 DEF AuditInv, CallsOwnRecords, InSetCall, writeVars
<1>7. \A r : Runs(r)' <=> Runs(r) /\ r # q
  BY <1>4 DEF Runs, InSetCall
<1>8. PendingMeansRunning'
  BY <1>1, <1>7 DEF AuditInv, PendingMeansRunning
<1> QED
  BY <1>5, <1>6, <1>8
  DEF AuditInv, AttemptsHaveRecords, KeepsSettled, writeVars

\* OpenStack accepts an attempt that has been made.
LEMMA AcceptsInv ==
  ASSUME AuditInv, NEW r \in DOMAIN audit, Accepts(r)
  PROVE  AuditInv' /\ KeepsSettled
<1>1. r \in 1..MaxWrites
  BY AuditFacts
<1>2. PICK n \in 1..attempts[r] : accepted' = accepted \cup {<<r, n>>}
  BY DEF Accepts, Accepted
<1>3. UNCHANGED <<call, audit, attempts, abandoned>>
  BY DEF Accepts
<1>4. AuditTypeOK'
  <2>1. attempts[r] \in 0..Retries /\ Retries \in Nat
    BY <1>1, ToolsAssumption DEF AuditInv, AuditTypeOK
  <2>2. n \in 1..Retries
    BY <2>1
  <2> QED BY <1>1, <1>2, <1>3, <2>2 DEF AuditInv, AuditTypeOK
<1>5. CallsOwnRecords' /\ PendingMeansRunning' /\ AttemptsHaveRecords'
  BY <1>3 DEF AuditInv, CallsOwnRecords, PendingMeansRunning, AttemptsHaveRecords, Runs, InSetCall
<1> QED BY <1>3, <1>4, <1>5 DEF AuditInv, KeepsSettled

\* What the gates let pass is what the schemas of the tools allow, and the others
\* are a dry run or fail.
LEMMA GatesAllow ==
  ASSUME AuditInv, NEW c \in Callers, Verified(c)
  PROVE  LET q == Record(c).inputs
         IN  \/ /\ Contract!Allowed(q)
                /\ attempts[call[c].rec] = 0 /\ attempts[call[c].rec] < Retries
                /\ call' = [call EXCEPT ![c].pc = "write"] /\ Attempt(c)
                /\ UNCHANGED <<audit, accepted, abandoned>>
             \/ /\ Settle(c, "success") /\ Contract!DryRun(q)
                /\ UNCHANGED <<writeVars, abandoned>>
             \/ Settle(c, "failed") /\ UNCHANGED <<writeVars, abandoned>>
<1> DEFINE q == Record(c).inputs
<1>1. /\ InSetCall(c) /\ call[c].rec \in 1..Len(audit)
      /\ attempts[call[c].rec] = 0
  BY DEF Verified, InSetCall, AuditInv, CallsOwnRecords
<1>2. q \in Inputs
  BY <1>1, AuditFacts DEF Record, AuditRecord
<1>3. /\ q.tool \in {"delete", "destructive", "harmless", "unknown"}
      /\ q.confirm \in BOOLEAN /\ q.dry \in BOOLEAN
      /\ q.tool # "delete" => ~q.dry
  BY <1>2 DEF Inputs
<1>4. /\ q.tool # "unknown" /\ (q.tool = "destructive" => q.confirm)
      /\ UNCHANGED <<accepted, abandoned>>
  BY DEF Verified, Refused
<1>5. CASE q.tool = "delete" /\ (q.dry \/ ~q.confirm)
  BY <1>5 DEF Verified, Contract!DryRun, writeVars
<1>6. CASE ~(q.tool = "delete" /\ (q.dry \/ ~q.confirm))
  <2>1. Contract!Allowed(q)
    BY <1>3, <1>4, <1>6 DEF Contract!Allowed, Contract!DryRun
  <2>2. Write(c) /\ attempts[call[c].rec] < Retries
    BY <1>1, <1>6, ToolsAssumption DEF Verified
  <2> QED BY <1>1, <1>4, <2>1, <2>2 DEF Write
<1> QED BY <1>5, <1>6

\* Every step keeps the invariant of the calls, and what is settled.
LEMMA AuditNextInv ==
  ASSUME AuditInv, [ToolsNext]_toolsVars
  PROVE  AuditInv' /\ KeepsSettled
<1>1. ASSUME NEW c \in Callers, call[c].pc \in {"idle", "get"},
             call' = [call EXCEPT ![c] = NoCall],
             UNCHANGED <<audit, writeVars, abandoned>>
      PROVE  AuditInv' /\ KeepsSettled
  <2>1. NoCall \in CallRecord /\ NoCall.pc = "idle"
    BY ToolsAssumption DEF NoCall, CallRecord
  <2> QED BY <1>1, <2>1, OtherCallInv DEF InSetCall
<1>2. ASSUME UNCHANGED <<call, audit, writeVars, abandoned>>
      PROVE  AuditInv' /\ KeepsSettled
  BY <1>2
  DEF AuditInv, AuditTypeOK, CallsOwnRecords, PendingMeansRunning, Runs, InSetCall,
      AttemptsHaveRecords, KeepsSettled, writeVars
<1>3. ASSUME NEW c \in Callers, GetStep(c) PROVE AuditInv' /\ KeepsSettled
  <2>1. ASSUME NEW k \in Keys, GetHit(c, k) PROVE AuditInv' /\ KeepsSettled
    BY <1>2, <2>1 DEF GetHit
  <2>2. ASSUME NEW k \in Keys, GetMiss(c, k) PROVE AuditInv' /\ KeepsSettled
    <3> DEFINE n == [call[c] EXCEPT !.pc = "get"]
    <3>1. n \in CallRecord /\ n.pc = "get"
      BY AuditFacts DEF CallRecord
    <3>2. call' = [call EXCEPT ![c] = n]
      BY <2>2 DEF GetMiss, AuditInv, AuditTypeOK
    <3>3. call[c].pc = "idle" /\ UNCHANGED <<audit, writeVars, abandoned>>
      BY <2>2 DEF GetMiss
    <3> HIDE DEF n
    <3> QED BY <3>1, <3>2, <3>3, OtherCallInv DEF InSetCall
  <2>3. CASE GetEnds(c)
    BY <1>1, <2>3 DEF GetEnds
  <2> QED BY <1>3, <2>1, <2>2, <2>3 DEF GetStep
<1>4. ASSUME NEW c \in Callers, SetStep(c) PROVE AuditInv' /\ KeepsSettled
  <2>1. ASSUME NEW i \in Instances, NEW q \in Given, SetBegin(c, i, q)
        PROVE  AuditInv' /\ KeepsSettled
    <3> DEFINE a == [inst |-> i, inputs |-> q, result |-> "pending"]
    <3>1. a \in AuditRecord /\ a.result = "pending"
      BY ToolsAssumption DEF AuditRecord
    <3>2. /\ ~InSetCall(c) /\ Len(audit) < MaxWrites
          /\ audit' = Append(audit, a)
          /\ call' = [call EXCEPT ![c] = [pc |-> "verify", rec |-> Len(audit) + 1]]
          /\ UNCHANGED <<writeVars, abandoned>>
      BY <2>1 DEF SetBegin, InSetCall
    <3> HIDE DEF a
    <3> QED BY <3>1, <3>2, AppendInv
  <2>2. CASE VerifyFails(c)
    BY <2>2, SettleInv DEF VerifyFails, InSetCall
  <2>3. CASE Verified(c)
    BY <2>3, GatesAllow, AttemptInv, SettleInv DEF Verified, InSetCall
  <2>4. CASE WriteRetries(c)
    <3>1. InSetCall(c) /\ Contract!Allowed(Record(c).inputs)
      BY <2>4 DEF WriteRetries, InSetCall, Record, AuditInv, CallsOwnRecords
    <3>2. call[c] = [call[c] EXCEPT !.pc = "write"]
      BY <2>4, AuditFacts DEF WriteRetries, CallRecord
    <3>3. call' = [call EXCEPT ![c].pc = "write"]
      BY <2>4, <3>2 DEF WriteRetries, AuditInv, AuditTypeOK
    <3> QED BY <2>4, <3>1, <3>3, AttemptInv DEF WriteRetries
  <2>5. CASE WriteReturns(c)
    BY <2>5, SettleInv DEF WriteReturns, InSetCall
  <2>6. CASE WriteFails(c)
    BY <2>6, SettleInv DEF WriteFails, InSetCall
  <2> QED BY <1>4, <2>1, <2>2, <2>3, <2>4, <2>5, <2>6 DEF SetStep
<1>5. ASSUME NEW c \in Callers, Timeout(c) PROVE AuditInv' /\ KeepsSettled
  BY <1>1, <1>5, SettleInv DEF Timeout, InSetCall
<1>6. ASSUME NEW c \in Callers, Abandon(c) PROVE AuditInv' /\ KeepsSettled
  BY <1>1, <1>6, AbandonInv DEF Abandon, InSetCall
<1> QED
  BY <1>2, <1>3, <1>4, <1>5, <1>6, AcceptsInv DEF ToolsNext, CacheGoesOn, toolsVars

\* Calls, records and attempts agree in every state.
THEOREM AuditInvariance == ToolsSpec => []AuditInv
<1>1. AuditInv /\ [ToolsNext]_toolsVars => AuditInv'
  BY AuditNextInv
<1> QED BY <1>1, AuditInitInv, PTL DEF ToolsSpec

\* A record is pending exactly while its call runs or after it was cancelled
\* from outside: no refusal, failure or timeout leaves one behind.
THEOREM PendingIsRunning == ToolsSpec => []PendingMeansRunning
BY AuditInvariance, PTL DEF AuditInv

\* A settled record never changes again, also when OpenStack accepts its write later.
THEOREM AuditStaysFinal == ToolsSpec => AuditIsFinal
<1>1. AuditInv /\ [ToolsNext]_toolsVars =>
        [\A r \in DOMAIN audit :
           audit[r].result # "pending" => audit'[r] = audit[r]]_toolsVars
  BY AuditNextInv DEF KeepsSettled
<1> QED BY <1>1, AuditInvariance, PTL DEF ToolsSpec, AuditIsFinal

-----------------------------------------------------------------------------
(* The cache under the tools *)

\* To the cache the tools are callers like any other.
LEMMA ToolsUseCache ==
  ASSUME AuditInv, [ToolsNext]_toolsVars
  PROVE  [CacheNext]_cacheVars
<1>1. ASSUME NEW c \in Callers, CallerStep(c) PROVE [CacheNext]_cacheVars
  BY <1>1 DEF CacheNext
<1>2. ASSUME NEW t \in Tasks, RefreshStep(t) PROVE [CacheNext]_cacheVars
  BY <1>2 DEF CacheNext
<1>3. Callers \subseteq Tasks /\ Refreshers \subseteq Tasks
  BY DEF Tasks
<1>4. ASSUME NEW c \in Callers, GetStep(c) PROVE [CacheNext]_cacheVars
  BY <1>1, <1>2, <1>3, <1>4
  DEF GetStep, GetHit, GetMiss, GetEnds, CallerStep, GetOrFetch, RefreshStep
<1>5. ASSUME NEW c \in Callers, WriteReturns(c) PROVE [CacheNext]_cacheVars
  <2>1. Record(c).inst \in Keys
    BY <1>5, AuditFacts
    DEF WriteReturns, AuditInv, CallsOwnRecords, InSetCall, Record, AuditRecord, Instances
  <2>2. store' = Without(Record(c).inst) /\ UNCHANGED <<inflight, task, cloud>>
    BY <1>5 DEF WriteReturns
  <2>3. CASE Cached(Record(c).inst)
    BY <2>1, <2>2, <2>3 DEF Delete, CacheNext
  <2>4. CASE ~Cached(Record(c).inst)
    BY <2>2, <2>4 DEF Without, cacheVars
  <2> QED BY <2>3, <2>4
<1>6. ASSUME NEW c \in Callers, SetStep(c) PROVE [CacheNext]_cacheVars
  BY <1>5, <1>6 DEF SetStep, SetBegin, VerifyFails, Verified, WriteRetries, WriteFails, cacheVars
<1>7. ASSUME NEW c \in Callers, Timeout(c) \/ Abandon(c) PROVE [CacheNext]_cacheVars
  BY <1>1, <1>7 DEF Timeout, Abandon, CallerStep
<1>8. CASE CacheGoesOn
  BY <1>2, <1>3, <1>8 DEF CacheGoesOn, RefreshStep, CacheNext
<1>9. CASE UNCHANGED toolsVars \/ \E r \in DOMAIN audit : Accepts(r)
  BY <1>9 DEF toolsVars, Accepts
<1> QED BY <1>4, <1>6, <1>7, <1>8, <1>9 DEF ToolsNext

\* So the invariants of the cache hold under the tools too.
LEMMA CacheUnderTools ==
  ASSUME AuditInv, CoordInv, StoreInv, [ToolsNext]_toolsVars
  PROVE  CoordInv' /\ StoreInv'
BY ToolsUseCache, CoordNextInv, StoreNextInv

\* An instance's value that is cached, or about to be, is not below the floor,
\* which itself is something that OpenStack has held.
DetailInv ==
  /\ floor \in [Instances -> Versions]
  /\ \A k \in Instances : floor[k] <= cloud[k]
  /\ \A i \in 1..Len(store) :
       store[i].key \in Instances /\ store[i].val # None =>
         floor[store[i].key] <= store[i].val
  /\ \A t \in Tasks :
       task[t].pc = "fetched" /\ task[t].key \in Instances /\ task[t].val # None =>
         floor[task[t].key] <= task[t].val

\* Only the report of a write raises the floor, to what OpenStack holds, when no
\* answer is on its way; and it takes the entry away.
LEMMA FloorStep ==
  ASSUME AuditInv, CoordInv, StoreInv, DetailInv, [ToolsNext]_toolsVars, NEW k \in Instances
  PROVE  \/ floor'[k] = floor[k]
         \/ /\ floor'[k] = cloud[k] /\ UNCHANGED <<task, cloud>>
            /\ \A t \in Tasks : ~(task[t].pc = "fetched" /\ task[t].key = k)
            /\ \A i \in 1..Len(store') : store'[i].key # k
<1>1. CASE UNCHANGED floor
  BY <1>1
<1>2. ASSUME NEW c \in Callers, WriteReturns(c), floor'[k] # floor[k]
      PROVE  /\ floor'[k] = cloud[k] /\ UNCHANGED <<task, cloud>>
             /\ \A t \in Tasks : ~(task[t].pc = "fetched" /\ task[t].key = k)
             /\ \A i \in 1..Len(store') : store'[i].key # k
  <2>1. /\ store' = Without(Record(c).inst) /\ UNCHANGED <<task, cloud>>
        /\ Reported(Record(c).inst)
    BY <1>2 DEF WriteReturns
  <2>2. /\ k = Record(c).inst /\ floor'[k] = cloud[k]
        /\ \A t \in Tasks : ~(task[t].pc = "fetched" /\ task[t].key = k)
    BY <1>2, <2>1 DEF Reported, DetailInv
  <2>3. k \in Keys
    BY DEF Instances
  <2> QED BY <2>1, <2>2, <2>3, WithoutProperties DEF StoreInv
<1>3. UNCHANGED floor \/ \E c \in Callers : WriteReturns(c)
  BY DEF ToolsNext, GetStep, GetHit, GetMiss, GetEnds, SetStep, SetBegin, VerifyFails, Verified,
         WriteRetries, WriteFails, Timeout, Abandon, Accepts, CacheGoesOn, toolsVars
<1> QED BY <1>1, <1>2, <1>3

\* Every step keeps it.
LEMMA DetailNextInv ==
  ASSUME AuditInv, CoordInv, StoreInv, DetailInv, [ToolsNext]_toolsVars
  PROVE  DetailInv'
<1>0. [CacheNext]_cacheVars /\ CoordInv' /\ StoreInv'
  BY ToolsUseCache, CacheUnderTools
<1>1. /\ \A t \in Tasks : task[t] \in TaskRecord
      /\ MaxVersion \in Nat
      /\ cloud \in [Keys -> 0..MaxVersion] /\ cloud' \in [Keys -> 0..MaxVersion]
      /\ floor \in [Instances -> 0..MaxVersion]
      /\ \A k \in Instances : k \in Keys
  BY <1>0, CacheAssumption DEF CoordInv, CoordTypeOK, Versions, DetailInv, Instances
<1>2. \A k \in Keys : cloud[k] <= cloud'[k]
  BY <1>0, AnswersStep
<1>3. floor' \in [Instances -> Versions] /\ \A k \in Instances : floor'[k] <= cloud'[k]
  <2>1. floor' \in [Instances -> 0..MaxVersion]
    <3>1. ASSUME NEW c \in Callers, WriteReturns(c)
          PROVE  UNCHANGED floor \/ \E i : floor' = [floor EXCEPT ![i] = cloud[i]]
      BY <3>1 DEF WriteReturns, Reported
    <3>2. UNCHANGED floor \/ \E i : floor' = [floor EXCEPT ![i] = cloud[i]]
      BY <3>1
      DEF ToolsNext, GetStep, GetHit, GetMiss, GetEnds, SetStep, SetBegin, VerifyFails,
          Verified, WriteRetries, WriteFails, Timeout, Abandon, Accepts, CacheGoesOn, toolsVars
    <3> QED BY <1>1, <3>2
  <2>2. ASSUME NEW k \in Instances PROVE floor'[k] <= cloud'[k]
    BY <1>1, <1>2, <2>2, FloorStep DEF DetailInv
  <2> QED BY <2>1, <2>2 DEF Versions
<1>4. ASSUME NEW i \in 1..Len(store'), store'[i].key \in Instances, store'[i].val # None
      PROVE  floor'[store'[i].key] <= store'[i].val
  <2> SUFFICES floor[store'[i].key] <= store'[i].val
    BY <1>4, FloorStep
  <2>1. CASE ValuesFromStore(store')
    BY <1>4, <2>1 DEF ValuesFromStore, DetailInv
  <2>2. ASSUME NEW t \in Tasks, Refreshed(t) PROVE floor[store'[i].key] <= store'[i].val
    <3>1. /\ task[t].pc = "fetched" /\ task[t].key \in Keys
          /\ task[t].val \in Versions \cup {None}
          /\ store' = Stored(task[t].key, task[t].val)
      BY <1>1, <2>2 DEF Refreshed, CoordInv, CoordTypeOK, TaskRecord
    <3>2. \/ store'[i] = [key |-> task[t].key, val |-> task[t].val, age |-> 0]
          \/ \E j \in 1..Len(store) : store'[i] = store[j]
      BY <3>1, StoredProperties DEF StoreInv
    <3> QED BY <1>4, <3>1, <3>2 DEF DetailInv
  <2> QED BY <1>0, <2>1, <2>2, StoreNextInv
<1>5. ASSUME NEW t \in Tasks, task'[t].pc = "fetched", task'[t].key \in Instances,
             task'[t].val # None
      PROVE  floor'[task'[t].key] <= task'[t].val
  <2>1. CASE task'[t] = task[t]
    BY <1>5, <2>1, FloorStep DEF DetailInv
  <2>2. CASE /\ Answer(t) /\ task'[t].key = task[t].key
             /\ task'[t].val \in {cloud[task[t].key], None}
    <3>1. task[t].key \in Instances /\ task'[t].val = cloud[task[t].key] /\ task[t].pc = "fetching"
      BY <1>5, <2>2 DEF Answer
    <3>2. floor[task[t].key] <= cloud[task[t].key] /\ cloud[task[t].key] \in Nat
      BY <1>1, <3>1 DEF DetailInv
    <3>3. floor'[task[t].key] \in {floor[task[t].key], cloud[task[t].key]}
      BY <3>1, FloorStep
    <3> QED BY <1>5, <2>2, <3>1, <3>2, <3>3
  <2> QED BY <1>0, <1>5, <2>1, <2>2, AnswersStep
<1> QED BY <1>3, <1>4, <1>5 DEF DetailInv

\* Tools, cache and reports together.
THEOREM ToolsInvariance == ToolsSpec => [](AuditInv /\ CoordInv /\ StoreInv /\ DetailInv)
<1>1. ToolsInit => AuditInv /\ CoordInv /\ StoreInv /\ DetailInv
  <2>1. ToolsInit => DetailInv
    BY CacheAssumption DEF ToolsInit, CacheInit, DetailInv, Idle, Versions, Instances
  <2> QED BY <2>1, AuditInitInv, CoordInitInv, StoreInitInv DEF ToolsInit
<1>2. AuditInv /\ CoordInv /\ StoreInv /\ DetailInv /\ [ToolsNext]_toolsVars
        => (AuditInv /\ CoordInv /\ StoreInv /\ DetailInv)'
  BY AuditNextInv, CacheUnderTools, DetailNextInv
<1> QED BY <1>1, <1>2, PTL DEF ToolsSpec

\* Tools and cache keep their types.
THEOREM ToolsTypeCorrect == ToolsSpec => []ToolsTypeOK
<1>1. AuditInv /\ CoordInv /\ StoreInv /\ DetailInv => ToolsTypeOK
  <2> SUFFICES ASSUME AuditInv, CoordInv, StoreInv, DetailInv PROVE ToolsTypeOK
    OBVIOUS
  <2>1. CacheTypeOK
    BY DEF CoordInv, CoordTypeOK, StoreInv, StoreTypeOK, EntrySet, TaskRecord, PCs, CacheTypeOK
  <2>2. abandoned \subseteq 1..MaxWrites
    BY AuditFacts DEF AuditInv, AuditTypeOK
  <2> QED BY <2>1, <2>2 DEF AuditInv, AuditTypeOK, CallRecord, AuditRecord, DetailInv, ToolsTypeOK
<1> QED BY <1>1, ToolsInvariance, PTL

\* A cached detail is never older than what OpenStack held of the instance when
\* the last success of a write to it was reported, but for answers on their way.
THEOREM DetailsStayAboveReports == ToolsSpec => []DetailsFollowReports
<1>1. StoreInv /\ DetailInv => DetailsFollowReports
  <2> SUFFICES ASSUME StoreInv, DetailInv PROVE DetailsFollowReports
    OBVIOUS
  <2>1. DOMAIN store = 1..Len(store)
    BY LenProperties DEF StoreInv, StoreTypeOK
  <2> QED BY <2>1 DEF DetailInv, DetailsFollowReports, ToSet
<1> QED BY <1>1, ToolsInvariance, PTL

-----------------------------------------------------------------------------
(* The contract of the audit log *)

\* The contract sees of a state the records made so far.
LEMMA ContractView ==
  ASSUME AuditInv
  PROVE  /\ \A r \in 1..Len(audit) : Said[r] = audit[r].result /\ InputsOf[r] = audit[r].inputs
         /\ \A r \in 1..MaxWrites : r > Len(audit) => Said[r] = "nothing" /\ InputsOf[r] = NoInputs
         /\ \A r \in 1..Len(audit) : Said[r] \in {"pending", "success", "failed"}
<1>1. /\ Len(audit) \in Nat /\ MaxWrites \in Nat /\ Len(audit) <= MaxWrites
      /\ DOMAIN audit = 1..Len(audit)
      /\ \A r \in 1..Len(audit) : audit[r] \in AuditRecord
  BY AuditFacts
<1>2. \A r \in 1..Len(audit) : r \in 1..MaxWrites
  BY <1>1
<1>3. \A r \in 1..MaxWrites : r > Len(audit) => r \notin 1..Len(audit)
  BY <1>1
<1>4. \A r \in 1..Len(audit) : Said[r] = audit[r].result /\ InputsOf[r] = audit[r].inputs
  BY <1>1, <1>2 DEF Said, InputsOf
<1>5. \A r \in 1..MaxWrites : r > Len(audit) => Said[r] = "nothing" /\ InputsOf[r] = NoInputs
  BY <1>1, <1>3 DEF Said, InputsOf
<1> QED BY <1>1, <1>4, <1>5 DEF AuditRecord

\* Before the first call nothing is said and nothing is done.
LEMMA ContractInit == ToolsInit => Contract!Init
<1> SUFFICES ASSUME ToolsInit PROVE Contract!Init
  OBVIOUS
<1>1. DOMAIN audit = {}
  BY DEF ToolsInit
<1>2. Said = [r \in 1..MaxWrites |-> "nothing"] /\ InputsOf = [r \in 1..MaxWrites |-> NoInputs]
  BY <1>1 DEF Said, InputsOf
<1> QED BY <1>2 DEF ToolsInit, NoInputs, Contract!Init

\* What leaves the records and the writes alone is no step of the contract.
LEMMA ContractStutters ==
  ASSUME UNCHANGED <<audit, writeVars>>
  PROVE  UNCHANGED Contract!contractVars
BY DEF Said, InputsOf, writeVars, Contract!contractVars

\* A new record begins the next call.
LEMMA BeginsCall ==
  ASSUME AuditInv, NEW c \in Callers, NEW i \in Instances, NEW g \in Given, SetBegin(c, i, g)
  PROVE  Contract!Next
<1>0. PICK q : q = Len(audit) + 1
  OBVIOUS
<1> DEFINE a == [inst |-> i, inputs |-> g, result |-> "pending"]
<1>1. g \in Inputs /\ a \in AuditRecord /\ a.inputs = g /\ a.result = "pending"
  BY ToolsAssumption DEF AuditRecord
<1>2. /\ Len(audit) \in Nat /\ MaxWrites \in Nat /\ Len(audit) < MaxWrites
      /\ DOMAIN audit = 1..Len(audit) /\ audit' = Append(audit, a)
  BY AuditFacts DEF SetBegin
<1> HIDE DEF a
<1>3. /\ q \in 1..MaxWrites
      /\ \A r \in 1..MaxWrites : r >= q <=> r > Len(audit)
      /\ \A r \in 1..MaxWrites : r > Len(audit) <=> r \notin 1..Len(audit)
      /\ 1..q = 1..Len(audit) \cup {q} /\ q \notin 1..Len(audit)
  BY <1>0, <1>2
<1>4. /\ DOMAIN audit' = 1..q
      /\ audit'[q] = a
      /\ \A r \in 1..Len(audit) : audit'[r] = audit[r]
  <2>1. /\ audit' \in Seq(AuditRecord) /\ Len(audit') = q /\ audit'[q] = a
        /\ \A r \in 1..Len(audit) : audit'[r] = audit[r]
    BY <1>0, <1>1, <1>2, AppendProperties DEF AuditInv, AuditTypeOK
  <2>2. DOMAIN audit' = 1..q
    BY <2>1, LenProperties
  <2> QED BY <2>1, <2>2
<1>5. \A r \in 1..MaxWrites : Said[r] = "nothing" <=> r >= q
  BY <1>3, ContractView
<1>6. /\ \A r \in 1..MaxWrites : r \in DOMAIN audit' <=> r = q \/ r \in DOMAIN audit
      /\ \A r \in DOMAIN audit : audit'[r] = audit[r] /\ r # q
      /\ audit'[q].result = "pending" /\ audit'[q].inputs = g
  BY <1>1, <1>2, <1>3, <1>4
<1>7. /\ Said' = [Said EXCEPT ![q] = "pending"]
      /\ InputsOf' = [InputsOf EXCEPT ![q] = g]
  BY <1>3, <1>6 DEF Said, InputsOf
<1>8. Contract!Begin(q, g)
  BY <1>5, <1>7 DEF Contract!Begin, SetBegin, writeVars
<1>9. /\ g.tool \in {"delete", "destructive", "harmless", "unknown"}
      /\ g.confirm \in BOOLEAN /\ g.dry \in BOOLEAN
      /\ g = [tool |-> g.tool, confirm |-> g.confirm, dry |-> g.dry]
  BY <1>1 DEF Inputs
<1> QED BY <1>3, <1>8, <1>9 DEF Contract!Next

\* A call that settles its record has told its caller.
LEMMA TellsCaller ==
  ASSUME AuditInv, NEW c \in Callers, NEW result \in {"success", "failed"},
         InSetCall(c), Settle(c, result), UNCHANGED writeVars,
         result = "success" =>
           \/ Contract!DryRun(Record(c).inputs)
           \/ \E n \in 1..attempts[call[c].rec] : <<call[c].rec, n>> \in accepted
  PROVE  Contract!Next
<1>0. PICK q : q = call[c].rec
  OBVIOUS
<1>1. /\ Len(audit) \in Nat /\ MaxWrites \in Nat /\ Len(audit) <= MaxWrites
      /\ DOMAIN audit = 1..Len(audit)
      /\ \A r \in 1..Len(audit) : audit[r] \in AuditRecord
  BY AuditFacts
<1>2. /\ q \in 1..Len(audit) /\ q \in 1..MaxWrites /\ audit[q].result = "pending"
  BY <1>0, <1>1 DEF AuditInv, CallsOwnRecords
<1>3. audit' = [audit EXCEPT ![q].result = result]
  BY <1>0 DEF Settle
<1>4. DOMAIN audit' = DOMAIN audit
  BY <1>3
<1>5. \A r \in 1..Len(audit) :
        /\ audit'[r].inputs = audit[r].inputs
        /\ audit'[r].result = IF r = q THEN result ELSE audit[r].result
  BY <1>1, <1>2, <1>3 DEF AuditRecord
<1>6. Said' = [Said EXCEPT ![q] = result]
  BY <1>1, <1>2, <1>4, <1>5 DEF Said
<1>7. InputsOf' = InputsOf
  BY <1>1, <1>4, <1>5 DEF InputsOf
<1>8. Said[q] = "pending" /\ InputsOf[q] = audit[q].inputs
  BY <1>2, ContractView
<1>9. result = "success" =>
        Contract!DryRun(InputsOf[q]) \/ \E n \in 1..attempts[q] : <<q, n>> \in accepted
  BY <1>0, <1>8 DEF Record
<1>10. Contract!Tell(q, result)
  BY <1>6, <1>7, <1>8, <1>9 DEF Contract!Tell, writeVars
<1> QED BY <1>2, <1>10 DEF Contract!Next

\* An attempt is made for an allowed record that is still pending.
LEMMA MakesAttempt ==
  ASSUME AuditInv, NEW c \in Callers, InSetCall(c), Contract!Allowed(Record(c).inputs),
         attempts[call[c].rec] < Retries, Attempt(c), UNCHANGED <<audit, accepted>>
  PROVE  Contract!Next
<1> DEFINE q == call[c].rec
<1>1. q \in 1..Len(audit) /\ q \in 1..MaxWrites /\ audit[q].result = "pending"
  BY AuditFacts DEF AuditInv, CallsOwnRecords
<1>2. Said[q] = "pending" /\ Contract!Allowed(InputsOf[q])
  BY <1>1, ContractView DEF Record
<1>3. Said' = Said /\ InputsOf' = InputsOf
  BY DEF Said, InputsOf
<1>4. Contract!Send(q)
  BY <1>2, <1>3 DEF Contract!Send, Attempt
<1> QED BY <1>1, <1>4 DEF Contract!Next

\* What OpenStack accepts, early or late, is one of the attempts made.
LEMMA AcceptsAttempt ==
  ASSUME AuditInv, NEW r \in DOMAIN audit, Accepts(r)
  PROVE  Contract!Next
<1>1. PICK n \in 1..attempts[r] : <<r, n>> \notin accepted /\ accepted' = accepted \cup {<<r, n>>}
  BY DEF Accepts, Accepted
<1>2. r \in 1..MaxWrites /\ attempts[r] \in 0..Retries
  BY AuditFacts DEF AuditInv, AuditTypeOK
<1>3. n \in 1..Retries /\ n <= attempts[r]
  BY <1>2, ToolsAssumption
<1>4. Said' = Said /\ InputsOf' = InputsOf /\ UNCHANGED attempts
  BY DEF Accepts, Said, InputsOf
<1>5. Contract!Accept(r, n)
  BY <1>1, <1>3, <1>4 DEF Contract!Accept
<1> QED BY <1>2, <1>3, <1>5 DEF Contract!Next

\* run_sdk returns the answer to an attempt that was accepted.
LEMMA ReturnsAccepted ==
  ASSUME AuditInv, NEW c \in Callers, WriteReturns(c)
  PROVE  \E n \in 1..attempts[call[c].rec] : <<call[c].rec, n>> \in accepted
<1>1. /\ call[c].rec \in 1..MaxWrites
      /\ <<call[c].rec, attempts[call[c].rec]>> \in accepted
  BY AuditFacts DEF WriteReturns, InSetCall, AuditInv, CallsOwnRecords
<1>2. attempts[call[c].rec] \in 1..Retries
  BY <1>1 DEF AuditInv, AuditTypeOK
<1>3. attempts[call[c].rec] \in 1..attempts[call[c].rec]
  BY <1>2, ToolsAssumption
<1> QED BY <1>1, <1>3

\* Every step of the tools is a step of the contract, or none.
LEMMA ContractStep ==
  ASSUME AuditInv, [ToolsNext]_toolsVars
  PROVE  [Contract!Next]_Contract!contractVars
<1>1. ASSUME UNCHANGED <<audit, writeVars>> PROVE [Contract!Next]_Contract!contractVars
  BY <1>1, ContractStutters
<1>2. ASSUME NEW c \in Callers, InSetCall(c), UNCHANGED writeVars, Settle(c, "failed")
      PROVE  Contract!Next
  BY <1>2, TellsCaller
<1>3. ASSUME NEW c \in Callers, Verified(c) PROVE Contract!Next
  BY <1>2, <1>3, GatesAllow, MakesAttempt, TellsCaller DEF Verified, InSetCall
<1>4. ASSUME NEW c \in Callers, WriteRetries(c) PROVE Contract!Next
  <2>1. InSetCall(c) /\ Contract!Allowed(Record(c).inputs)
    BY <1>4 DEF WriteRetries, InSetCall, Record, AuditInv, CallsOwnRecords
  <2> QED BY <1>4, <2>1, MakesAttempt DEF WriteRetries
<1>5. ASSUME NEW c \in Callers, WriteReturns(c) PROVE Contract!Next
  BY <1>5, ReturnsAccepted, TellsCaller DEF WriteReturns, InSetCall
<1>6. ASSUME NEW c \in Callers, SetStep(c) PROVE [Contract!Next]_Contract!contractVars
  BY <1>2, <1>3, <1>4, <1>5, <1>6, BeginsCall DEF SetStep, VerifyFails, WriteFails, InSetCall
<1>7. ASSUME NEW c \in Callers, GetStep(c) PROVE UNCHANGED <<audit, writeVars>>
  BY <1>7 DEF GetStep, GetHit, GetMiss, GetEnds
<1>8. ASSUME NEW c \in Callers, Timeout(c) PROVE [Contract!Next]_Contract!contractVars
  BY <1>1, <1>2, <1>8 DEF Timeout, InSetCall
<1>9. ASSUME NEW c \in Callers, Abandon(c) PROVE UNCHANGED <<audit, writeVars>>
  BY <1>9 DEF Abandon
<1>10. CASE CacheGoesOn \/ UNCHANGED toolsVars
  BY <1>1, <1>10 DEF CacheGoesOn, toolsVars
<1>11. ASSUME NEW r \in DOMAIN audit, Accepts(r) PROVE Contract!Next
  BY <1>11, AcceptsAttempt
<1> QED BY <1>1, <1>6, <1>7, <1>8, <1>9, <1>10, <1>11 DEF ToolsNext

\* The tools implement the contract of the audit log: calls are recorded in
\* order before they act, settled once, and told "success" of nothing but a dry
\* run that OpenStack has not accepted; only calls that their flags allow make
\* attempts, Retries at the most, and none after their caller has been answered.
THEOREM ToolsKeepAuditContract == ToolsSpec => KeepsAuditContract
<1>1. AuditInv /\ [ToolsNext]_toolsVars => [Contract!Next]_Contract!contractVars
  BY ContractStep
<1> QED
  BY <1>1, ContractInit, AuditInvariance, PTL DEF ToolsSpec, KeepsAuditContract, Contract!Spec
=============================================================================
