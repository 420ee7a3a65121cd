------------------------------- MODULE EventLog -------------------------------
(***************************************************************************)
(* What the feedback bus promises its streams, without queues, ring or     *)
(* responses: one log, of which an attached reader sees every event once   *)
(* and in order, from the moment it is attached.  The log waits for        *)
(* nobody: a reader that lags by Room events is detached by the next one,  *)
(* may still read what was its own until then, and is otherwise detached   *)
(* only when it leaves.                                                    *)
(***************************************************************************)
EXTENDS Naturals

CONSTANTS Readers, Room

VARIABLES
  written,       \* how many events the log has
  attached,      \* readers that get the next event
  read,          \* per reader: the last event it has seen
  end,           \* per reader: the last event that is meant for it
  leaving        \* readers that want to be detached

logVars == <<written, attached, read, end, leaving>>

Init ==
  /\ written = 0
  /\ attached = {}
  /\ read = [r \in Readers |-> 0]
  /\ end = [r \in Readers |-> 0]
  /\ leaving = {}

Write ==
  /\ written' = written + 1
  /\ attached' = {r \in attached : end[r] - read[r] < Room}
  /\ end' = [r \in Readers |-> IF r \in attached' THEN written + 1 ELSE end[r]]
  /\ UNCHANGED <<read, leaving>>

Attach(r) ==
  /\ r \notin attached
  /\ attached' = attached \cup {r}
  /\ read' = [read EXCEPT ![r] = written]
  /\ end' = [end EXCEPT ![r] = written]
  /\ UNCHANGED <<written, leaving>>

Read(r) ==
  /\ read[r] < end[r]
  /\ read' = [read EXCEPT ![r] = @ + 1]
  /\ UNCHANGED <<written, attached, end, leaving>>

Leave(r) ==
  /\ leaving' = leaving \cup {r}
  /\ UNCHANGED <<written, attached, read, end>>

Detach(r) ==
  /\ r \in leaving
  /\ leaving' = leaving \ {r}
  /\ attached' = attached \ {r}
  /\ UNCHANGED <<written, read, end>>

Next == Write \/ \E r \in Readers : Attach(r) \/ Read(r) \/ Leave(r) \/ Detach(r)

Spec == Init /\ [][Next]_logVars
=============================================================================
