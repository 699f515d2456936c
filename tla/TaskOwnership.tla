--------------------------- MODULE TaskOwnership ---------------------------
(***************************************************************************)
(* What the task authority promises, whatever the interleaving: a task has *)
(* at most one live owner; it gets an owner only from a request of that    *)
(* session, and only while the owner the request names (Nobody for a plain *)
(* claim) is the one the task still has; it loses its owner only by a      *)
(* request of that owner.  One thing breaks this rule, and only one: who   *)
(* asked to rewrite a task it owned may be put back as its owner, however  *)
(* late the rewriting comes.  TaskClaims is shown to implement it.         *)
(***************************************************************************)
CONSTANTS
  Session,   \* provider:native-id keys
  Task,      \* task folders
  Proc,      \* pb-tasks processes
  Nobody     \* the owner of an unclaimed task

VARIABLES
  owner,     \* owner[t]: the live owner of task t, or Nobody
  request    \* request[p]: what process p still asks for

vars == <<owner, request>>

Request ==
  [kind : {"claim", "write"}, who : Session, task : Task, from : Session \cup {Nobody}]

NoRequest == [kind |-> "none", who |-> Nobody, task |-> Nobody, from |-> Nobody]

Init ==
  /\ owner \in [Task -> Session \cup {Nobody}]
  /\ request = [p \in Proc |-> NoRequest]

\* A process starts to ask for a task, or its owner to rewrite it.
Ask(p) ==
  /\ request[p] = NoRequest
  /\ request'[p] \in Request
  /\ LET r == request'[p] IN
       /\ r.kind = "write" => owner[r.task] = r.who
       /\ request' = [request EXCEPT ![p] = r]
  /\ UNCHANGED owner

\* The task still has the owner the request names: it moves to the asker.
Grant(p) ==
  /\ request[p].kind = "claim"
  /\ owner[request[p].task] = request[p].from
  /\ owner' = [owner EXCEPT ![request[p].task] = request[p].who]
  /\ request' = [request EXCEPT ![p] = NoRequest]

\* Refused, already granted, or killed.
Drop(p) ==
  /\ request' = [request EXCEPT ![p] = NoRequest]
  /\ UNCHANGED owner

\* The asking session gives up a task it owns, and may ask on.
Release(p, t) ==
  /\ request[p].kind = "claim"
  /\ owner[t] = request[p].who
  /\ owner' = [owner EXCEPT ![t] = Nobody]
  /\ request' \in {request, [request EXCEPT ![p] = NoRequest]}

\* The text a session wrote while it owned the task is put in place.
Restore(p) ==
  /\ request[p].kind = "write"
  /\ owner' = [owner EXCEPT ![request[p].task] = request[p].who]
  /\ request' = [request EXCEPT ![p] = NoRequest]

Next ==
  \E p \in Proc :
    \/ Ask(p)
    \/ Grant(p)
    \/ Restore(p)
    \/ Drop(p)
    \/ \E t \in Task : Release(p, t)

Spec == Init /\ [][Next]_vars
=============================================================================
