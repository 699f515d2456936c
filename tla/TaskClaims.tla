----------------------------- MODULE TaskClaims -----------------------------
(***************************************************************************)
(* The task authority: task.md documents under .agent/tasks/NNN-slug/, the *)
(* per-session navigation cache current_state, and the pb-tasks commands   *)
(* that relate them (work, work done, freehand, new), with the native      *)
(* edits the provider hooks admit.  A document is rewritten under a lock   *)
(* on its folder, a cache under a lock on its session; a command takes     *)
(* several of these in turn, other processes may run in between, and a     *)
(* process may be killed at any point.                                     *)
(***************************************************************************)
EXTENDS Naturals, Sequences, FiniteSets

CONSTANTS
  Session,     \* provider:native-id keys
  Task,        \* task folders that may exist
  Proc,        \* pb-tasks and hook processes that may run at once
  Nobody,      \* no session
  NoTask,      \* no folder
  Founding,    \* the task folders there at first, numbered by this function
  Stubs,       \* those of them whose task.md is still a stub
  Forces,      \* the values of --force in use
  Transfers,   \* TRUE when --handoff-from and --recover-from are in use
  OneAtATime,  \* TRUE when a session runs one command at a time
  Commands,    \* the commands in use
  TemplateGates, \* open gates of an expanded template
  MaxOpen,     \* bound: open gates of a task that edits may reach
  MaxClaims,   \* bound: ownership changes of one task
  MaxCrashes   \* bound: processes killed

ASSUME ConstantsAssumption ==
  /\ Nobody \notin Session
  /\ NoTask \notin Task
  /\ Proc # {}
  /\ \A t \in DOMAIN Founding : t \in Task /\ Founding[t] \in Nat \ {0}
  /\ Forces \subseteq BOOLEAN
  /\ {Transfers, OneAtATime} \subseteq BOOLEAN
  /\ {TemplateGates, MaxOpen, MaxClaims, MaxCrashes} \subseteq Nat

VARIABLES
  doc,      \* doc[t]: the managed content of t's task.md
  folder,   \* folder[t]: the number and kind of its name; number 0: no folder
  cache,    \* cache[s]: the task number in current_state, 0 without the file
  proc,     \* proc[p]: where a process is and what it holds
  crashes   \* processes killed so far

vars == <<doc, folder, cache, proc, crashes>>

-----------------------------------------------------------------------------
(* Documents.                                                              *)

\* status and sessions are the authority fields; open counts the unchecked
\* gates; a stub has no gates yet.
Doc == [status : {"pending", "in_progress", "done"}, sessions : Seq(Session),
        open : Nat, stub : BOOLEAN]

NewDoc(stub) ==
  [status |-> "pending", sessions |-> <<>>,
   open |-> IF stub THEN 0 ELSE TemplateGates, stub |-> stub]

NewestOf(d) == d.sessions[Len(d.sessions)]

LiveOwner(d) == IF d.status = "in_progress" THEN NewestOf(d) ELSE Nobody

ClosedBy(d, s) == d.status = "done" /\ d.sessions # <<>> /\ NewestOf(d) = s

\* Fault: a transfer that names any owner is granted.
AnyOwnerNamed(d, s, from) ==
  LiveOwner(d) \in {s, Nobody} \/ from # Nobody

\* Fault: the owner's own repeated claim is a conflict.
NoRepeat(d, s, from) == LiveOwner(d) = from

\* Fault: a repeated transfer is a mismatch, for the owner has changed.
NoReplay(d, s, from) ==
  IF LiveOwner(d) = s THEN from \in {Nobody, s} ELSE LiveOwner(d) = from

\* claim_task_document: an owner may repeat its claim (naming the owner it
\* took the task from, if it names one); anyone else must name the present
\* owner, or nobody when there is none.
MayClaim(d, s, from) ==
  IF LiveOwner(d) = s
  THEN \/ from \in {Nobody, s}
       \/ Len(d.sessions) > 1 /\ d.sessions[Len(d.sessions) - 1] = from
  ELSE LiveOwner(d) = from

\* Fault: the status is set and the session is not recorded.
ClaimWithoutSession(d, s) == [d EXCEPT !.status = "in_progress"]

Claimed(d, s) ==
  IF LiveOwner(d) = s THEN d
  ELSE [d EXCEPT !.status = "in_progress",
                 !.sessions = IF d.sessions # <<>> /\ NewestOf(d) = s THEN @
                              ELSE Append(@, s)]

\* complete_task_document: by the owner, or again by who completed it.
MayComplete(d, s) == ClosedBy(d, s) \/ LiveOwner(d) = s

Completed(d) == [d EXCEPT !.status = "done"]

\* Fault: an expansion does not compare the text with what was read.
ExpandsStale(d, old) == LiveOwner(d) = Nobody

\* replace_unclaimed_task_text: the text is still the one that was read, and
\* nobody's; the new text, a fresh template, must keep status and sessions.
MayExpand(d, old) ==
  /\ d = old
  /\ LiveOwner(d) = Nobody
  /\ d.status = "pending" /\ d.sessions = <<>>

Folders(n) == {t \in Task : folder[t].number = n}

\* resolve_task_document: exactly one folder has the number.
Resolves(n, t) == n > 0 /\ Folders(n) = {t}

\* _next_task_number: one above the largest there is.
NextNumbers ==
  {n \in {1} \cup {folder[t].number + 1 : t \in Task} :
     \A t \in Task : folder[t].number < n}

-----------------------------------------------------------------------------
(* Processes.                                                              *)

Idle == [pc |-> "idle", who |-> Nobody, number |-> 0, task |-> NoTask,
         from |-> Nobody, prev |-> NoTask, force |-> FALSE,
         seen |-> NewDoc(TRUE)]

Asking   == {"leave", "autoclose", "stub", "expand", "reread", "fill", "claim"}
Claiming == {"cache", "release"}
Closing  == {"validate", "gates", "complete", "clear"}
Other    == {"mkdir", "splice", "edit", "write"}

\* A process p may start a command of s.
Free(p, s) ==
  /\ proc[p].pc = "idle"
  /\ OneAtATime => \A q \in Proc : proc[q].who # s

\* A command starts, as this record.
Start(p, r) == proc' = [proc EXCEPT ![p] = r]

GoTo(p, pc) == proc' = [proc EXCEPT ![p].pc = pc]

\* The command ends, whether it is done or refused.
End(p) == proc' = [proc EXCEPT ![p] = Idle]

Init ==
  /\ doc = [t \in Task |-> NewDoc(t \in Stubs)]
  /\ folder = [t \in Task |-> [number |-> IF t \in DOMAIN Founding THEN Founding[t] ELSE 0,
                               freehand |-> FALSE]]
  /\ cache = [s \in Session |-> 0]
  /\ proc = [p \in Proc |-> Idle]
  /\ crashes = 0

-----------------------------------------------------------------------------
(* pb-tasks work N [--handoff-from S | --recover-from S] [--force].        *)

\* Resolve and parse the candidate: done (to reopen), a stub, or with an
\* open gate.  A task with no open gate is refused, without effect.
Work(p, s, n, from) ==
  /\ "work" \in Commands
  /\ Free(p, s)
  /\ \E t \in Task, force \in Forces :
       /\ Resolves(n, t)
       /\ doc[t].status = "done" \/ doc[t].stub \/ doc[t].open > 0
       /\ Len(doc[t].sessions) >= MaxClaims =>
            NewestOf(doc[t]) = s /\ \A q \in Proc : proc[q].task # t
       /\ Start(p, [Idle EXCEPT !.pc = "leave", !.who = s, !.number = n, !.task = t,
                    !.from = from, !.force = force])
  /\ UNCHANGED <<doc, folder, cache, crashes>>

\* Fault: a task with open gates is left without --force.
LeaveOpen(d, force) ==
  IF d.open = 0 /\ d.status # "done" THEN "autoclose" ELSE "stub"

\* How a task is left: closed when its gates are all checked; as it is when
\* done, or by --force; and else not at all.
LeaveBy(d, force) ==
  IF d.open = 0 /\ d.status # "done" THEN "autoclose"
  ELSE IF d.status = "done" \/ force THEN "stub" ELSE "idle"

\* The session's cached task is found by number alone: the first folder that
\* matches, if one does.
Leave(p) ==
  /\ proc[p].pc = "leave"
  /\ LET n == cache[proc[p].who] IN
       \/ /\ n \in {0, proc[p].number} \/ Folders(n) = {}
          /\ GoTo(p, "stub")
       \/ /\ n \notin {0, proc[p].number}
          /\ \E t \in Folders(n) : LET step == LeaveBy(doc[t], proc[p].force) IN
               IF step = "idle" THEN End(p)
               ELSE proc' = [proc EXCEPT ![p].pc = step,
                                         ![p].prev = IF step = "autoclose" THEN t ELSE @]
  /\ UNCHANGED <<doc, folder, cache, crashes>>

AutoClose(p) ==
  /\ proc[p].pc = "autoclose"
  /\ LET t == proc[p].prev IN
       IF MayComplete(doc[t], proc[p].who)
       THEN /\ doc' = [doc EXCEPT ![t] = Completed(@)]
            /\ proc' = [proc EXCEPT ![p].pc = "stub", ![p].prev = NoTask]
       ELSE End(p) /\ UNCHANGED doc
  /\ UNCHANGED <<folder, cache, crashes>>

ReadStub(p) ==
  /\ proc[p].pc = "stub"
  /\ LET d == doc[proc[p].task] IN
       proc' = [proc EXCEPT ![p].pc = IF d.stub THEN "expand" ELSE "claim",
                            ![p].seen = IF d.stub THEN d ELSE @]
  /\ UNCHANGED <<doc, folder, cache, crashes>>

\* Replace the stub that was read by its full template.
Expand(p) ==
  /\ proc[p].pc = "expand"
  /\ LET t == proc[p].task IN
       IF MayExpand(doc[t], proc[p].seen)
       THEN /\ doc' = [doc EXCEPT ![t] = NewDoc(FALSE)]
            /\ proc' = [proc EXCEPT ![p].pc = "claim", ![p].seen = Idle.seen]
       ELSE End(p) /\ UNCHANGED doc
  /\ UNCHANGED <<folder, cache, crashes>>

\* Fault: a refused claim is cached all the same.
ClaimCachesAnyway(p) ==
  /\ proc[p].pc = "claim"
  /\ LET t == proc[p].task
         s == proc[p].who
     IN IF MayClaim(doc[t], s, proc[p].from)
        THEN doc' = [doc EXCEPT ![t] = Claimed(@, s)]
        ELSE UNCHANGED doc
  /\ GoTo(p, "cache")
  /\ UNCHANGED <<folder, cache, crashes>>

Claim(p) ==
  /\ proc[p].pc = "claim"
  /\ LET t == proc[p].task
         s == proc[p].who
     IN IF MayClaim(doc[t], s, proc[p].from)
        THEN /\ doc' = [doc EXCEPT ![t] = Claimed(@, s)]
             /\ GoTo(p, "cache")
        ELSE End(p) /\ UNCHANGED doc
  /\ UNCHANGED <<folder, cache, crashes>>

\* write_navigation_cache for the claimant.
CacheTask(p) ==
  /\ proc[p].pc = "cache"
  /\ cache' = [cache EXCEPT ![proc[p].who] = proc[p].number]
  /\ IF proc[p].from \in {Nobody, proc[p].who} THEN End(p) ELSE GoTo(p, "release")
  /\ UNCHANGED <<doc, folder, crashes>>

\* clear_navigation_cache: only while it names the expected task.
Cleared(s, n) == [cache EXCEPT ![s] = IF @ = n THEN 0 ELSE @]

\* The old owner's cache, after a transfer.
ReleaseOld(p) ==
  /\ proc[p].pc = "release"
  /\ cache' = Cleared(proc[p].from, proc[p].number)
  /\ End(p)
  /\ UNCHANGED <<doc, folder, crashes>>

-----------------------------------------------------------------------------
(* pb-tasks work done [--force].                                           *)

WorkDone(p, s) ==
  /\ "done" \in Commands
  /\ Free(p, s)
  /\ cache[s] # 0
  /\ \E force \in Forces :
       Start(p, [Idle EXCEPT !.pc = "validate", !.who = s, !.number = cache[s], !.force = force])
  /\ UNCHANGED <<doc, folder, cache, crashes>>

\* validate_task_claim: the cache's task is this session's.
Confirms(n, s, t) == Resolves(n, t) /\ LiveOwner(doc[t]) = s

Validate(p) ==
  /\ proc[p].pc = "validate"
  /\ LET n == proc[p].number
         s == proc[p].who
     IN IF \E t \in Task : Confirms(n, s, t)
        THEN \E t \in Task :
               /\ Confirms(n, s, t)
               /\ proc' = [proc EXCEPT ![p].pc = IF proc[p].force THEN "complete" ELSE "gates",
                                       ![p].task = t]
        ELSE End(p)
  /\ UNCHANGED <<doc, folder, cache, crashes>>

\* _gate_bounce.
CheckGates(p) ==
  /\ proc[p].pc = "gates"
  /\ IF doc[proc[p].task].open = 0 THEN GoTo(p, "complete") ELSE End(p)
  /\ UNCHANGED <<doc, folder, cache, crashes>>

Complete(p) ==
  /\ proc[p].pc = "complete"
  /\ LET t == proc[p].task IN
       IF MayComplete(doc[t], proc[p].who)
       THEN /\ doc' = [doc EXCEPT ![t] = Completed(@)]
            /\ GoTo(p, "clear")
       ELSE End(p) /\ UNCHANGED doc
  /\ UNCHANGED <<folder, cache, crashes>>

ClearOwn(p) ==
  /\ proc[p].pc = "clear"
  /\ cache' = Cleared(proc[p].who, proc[p].number)
  /\ End(p)
  /\ UNCHANGED <<doc, folder, crashes>>

-----------------------------------------------------------------------------
(* pb-tasks new and pb-tasks freehand.                                     *)

\* A folder is left for one more creation (the bound on folders).
Room ==
  Cardinality({q \in Proc : proc[q].pc = "mkdir"}) < Cardinality(Folders(0))

\* create_task: the number is picked from a listing ...
NewTask(p) ==
  /\ "new" \in Commands
  /\ Room
  /\ proc[p].pc = "idle"
  /\ \E n \in NextNumbers, stub \in BOOLEAN :
       Start(p, [Idle EXCEPT !.pc = "mkdir", !.number = n, !.seen = NewDoc(stub)])
  /\ UNCHANGED <<doc, folder, cache, crashes>>

FreehandTask(p, s) ==
  /\ "freehand" \in Commands
  /\ Free(p, s) /\ Room
  /\ cache[s] = 0
  /\ \E n \in NextNumbers :
       Start(p, [Idle EXCEPT !.pc = "mkdir", !.who = s, !.number = n])
  /\ UNCHANGED <<doc, folder, cache, crashes>>

\* ... and the folder is made and filled later; only a folder of the same
\* number and slug stops it.  A freehand task goes on to be claimed.
MakeFolder(p) ==
  /\ proc[p].pc = "mkdir"
  /\ LET freehand == proc[p].who # Nobody
         name == [number |-> proc[p].number, freehand |-> freehand]
     IN IF freehand /\ \E t \in Task : folder[t] = name
        THEN End(p) /\ UNCHANGED <<doc, folder>>
        ELSE \E t \in Folders(0) :
               /\ folder' = [folder EXCEPT ![t] = name]
               /\ doc' = [doc EXCEPT ![t] = proc[p].seen]
               /\ IF freehand
                  THEN proc' = [proc EXCEPT ![p].pc = "reread", ![p].task = t]
                  ELSE End(p)
  /\ UNCHANGED <<cache, crashes>>

\* The stub just written is read back ...
ReadFreehand(p) ==
  /\ proc[p].pc = "reread"
  /\ proc' = [proc EXCEPT ![p].pc = "fill", ![p].seen = doc[proc[p].task]]
  /\ UNCHANGED <<doc, folder, cache, crashes>>

\* ... and replaced by the freehand text if it is still as it was read.
FillFreehand(p) ==
  /\ proc[p].pc = "fill"
  /\ LET t == proc[p].task IN
       IF MayExpand(doc[t], proc[p].seen)
       THEN /\ doc' = [doc EXCEPT ![t] = NewDoc(FALSE)]
            /\ proc' = [proc EXCEPT ![p].pc = "claim", ![p].seen = Idle.seen]
       ELSE End(p) /\ UNCHANGED doc
  /\ UNCHANGED <<folder, cache, crashes>>

\* With a task, freehand reads its text to put a block of gates into it ...
FreehandBlock(p, s) ==
  /\ "freehand" \in Commands
  /\ Free(p, s)
  /\ \E t \in Task :
       /\ Confirms(cache[s], s, t)
       /\ doc[t].open < MaxOpen
       /\ Start(p, [Idle EXCEPT !.pc = "splice", !.who = s, !.task = t, !.seen = doc[t]])
  /\ UNCHANGED <<doc, folder, cache, crashes>>

\* ... and replace_claimed_task_text commits if the text is as it was read.
SpliceBlock(p) ==
  /\ proc[p].pc = "splice"
  /\ LET t == proc[p].task IN
       IF LiveOwner(doc[t]) = proc[p].who /\ doc[t] = proc[p].seen
       THEN doc' = [doc EXCEPT ![t].open = @ + 1]
       ELSE UNCHANGED doc
  /\ End(p)
  /\ UNCHANGED <<folder, cache, crashes>>

-----------------------------------------------------------------------------
(* An agent's own file edits of its task.md.                               *)

\* The hook admits an Edit for the task the cache names and the document
\* confirms ...
AdmitEdit(p, s) ==
  /\ "edit" \in Commands
  /\ Free(p, s)
  /\ \E t \in Task :
       /\ Confirms(cache[s], s, t)
       /\ Start(p, [Idle EXCEPT !.pc = "edit", !.who = s, !.task = t])
  /\ UNCHANGED <<doc, folder, cache, crashes>>

\* ... and the provider applies it later, without the lock, to the text as
\* it then is: it checks a gate, or adds one.
ApplyEdit(p) ==
  /\ proc[p].pc = "edit"
  /\ LET t == proc[p].task IN
       \/ /\ doc[t].open > 0
          /\ doc' = [doc EXCEPT ![t].open = @ - 1]
       \/ /\ doc[t].open < MaxOpen
          /\ doc' = [doc EXCEPT ![t].open = @ + 1]
       \/ UNCHANGED doc
  /\ End(p)
  /\ UNCHANGED <<folder, cache, crashes>>

\* A Write is the whole document.  The hook admits one with the status and
\* the sessions the document has, and with a gate more or less ...
AdmitWrite(p, s) ==
  /\ "write" \in Commands
  /\ Free(p, s)
  /\ \E t \in Task, open \in 0..MaxOpen :
       /\ Confirms(cache[s], s, t)
       /\ open <= doc[t].open + 1 /\ doc[t].open <= open + 1
       /\ Start(p, [Idle EXCEPT !.pc = "write", !.who = s, !.task = t,
                    !.seen = [doc[t] EXCEPT !.open = open]])
  /\ UNCHANGED <<doc, folder, cache, crashes>>

\* ... and the provider writes it later, over whatever is there by then.
ApplyWrite(p) ==
  /\ proc[p].pc = "write"
  /\ doc' = [doc EXCEPT ![proc[p].task] = proc[p].seen]
  /\ End(p)
  /\ UNCHANGED <<folder, cache, crashes>>

\* A process is killed.
Crash(p) ==
  /\ proc[p].pc # "idle"
  /\ crashes < MaxCrashes
  /\ crashes' = crashes + 1
  /\ End(p)
  /\ UNCHANGED <<doc, folder, cache>>

-----------------------------------------------------------------------------
\* The next step of a command that is under way.
Continue(p) ==
  \/ Leave(p) \/ AutoClose(p) \/ ReadStub(p) \/ Expand(p) \/ Claim(p)
  \/ CacheTask(p) \/ ReleaseOld(p)
  \/ Validate(p) \/ CheckGates(p) \/ Complete(p) \/ ClearOwn(p)
  \/ MakeFolder(p) \/ ReadFreehand(p) \/ FillFreehand(p) \/ SpliceBlock(p)
  \/ ApplyEdit(p) \/ ApplyWrite(p)

Numbers == {folder[t].number : t \in Task} \ {0}

\* The sessions --handoff-from and --recover-from may name.
Named == {Nobody} \cup IF Transfers THEN Session ELSE {}

Command(p, s) ==
  \/ \E n \in Numbers, from \in Named : Work(p, s, n, from)
  \/ WorkDone(p, s)
  \/ FreehandTask(p, s)
  \/ FreehandBlock(p, s)
  \/ AdmitEdit(p, s)
  \/ AdmitWrite(p, s)

Next ==
  \E p \in Proc :
    \/ Continue(p)
    \/ Crash(p)
    \/ NewTask(p)
    \/ \E s \in Session : Command(p, s)

Spec == Init /\ [][Next]_vars

\* A command under way runs on, and a work command that keeps being possible
\* is run: an interrupted one is rerun, as its message tells the agent to.
Reruns ==
  /\ \A p \in Proc : WF_vars(Continue(p))
  /\ \A s \in Session, n \in 1..Cardinality(Task) : \A from \in Named \ {s} :
       SF_vars(\E p \in Proc : Work(p, s, n, from))

-----------------------------------------------------------------------------
(* Correctness.                                                            *)

\* Documents are well formed, an in_progress one has an owner, and every
\* process is at a known step of a command and holds what that step needs.
DocsOK ==
  /\ doc \in [Task -> Doc]
  /\ \A t \in Task : doc[t].status = "in_progress" => doc[t].sessions # <<>>

Process == [pc : {"idle"} \cup Asking \cup Claiming \cup Closing \cup Other,
            who : Session \cup {Nobody}, number : Nat,
            task : Task \cup {NoTask}, from : Session \cup {Nobody},
            prev : Task \cup {NoTask}, force : BOOLEAN, seen : Doc]

Equipped(r) ==
  /\ r.pc \notin {"idle", "mkdir"} => r.who \in Session
  /\ r.pc \notin {"idle", "mkdir", "validate"} => r.task \in Task
  /\ r.pc = "autoclose" => r.prev \in Task
  /\ r.pc = "release" => r.from \in Session

TypeOK ==
  /\ DocsOK
  /\ folder \in [Task -> [number : Nat, freehand : BOOLEAN]]
  /\ cache \in [Session -> Nat]
  /\ proc \in [Proc -> Process]
  /\ \A p \in Proc : Equipped(proc[p])
  /\ crashes \in 0..MaxCrashes

\* A document is as far as another one or further.
Grows(d, e) ==
  /\ Len(d.sessions) <= Len(e.sessions)
  /\ \A i \in 1..Len(d.sessions) : e.sessions[i] = d.sessions[i]
  /\ ~d.stub => ~e.stub

\* A Write puts back what its session, as the live owner, had been shown.
PutBack(p, t) ==
  /\ proc[p].pc = "write" /\ proc[p].task = t /\ proc'[p].pc = "idle"
  /\ doc'[t] = proc[p].seen /\ LiveOwner(doc'[t]) = proc[p].who

\* A task's provenance is lost to no command, crash, race or transfer: its
\* session history only grows, and once expanded it is no stub again.  The
\* one exception is a Write applied late, which puts back the text as its
\* writer owned it.
ProvenanceKept ==
  [][\A t \in Task : \/ folder[t].number = 0
                     \/ Grows(doc[t], doc'[t])
                     \/ \E p \in Proc : PutBack(p, t)]_vars

\* work without --force keeps a session on one task: it never owns two that
\* are in progress.
FocusedSession ==
  \A t, u \in Task : LiveOwner(doc[t]) # Nobody /\ LiveOwner(doc[t]) = LiveOwner(doc[u])
                     => t = u

Busy(s) == \E p \in Proc : proc[p].who = s

\* An owned task can always be finished: when its owner runs no command, its
\* cache leads to the task or `work N` would still accept it.  Otherwise
\* `work done` knows no task and `work N` finds no open gate.
NeverStranded ==
  \A t \in Task : LET s == LiveOwner(doc[t]) IN
    s # Nobody /\ ~Busy(s) =>
      cache[s] = folder[t].number \/ doc[t].open > 0 \/ doc[t].stub

\* The cache of s names a task with no open gate that is another session's by
\* now: work tries to close that one first, and may not.
HeldBack(s) ==
  \E u \in Folders(cache[s]) : doc[u].open = 0 /\ LiveOwner(doc[u]) \notin {s, Nobody}

\* A claim whose cache was not written is published by a rerun, whatever task
\* the cache still names, unless that one holds work back.
ClaimPublished ==
  \A s \in Session, t \in Task :
    LiveOwner(doc[t]) = s /\ doc[t].open > 0
      ~> \/ cache[s] = folder[t].number
         \/ LiveOwner(doc[t]) # s \/ doc[t].open = 0
         \/ HeldBack(s)

\* A transfer whose cleanup was interrupted is finished by a rerun: the old
\* owner's cache does not keep naming the task, unless the new owner is held
\* back.
TransferFinished ==
  \A s \in Session, t \in Task :
    LiveOwner(doc[t]) \notin {s, Nobody} /\ doc[t].open > 0 /\ cache[s] = folder[t].number
      ~> \/ cache[s] # folder[t].number
         \/ LiveOwner(doc[t]) \in {s, Nobody} \/ doc[t].open = 0
         \/ HeldBack(LiveOwner(doc[t]))

-----------------------------------------------------------------------------
(* Refinement of TaskOwnership.                                            *)

\* What a process still asks for: a claim, the close of a task it owns, or
\* the rewriting of one.
RequestOf(r) ==
  CASE r.pc \in Asking ->
         [kind |-> "claim", who |-> r.who, task |-> r.task, from |-> r.from]
    [] r.pc \in {"gates", "complete"} ->
         [kind |-> "claim", who |-> r.who, task |-> r.task, from |-> r.who]
    [] r.pc = "write" ->
         [kind |-> "write", who |-> r.who, task |-> r.task, from |-> r.who]
    [] OTHER ->
         [kind |-> "none", who |-> Nobody, task |-> Nobody, from |-> Nobody]

Ownership == INSTANCE TaskOwnership WITH
  owner <- [t \in Task |-> LiveOwner(doc[t])],
  request <- [p \in Proc |-> RequestOf(proc[p])]

\* The commands keep the promises of TaskOwnership.
OwnershipKept == Ownership!Spec
=============================================================================
