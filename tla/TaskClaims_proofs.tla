-------------------------- MODULE TaskClaims_proofs --------------------------
(***************************************************************************)
(* Proofs about TaskClaims, for every set of sessions, tasks, processes    *)
(* and commands: type correctness, that a navigation cache names only a    *)
(* task number its session claimed, that a task keeps its provenance, and  *)
(* that the commands implement TaskOwnership.  Last, for as   *)
(* long as commands come in turn, none killed or forced: a session has one *)
(* task in progress, and can reach it.                                     *)
(***************************************************************************)
EXTENDS TaskHistory, TLAPS

\* A process that asks for a task, or publishes its claim, has the number of
\* the task's folder; a creator writes a task that nobody has claimed; a
\* Write holds the text of an existing task as its session owned it.
Placed(r, f) ==
  /\ r.pc \in Asking \cup Claiming => r.number > 0 /\ f[r.task].number = r.number
  /\ r.pc = "mkdir" => r.number > 0 /\ r.seen.status = "pending" /\ r.seen.sessions = <<>>
  /\ r.pc = "write" => /\ f[r.task].number # 0
                       /\ r.seen.status = "in_progress" /\ r.seen.sessions # <<>>
                       /\ NewestOf(r.seen) = r.who

\* What is no folder yet is nobody's.
Unmade(f, d) ==
  \A t \in Task : f[t].number = 0 => d[t].status = "pending" /\ d[t].sessions = <<>>

\* The inductive invariant.
IInv ==
  /\ TypeOK
  /\ Unmade(folder, doc)
  /\ \A p \in Proc : Placed(proc[p], folder)

FolderType == [Task -> [number : Nat, freehand : BOOLEAN]]

\* Folders keep their names.
FoldersKept == \A t \in Task : folder[t].number # 0 => folder'[t] = folder[t]

-----------------------------------------------------------------------------
(* Values.                                                                 *)

LEMMA NewDocType == ASSUME NEW b \in BOOLEAN
                    PROVE  /\ NewDoc(b) \in Doc
                           /\ NewDoc(b).status = "pending" /\ NewDoc(b).sessions = <<>>
BY ConstantsAssumption DEF NewDoc, Doc

LEMMA IdleType == Idle \in Process /\ Equipped(Idle) /\ Idle.pc = "idle"
BY NewDocType DEF Idle, Process, Equipped

LEMMA IdlePlaced == ASSUME NEW f PROVE Placed(Idle, f)
BY IdleType DEF Placed, Asking, Claiming

\* Claiming a document makes the claimant its live owner and only adds to its
\* sessions.
LEMMA ClaimedType ==
  ASSUME NEW d \in Doc, d.status = "in_progress" => d.sessions # <<>>, NEW s \in Session
  PROVE  /\ Claimed(d, s) \in Doc
         /\ Claimed(d, s).status = "in_progress"
         /\ Claimed(d, s).sessions # <<>>
         /\ NewestOf(Claimed(d, s)) = s
         /\ Len(d.sessions) <= Len(Claimed(d, s).sessions)
         /\ \A i \in 1..Len(d.sessions) : Claimed(d, s).sessions[i] = d.sessions[i]
<1>1. CASE LiveOwner(d) = s
  <2>1. d.status = "in_progress"
    BY <1>1, ConstantsAssumption DEF LiveOwner
  <2>2. Claimed(d, s) = d
    BY <1>1 DEF Claimed
  <2>3. NewestOf(d) = s
    BY <1>1, <2>1 DEF LiveOwner
  <2>. QED BY <2>1, <2>2, <2>3 DEF Doc
<1>2. CASE LiveOwner(d) # s
  <2>. DEFINE q == IF d.sessions # <<>> /\ NewestOf(d) = s THEN d.sessions
                   ELSE Append(d.sessions, s)
              e == [status |-> "in_progress", sessions |-> q, open |-> d.open, stub |-> d.stub]
  <2>1. d.sessions \in Seq(Session)
    BY DEF Doc
  <2>2. /\ q \in Seq(Session) /\ Len(q) > 0
        /\ q[Len(q)] = s
        /\ Len(d.sessions) <= Len(q)
        /\ \A i \in 1..Len(d.sessions) : q[i] = d.sessions[i]
    <3>1. CASE d.sessions # <<>> /\ NewestOf(d) = s
      BY <2>1, <3>1 DEF NewestOf
    <3>2. CASE ~(d.sessions # <<>> /\ NewestOf(d) = s)
      <4>1. q = Append(d.sessions, s)
        BY <3>2
      <4>. QED BY <2>1, <4>1
    <3>. QED BY <3>1, <3>2
  <2>3. q # <<>>
    BY <2>2
  <2>4. Claimed(d, s) = e
    <3>1. Claimed(d, s) = [d EXCEPT !.status = "in_progress", !.sessions = q]
      BY <1>2 DEF Claimed, Doc
    <3>. HIDE DEF q
    <3>. QED BY <3>1 DEF Doc
  <2>. HIDE DEF q
  <2>5. e \in Doc
    BY <2>2 DEF Doc
  <2>. QED BY <2>2, <2>3, <2>4, <2>5 DEF NewestOf
<1>. QED BY <1>1, <1>2

LEMMA CompletedType ==
  ASSUME NEW d \in Doc
  PROVE  /\ Completed(d) \in Doc
         /\ Completed(d).status = "done"
         /\ Completed(d).sessions = d.sessions
BY DEF Completed, Doc

-----------------------------------------------------------------------------
(* Steps.                                                                  *)

\* A step of one process that keeps the folders keeps the invariant when what
\* that process becomes and the documents are well formed.
LEMMA GoodStep ==
  ASSUME IInv, NEW p \in Proc, NEW r, r \in Process, Equipped(r),
         Placed(r, folder'), proc' = [proc EXCEPT ![p] = r],
         DocsOK', folder' \in FolderType, FoldersKept,
         Unmade(folder', doc'), cache' \in [Session -> Nat],
         crashes' \in 0..MaxCrashes
  PROVE  IInv'
<1>1. proc' \in [Proc -> Process] /\ \A q \in Proc : Equipped(proc'[q])
  BY DEF IInv, TypeOK
<1>2. ASSUME NEW q \in Proc PROVE Placed(proc'[q], folder')
  <2>1. CASE q = p
    BY <2>1 DEF IInv, TypeOK
  <2>2. CASE q # p
    <3>. DEFINE u == proc[q]
    <3>1. proc'[q] = u /\ Placed(u, folder) /\ Equipped(u) /\ u.number \in Nat
      BY <2>2 DEF IInv, TypeOK, Process
    <3>. HIDE DEF u
    <3>2. ASSUME u.pc \in Asking \cup Claiming \cup {"write"}
          PROVE  u.task \in Task /\ folder[u.task].number # 0
      BY <3>1, <3>2 DEF Placed, Equipped, Asking, Claiming
    <3>3. u.pc \in Asking \cup Claiming \cup {"write"} => folder'[u.task] = folder[u.task]
      BY <3>2 DEF FoldersKept
    <3>. QED BY <3>1, <3>3 DEF Placed
  <2>. QED BY <2>1, <2>2
<1>. QED BY <1>1, <1>2 DEF IInv, TypeOK, FolderType

\* A step that only moves a process.
LEMMA MoveStep ==
  ASSUME IInv, NEW p \in Proc, NEW r, r \in Process, Equipped(r),
         Placed(r, folder), proc' = [proc EXCEPT ![p] = r],
         UNCHANGED <<doc, folder, cache>>, crashes' \in 0..MaxCrashes
  PROVE  IInv'
<1>1. FoldersKept /\ DocsOK' /\ folder' \in FolderType
  BY DEF FoldersKept, IInv, TypeOK, DocsOK, FolderType
<1>2. Unmade(folder', doc') /\ cache' \in [Session -> Nat]
  BY DEF IInv, TypeOK, Unmade
<1>. QED BY <1>1, <1>2, GoodStep

\* A step that also rewrites one document.
LEMMA DocStep ==
  ASSUME IInv, NEW p \in Proc, NEW r, r \in Process, Equipped(r),
         Placed(r, folder), proc' = [proc EXCEPT ![p] = r],
         NEW t \in Task, NEW d \in Doc, d.status = "in_progress" => d.sessions # <<>>,
         folder[t].number = 0 => d.status = "pending" /\ d.sessions = <<>>,
         doc' = [doc EXCEPT ![t] = d],
         UNCHANGED <<folder, cache, crashes>>
  PROVE  IInv'
<1>1. DocsOK' /\ FoldersKept /\ folder' \in FolderType
  BY DEF FoldersKept, FolderType, IInv, TypeOK, DocsOK
<1>2. Unmade(folder', doc') /\ cache' \in [Session -> Nat] /\ crashes' \in 0..MaxCrashes
  BY DEF IInv, TypeOK, DocsOK, Unmade
<1>. QED BY <1>1, <1>2, GoodStep

-----------------------------------------------------------------------------
(* The actions.                                                            *)

\* What every lemma below knows of the process that moves.
LEMMA Known ==
  ASSUME IInv, NEW p \in Proc
  PROVE  /\ proc[p] \in Process /\ Equipped(proc[p]) /\ Placed(proc[p], folder)
         /\ crashes \in 0..MaxCrashes
         /\ doc \in [Task -> Doc] /\ cache \in [Session -> Nat]
         /\ \A t \in Task : doc[t].status = "in_progress" => doc[t].sessions # <<>>
         /\ \A t \in Task : folder[t].number \in Nat
BY DEF IInv, TypeOK, DocsOK

LEMMA EndGood ==
  ASSUME IInv, NEW p \in Proc, End(p), UNCHANGED <<doc, folder, cache>>,
         crashes' \in 0..MaxCrashes
  PROVE  IInv'
BY IdleType, IdlePlaced, MoveStep DEF End

\* A confirmed document, with whatever gates, has a folder and its owner.
LEMMA ConfirmedDoc ==
  ASSUME IInv, NEW s \in Session, NEW t \in Task, Confirms(cache[s], s, t), NEW n \in Nat
  PROVE  LET d == [doc[t] EXCEPT !.open = n] IN
           /\ d \in Doc /\ d.status = "in_progress" /\ d.sessions # <<>>
           /\ NewestOf(d) = s /\ LiveOwner(d) = s /\ folder[t].number # 0
<1>. DEFINE d == [doc[t] EXCEPT !.open = n]
<1>1. doc[t] \in Doc
  BY DEF IInv, TypeOK, DocsOK
<1>2. d = [status |-> doc[t].status, sessions |-> doc[t].sessions, open |-> n,
           stub |-> doc[t].stub]
  BY <1>1 DEF Doc
<1>. HIDE DEF d
<1>3. /\ d \in Doc /\ d.status = doc[t].status /\ d.sessions = doc[t].sessions
      /\ NewestOf(d) = NewestOf(doc[t])
  BY <1>1, <1>2 DEF Doc, NewestOf
<1>4. LiveOwner(doc[t]) = s /\ s # Nobody
  BY ConstantsAssumption DEF Confirms
<1>5. doc[t].status = "in_progress" /\ NewestOf(doc[t]) = s /\ doc[t].sessions # <<>>
  BY <1>4 DEF LiveOwner, IInv, TypeOK, DocsOK
<1>6. folder[t].number # 0
  BY <1>5 DEF IInv, Unmade
<1>7. LiveOwner(d) = s
  BY <1>5, <1>3 DEF LiveOwner
<1>. QED BY <1>3, <1>5, <1>6, <1>7 DEF d

LEMMA StartGood ==
  ASSUME IInv, NEW p \in Proc, NEW s \in Session,
         \/ \E n \in Nat : \E from \in Named : Work(p, s, n, from)
         \/ WorkDone(p, s) \/ FreehandTask(p, s)
         \/ FreehandBlock(p, s) \/ AdmitEdit(p, s) \/ AdmitWrite(p, s)
  PROVE  IInv'
<1>0. crashes \in 0..MaxCrashes /\ \A n \in NextNumbers : n \in Nat /\ n > 0
  BY Known DEF NextNumbers
<1>1. ASSUME NEW n \in Nat, NEW from \in Named, Work(p, s, n, from) PROVE IInv'
  <2>1. PICK t \in Task, force \in Forces :
          /\ Resolves(n, t)
          /\ Start(p, [Idle EXCEPT !.pc = "leave", !.who = s, !.number = n, !.task = t,
                                   !.from = from, !.force = force])
    BY <1>1 DEF Work
  <2>. DEFINE r == [Idle EXCEPT !.pc = "leave", !.who = s, !.number = n, !.task = t,
                                !.from = from, !.force = force]
  <2>2. from \in Session \cup {Nobody} /\ force \in BOOLEAN
    BY ConstantsAssumption DEF Named
  <2>3. r \in Process /\ Equipped(r)
    BY <2>2, IdleType DEF Process, Equipped, Asking
  <2>4. Placed(r, folder)
    BY <2>1, <2>2, IdleType DEF Placed, Process, Resolves, Folders
  <2>5. proc' = [proc EXCEPT ![p] = r]
    BY <2>1 DEF Start
  <2>. HIDE DEF r
  <2>. QED BY <1>0, <1>1, <2>3, <2>4, <2>5, MoveStep DEF Work
<1>2. CASE WorkDone(p, s)
  <2>1. PICK force \in Forces :
          Start(p, [Idle EXCEPT !.pc = "validate", !.who = s, !.number = cache[s], !.force = force])
    BY <1>2 DEF WorkDone
  <2>. DEFINE r == [Idle EXCEPT !.pc = "validate", !.who = s, !.number = cache[s], !.force = force]
  <2>2. cache[s] \in Nat /\ force \in BOOLEAN
    BY Known, ConstantsAssumption
  <2>3. r \in Process /\ Equipped(r) /\ Placed(r, folder)
    BY <2>2, IdleType DEF Process, Equipped, Closing, Placed, Asking, Claiming
  <2>4. proc' = [proc EXCEPT ![p] = r]
    BY <2>1 DEF Start
  <2>. HIDE DEF r
  <2>. QED BY <1>0, <1>2, <2>3, <2>4, MoveStep DEF WorkDone
<1>3. CASE FreehandTask(p, s)
  <2>1. PICK n \in NextNumbers : Start(p, [Idle EXCEPT !.pc = "mkdir", !.who = s, !.number = n])
    BY <1>3 DEF FreehandTask
  <2>. DEFINE r == [Idle EXCEPT !.pc = "mkdir", !.who = s, !.number = n]
  <2>2. r.seen = Idle.seen /\ Idle.seen = NewDoc(TRUE)
    BY IdleType DEF Process, Idle
  <2>3. r \in Process /\ Equipped(r) /\ Placed(r, folder)
    BY <1>0, <2>2, IdleType, NewDocType DEF Process, Equipped, Other, Placed, Asking, Claiming
  <2>4. proc' = [proc EXCEPT ![p] = r]
    BY <2>1 DEF Start
  <2>. HIDE DEF r
  <2>. QED BY <1>0, <1>3, <2>3, <2>4, MoveStep DEF FreehandTask
<1>4. CASE FreehandBlock(p, s)
  <2>1. PICK t \in Task :
          Start(p, [Idle EXCEPT !.pc = "splice", !.who = s, !.task = t, !.seen = doc[t]])
    BY <1>4 DEF FreehandBlock
  <2>. DEFINE r == [Idle EXCEPT !.pc = "splice", !.who = s, !.task = t, !.seen = doc[t]]
  <2>2. doc[t] \in Doc
    BY Known
  <2>3. r \in Process /\ Equipped(r) /\ Placed(r, folder)
    BY <2>2, IdleType DEF Process, Equipped, Other, Placed, Asking, Claiming
  <2>4. proc' = [proc EXCEPT ![p] = r]
    BY <2>1 DEF Start
  <2>. HIDE DEF r
  <2>. QED BY <1>0, <1>4, <2>3, <2>4, MoveStep DEF FreehandBlock
<1>5. CASE AdmitEdit(p, s)
  <2>1. PICK t \in Task : Start(p, [Idle EXCEPT !.pc = "edit", !.who = s, !.task = t])
    BY <1>5 DEF AdmitEdit
  <2>. DEFINE r == [Idle EXCEPT !.pc = "edit", !.who = s, !.task = t]
  <2>2. r \in Process /\ Equipped(r) /\ Placed(r, folder)
    BY IdleType DEF Process, Equipped, Other, Placed, Asking, Claiming
  <2>3. proc' = [proc EXCEPT ![p] = r]
    BY <2>1 DEF Start
  <2>. HIDE DEF r
  <2>. QED BY <1>0, <1>5, <2>2, <2>3, MoveStep DEF AdmitEdit
<1>6. CASE AdmitWrite(p, s)
  <2>1. PICK t \in Task, open \in 0..MaxOpen :
          /\ Confirms(cache[s], s, t)
          /\ Start(p, [Idle EXCEPT !.pc = "write", !.who = s, !.task = t,
                       !.seen = [doc[t] EXCEPT !.open = open]])
    BY <1>6 DEF AdmitWrite
  <2>. DEFINE d == [doc[t] EXCEPT !.open = open]
              r == [Idle EXCEPT !.pc = "write", !.who = s, !.task = t, !.seen = d]
  <2>2. /\ d \in Doc /\ d.status = "in_progress" /\ d.sessions # <<>>
        /\ NewestOf(d) = s /\ folder[t].number # 0
    BY <2>1, ConfirmedDoc, ConstantsAssumption
  <2>. HIDE DEF d
  <2>3. r \in Process /\ Equipped(r) /\ r.pc = "write" /\ r.task = t /\ r.who = s /\ r.seen = d
    BY <2>2, IdleType DEF Process, Equipped, Other
  <2>4. proc' = [proc EXCEPT ![p] = r]
    BY <2>1 DEF Start, d
  <2>. HIDE DEF r
  <2>5. Placed(r, folder)
    BY <2>2, <2>3 DEF Placed, Asking, Claiming
  <2>. QED BY <1>0, <1>6, <2>3, <2>4, <2>5, MoveStep DEF AdmitWrite
<1>. QED BY <1>1, <1>2, <1>3, <1>4, <1>5, <1>6

LEMMA LeaveGood == ASSUME IInv, NEW p \in Proc, Leave(p) PROVE IInv'
<1>. DEFINE go == [proc[p] EXCEPT !.pc = "stub"]
<1>0. proc[p].pc = "leave" /\ UNCHANGED <<doc, folder, cache>> /\ crashes' \in 0..MaxCrashes
  BY Known DEF Leave
<1>1. go \in Process /\ Equipped(go) /\ Placed(go, folder)
  BY <1>0, Known DEF Process, Equipped, Placed, Asking, Claiming
<1>2. CASE GoTo(p, "stub")
  <2>1. proc' = [proc EXCEPT ![p] = go]
    BY <1>2 DEF GoTo
  <2>. HIDE DEF go
  <2>. QED BY <1>0, <1>1, <2>1, MoveStep
<1>3. CASE End(p)
  BY <1>0, <1>3, EndGood
<1>4. CASE \E t \in Folders(cache[proc[p].who]) :
             LET step == LeaveBy(doc[t], proc[p].force) IN
               /\ step # "idle"
               /\ proc' = [proc EXCEPT ![p].pc = step,
                                       ![p].prev = IF step = "autoclose" THEN t ELSE @]
  <2>1. PICK t \in Folders(cache[proc[p].who]) :
             LET step == LeaveBy(doc[t], proc[p].force) IN
               /\ step # "idle"
               /\ proc' = [proc EXCEPT ![p].pc = step,
                                       ![p].prev = IF step = "autoclose" THEN t ELSE @]
    BY <1>4
  <2>. DEFINE step == LeaveBy(doc[t], proc[p].force)
              r == [proc[p] EXCEPT !.pc = step,
                                   !.prev = IF step = "autoclose" THEN t ELSE @]
  <2>2. step \in {"autoclose", "stub"} /\ t \in Task
    BY <2>1 DEF LeaveBy, Folders
  <2>3. proc' = [proc EXCEPT ![p] = r]
    BY <2>1
  <2>. HIDE DEF step
  <2>4. r \in Process /\ Equipped(r) /\ Placed(r, folder)
    BY <1>0, <2>2, Known, ZenonT(30) DEF Process, Equipped, Placed, Asking, Claiming
  <2>. HIDE DEF r
  <2>. QED BY <1>0, <2>3, <2>4, MoveStep
<1>. QED BY <1>2, <1>3, <1>4 DEF Leave

LEMMA ReadFreehandGood == ASSUME IInv, NEW p \in Proc, ReadFreehand(p) PROVE IInv'
<1>. DEFINE d == doc[proc[p].task]
            r == [proc[p] EXCEPT !.pc = "fill", !.seen = d]
<1>1. proc[p].task \in Task /\ proc[p].pc = "reread" /\ proc' = [proc EXCEPT ![p] = r]
  BY Known DEF ReadFreehand, Equipped
<1>2. d \in Doc
  BY <1>1, Known
<1>. HIDE DEF d
<1>3. r \in Process /\ Equipped(r) /\ Placed(r, folder)
  BY <1>1, <1>2, Known, ZenonT(30) DEF Process, Equipped, Placed, Asking, Claiming
<1>. HIDE DEF r
<1>. QED BY <1>1, <1>3, Known, MoveStep DEF ReadFreehand

LEMMA ReadStubGood == ASSUME IInv, NEW p \in Proc, ReadStub(p) PROVE IInv'
<1>. DEFINE d == doc[proc[p].task]
            r == [proc[p] EXCEPT !.pc = IF d.stub THEN "expand" ELSE "claim",
                                 !.seen = IF d.stub THEN d ELSE @]
<1>1. proc[p].task \in Task /\ proc[p].pc = "stub" /\ proc' = [proc EXCEPT ![p] = r]
  BY Known DEF ReadStub, Equipped
<1>2. d \in Doc
  BY <1>1, Known
<1>. HIDE DEF d
<1>3. r \in Process /\ Equipped(r) /\ Placed(r, folder)
  BY <1>1, <1>2, Known, ZenonT(30) DEF Process, Equipped, Placed, Asking, Claiming
<1>. HIDE DEF r
<1>. QED BY <1>1, <1>3, Known, MoveStep DEF ReadStub

LEMMA ValidateGood == ASSUME IInv, NEW p \in Proc, Validate(p) PROVE IInv'
<1>1. CASE End(p)
  BY <1>1, Known, EndGood DEF Validate
<1>2. CASE \E t \in Task :
             proc' = [proc EXCEPT ![p].pc = IF proc[p].force THEN "complete" ELSE "gates",
                                  ![p].task = t]
  <2>1. PICK t \in Task :
             proc' = [proc EXCEPT ![p].pc = IF proc[p].force THEN "complete" ELSE "gates",
                                  ![p].task = t]
    BY <1>2
  <2>. DEFINE r == [proc[p] EXCEPT !.pc = IF proc[p].force THEN "complete" ELSE "gates",
                                   !.task = t]
  <2>2. proc[p].pc = "validate" /\ proc' = [proc EXCEPT ![p] = r]
    BY <2>1 DEF Validate
  <2>3. r \in Process /\ Equipped(r) /\ Placed(r, folder)
    BY <2>2, Known, ZenonT(30) DEF Process, Equipped, Placed, Asking, Claiming, Closing, Other
  <2>. HIDE DEF r
  <2>. QED BY <2>2, <2>3, Known, MoveStep DEF Validate
<1>. QED BY <1>1, <1>2 DEF Validate

LEMMA CheckGatesGood == ASSUME IInv, NEW p \in Proc, CheckGates(p) PROVE IInv'
<1>1. CASE End(p)
  BY <1>1, Known, EndGood DEF CheckGates
<1>2. CASE GoTo(p, "complete")
  <2>. DEFINE r == [proc[p] EXCEPT !.pc = "complete"]
  <2>1. proc[p].pc = "gates" /\ proc' = [proc EXCEPT ![p] = r]
    BY <1>2 DEF CheckGates, GoTo
  <2>2. r \in Process /\ Equipped(r) /\ Placed(r, folder)
    BY <2>1, Known DEF Process, Equipped, Placed, Asking, Claiming, Closing, Other
  <2>. HIDE DEF r
  <2>. QED BY <2>1, <2>2, Known, MoveStep DEF CheckGates
<1>. QED BY <1>1, <1>2 DEF CheckGates

LEMMA CrashGood == ASSUME IInv, NEW p \in Proc, Crash(p) PROVE IInv'
<1>1. crashes' \in 0..MaxCrashes
  BY Known, ConstantsAssumption DEF Crash
<1>. QED BY <1>1, EndGood DEF Crash

-----------------------------------------------------------------------------
\* What a completed document is, if it may be completed.
LEMMA MayCompleteType ==
  ASSUME IInv, NEW t \in Task, NEW s \in Session, MayComplete(doc[t], s)
  PROVE  /\ Completed(doc[t]) \in Doc
         /\ Completed(doc[t]).status = "done"
         /\ Completed(doc[t]).sessions = doc[t].sessions
         /\ folder[t].number # 0
<1>1. doc[t] \in Doc
  BY DEF IInv, TypeOK, DocsOK
<1>2. doc[t].status # "pending"
  BY ConstantsAssumption DEF MayComplete, ClosedBy, LiveOwner
<1>. QED BY <1>1, <1>2, CompletedType DEF IInv, Unmade

LEMMA AutoCloseGood == ASSUME IInv, NEW p \in Proc, AutoClose(p) PROVE IInv'
<1>. DEFINE t == proc[p].prev
            d == Completed(doc[t])
            r == [proc[p] EXCEPT !.pc = "stub", !.prev = NoTask]
<1>1. proc[p].pc = "autoclose" /\ t \in Task /\ proc[p].who \in Session
  BY Known DEF AutoClose, Equipped
<1>2. CASE MayComplete(doc[t], proc[p].who)
  <2>1. doc' = [doc EXCEPT ![t] = d] /\ proc' = [proc EXCEPT ![p] = r]
    BY <1>2 DEF AutoClose
  <2>2. /\ d \in Doc /\ d.status = "done" /\ d.sessions = doc[t].sessions
        /\ folder[t].number # 0
    BY <1>1, <1>2, MayCompleteType
  <2>3. r \in Process /\ Equipped(r) /\ Placed(r, folder)
    BY <1>1, Known DEF Process, Equipped, Placed, Asking, Claiming
  <2>. HIDE DEF d, r
  <2>4. /\ d.status = "in_progress" => d.sessions # <<>>
        /\ folder[t].number = 0 => d.status = "pending" /\ d.sessions = <<>>
    BY <2>2
  <2>5. UNCHANGED <<folder, cache, crashes>>
    BY DEF AutoClose
  <2>. HIDE DEF t
  <2>. QED BY <1>1, <2>1, <2>2, <2>3, <2>4, <2>5, DocStep
<1>3. CASE ~MayComplete(doc[t], proc[p].who)
  BY <1>3, Known, EndGood DEF AutoClose
<1>. QED BY <1>2, <1>3

LEMMA CompleteGood == ASSUME IInv, NEW p \in Proc, Complete(p) PROVE IInv'
<1>. DEFINE t == proc[p].task
            d == Completed(doc[t])
            r == [proc[p] EXCEPT !.pc = "clear"]
<1>1. proc[p].pc = "complete" /\ t \in Task /\ proc[p].who \in Session
  BY Known DEF Complete, Equipped
<1>2. CASE MayComplete(doc[t], proc[p].who)
  <2>1. doc' = [doc EXCEPT ![t] = d] /\ proc' = [proc EXCEPT ![p] = r]
    BY <1>2 DEF Complete, GoTo
  <2>2. /\ d \in Doc /\ d.status = "done" /\ d.sessions = doc[t].sessions
        /\ folder[t].number # 0
    BY <1>1, <1>2, MayCompleteType
  <2>3. r \in Process /\ Equipped(r) /\ Placed(r, folder)
    BY <1>1, Known DEF Process, Equipped, Placed, Asking, Claiming, Closing
  <2>. HIDE DEF d, r
  <2>4. /\ d.status = "in_progress" => d.sessions # <<>>
        /\ folder[t].number = 0 => d.status = "pending" /\ d.sessions = <<>>
    BY <2>2
  <2>5. UNCHANGED <<folder, cache, crashes>>
    BY DEF Complete
  <2>. HIDE DEF t
  <2>. QED BY <1>1, <2>1, <2>2, <2>3, <2>4, <2>5, DocStep
<1>3. CASE ~MayComplete(doc[t], proc[p].who)
  BY <1>3, Known, EndGood DEF Complete
<1>. QED BY <1>2, <1>3

\* A fresh template over a stub that nobody has claimed.
LEMMA FillGood ==
  ASSUME IInv, NEW p \in Proc, Expand(p) \/ FillFreehand(p)
  PROVE  IInv'
<1>. DEFINE t == proc[p].task
            d == NewDoc(FALSE)
            r == [proc[p] EXCEPT !.pc = "claim", !.seen = Idle.seen]
<1>1. proc[p].pc \in {"expand", "fill"} /\ t \in Task
  BY Known DEF Expand, FillFreehand, Equipped
<1>2. CASE MayExpand(doc[t], proc[p].seen)
  <2>1. doc' = [doc EXCEPT ![t] = d] /\ proc' = [proc EXCEPT ![p] = r]
    BY <1>2 DEF Expand, FillFreehand
  <2>2. d \in Doc /\ d.status = "pending" /\ d.sessions = <<>>
    BY NewDocType
  <2>3. r \in Process /\ Equipped(r) /\ Placed(r, folder)
    BY <1>1, Known, IdleType DEF Process, Equipped, Placed, Asking, Claiming
  <2>. HIDE DEF d, r
  <2>4. UNCHANGED <<folder, cache, crashes>>
    BY DEF Expand, FillFreehand
  <2>. HIDE DEF t
  <2>. QED BY <1>1, <2>1, <2>2, <2>3, <2>4, DocStep
<1>3. CASE ~MayExpand(doc[t], proc[p].seen)
  BY <1>3, Known, EndGood DEF Expand, FillFreehand
<1>. QED BY <1>2, <1>3

LEMMA ClaimGood == ASSUME IInv, NEW p \in Proc, Claim(p) PROVE IInv'
<1>. DEFINE t == proc[p].task
            s == proc[p].who
            d == Claimed(doc[t], s)
            r == [proc[p] EXCEPT !.pc = "cache"]
<1>1. proc[p].pc = "claim" /\ t \in Task /\ s \in Session
  BY Known DEF Claim, Equipped
<1>2. CASE MayClaim(doc[t], s, proc[p].from)
  <2>1. doc' = [doc EXCEPT ![t] = d] /\ proc' = [proc EXCEPT ![p] = r]
    BY <1>2 DEF Claim, GoTo
  <2>2. d \in Doc /\ d.sessions # <<>>
    BY <1>1, Known, ClaimedType
  <2>3. proc[p].number > 0 /\ folder[t].number = proc[p].number
    BY <1>1, Known DEF Placed, Asking
  <2>. HIDE DEF d
  <2>4. r \in Process /\ Equipped(r) /\ r.pc = "cache" /\ r.task = t
        /\ r.number = proc[p].number
    BY <1>1, Known DEF Process, Equipped, Claiming
  <2>. HIDE DEF t, s, r
  <2>5. Placed(r, folder)
    BY <2>3, <2>4 DEF Placed
  <2>6. UNCHANGED <<folder, cache, crashes>> /\ folder[t].number # 0
    BY <2>3, <1>1, Known DEF Claim
  <2>. QED BY <1>1, <2>1, <2>2, <2>4, <2>5, <2>6, DocStep
<1>3. CASE ~MayClaim(doc[t], s, proc[p].from)
  BY <1>3, Known, EndGood DEF Claim
<1>. QED BY <1>2, <1>3

\* Open gates come and go; nothing else of a document does.
LEMMA EditGood ==
  ASSUME IInv, NEW p \in Proc, SpliceBlock(p) \/ ApplyEdit(p)
  PROVE  IInv'
<1>. DEFINE t == proc[p].task
<1>1. t \in Task /\ End(p) /\ UNCHANGED <<folder, cache, crashes>>
  BY Known DEF SpliceBlock, ApplyEdit, Equipped
<1>2. CASE UNCHANGED doc
  BY <1>1, <1>2, Known, EndGood
<1>3. CASE \E n \in Nat : doc' = [doc EXCEPT ![t].open = n]
  <2>1. PICK n \in Nat : doc' = [doc EXCEPT ![t].open = n]
    BY <1>3
  <2>. DEFINE d == [doc[t] EXCEPT !.open = n]
  <2>2. doc[t] \in Doc
    BY <1>1, Known
  <2>3. /\ d = [status |-> doc[t].status, sessions |-> doc[t].sessions,
                open |-> n, stub |-> doc[t].stub]
        /\ doc' = [doc EXCEPT ![t] = d]
    BY <2>1, <2>2 DEF Doc
  <2>. HIDE DEF d
  <2>4. /\ d \in Doc /\ d.status = doc[t].status /\ d.sessions = doc[t].sessions
    BY <2>2, <2>3 DEF Doc
  <2>5. /\ d.status = "in_progress" => d.sessions # <<>>
        /\ folder[t].number = 0 => d.status = "pending" /\ d.sessions = <<>>
    BY <1>1, <2>4, Known DEF IInv, Unmade
  <2>6. proc' = [proc EXCEPT ![p] = Idle]
    BY <1>1 DEF End
  <2>. HIDE DEF t
  <2>. QED BY <1>1, <2>3, <2>4, <2>5, <2>6, IdleType, IdlePlaced, DocStep
<1>4. UNCHANGED doc \/ \E n \in Nat : doc' = [doc EXCEPT ![t].open = n]
  <2>1. doc[t].open \in Nat
    <3>1. doc[t] \in Doc
      BY <1>1, Known
    <3>. QED BY <3>1 DEF Doc
  <2>2. CASE doc' = [doc EXCEPT ![t].open = @ + 1]
    <3>1. doc[t].open + 1 \in Nat /\ doc' = [doc EXCEPT ![t].open = doc[t].open + 1]
      BY <2>1, <2>2
    <3>. QED BY <3>1
  <2>3. CASE doc[t].open > 0 /\ doc' = [doc EXCEPT ![t].open = @ - 1]
    <3>1. doc[t].open - 1 \in Nat /\ doc' = [doc EXCEPT ![t].open = doc[t].open - 1]
      BY <2>1, <2>3
    <3>. QED BY <3>1
  <2>. QED BY <2>2, <2>3 DEF SpliceBlock, ApplyEdit
<1>. QED BY <1>2, <1>3, <1>4

\* A Write puts back the text of a task that has a folder and an owner.
LEMMA WriteGood == ASSUME IInv, NEW p \in Proc, ApplyWrite(p) PROVE IInv'
<1>. DEFINE t == proc[p].task
            d == proc[p].seen
<1>1. /\ t \in Task /\ d \in Doc /\ d.sessions # <<>> /\ folder[t].number # 0
      /\ proc' = [proc EXCEPT ![p] = Idle] /\ doc' = [doc EXCEPT ![t] = d]
      /\ UNCHANGED <<folder, cache, crashes>>
  BY Known DEF ApplyWrite, Equipped, Process, Placed, End
<1>. HIDE DEF t, d
<1>. QED BY <1>1, IdleType, IdlePlaced, DocStep

-----------------------------------------------------------------------------
\* A step that writes one cache.
LEMMA CacheStep ==
  ASSUME IInv, NEW p \in Proc, NEW r, r \in Process, Equipped(r),
         Placed(r, folder), proc' = [proc EXCEPT ![p] = r],
         NEW s \in Session, NEW n \in Nat,
         cache' = [cache EXCEPT ![s] = n],
         UNCHANGED <<doc, folder, crashes>>
  PROVE  IInv'
<1>1. FoldersKept /\ DocsOK' /\ folder' \in FolderType
  BY DEF FoldersKept, IInv, TypeOK, DocsOK, FolderType
<1>2. Unmade(folder', doc') /\ cache' \in [Session -> Nat] /\ crashes' \in 0..MaxCrashes
  BY DEF IInv, TypeOK, Unmade
<1>. QED BY <1>1, <1>2, GoodStep

LEMMA CacheTaskGood == ASSUME IInv, NEW p \in Proc, CacheTask(p) PROVE IInv'
<1>. DEFINE s == proc[p].who
            n == proc[p].number
            r == IF proc[p].from \in {Nobody, s} THEN Idle
                 ELSE [proc[p] EXCEPT !.pc = "release"]
<1>1. /\ proc[p].pc = "cache" /\ proc[p].task \in Task /\ s \in Session /\ n \in Nat
      /\ n > 0 /\ folder[proc[p].task].number = n
  BY Known DEF CacheTask, Equipped, Placed, Claiming, Process
<1>3. proc' = [proc EXCEPT ![p] = r] /\ cache' = [cache EXCEPT ![s] = n]
  BY DEF CacheTask, End, GoTo
<1>4. r \in Process /\ Equipped(r) /\ Placed(r, folder)
  <2>1. CASE proc[p].from \in {Nobody, s}
    BY <2>1, IdleType, IdlePlaced
  <2>2. CASE proc[p].from \notin {Nobody, s}
    <3>1. proc[p].from \in Session /\ r = [proc[p] EXCEPT !.pc = "release"]
      BY <2>2, Known DEF Process
    <3>. QED BY <1>1, <3>1, Known, SMTT(20) DEF Process, Equipped, Placed, Asking, Claiming
  <2>. QED BY <2>1, <2>2
<1>5. UNCHANGED <<doc, folder, crashes>>
  BY DEF CacheTask
<1>. HIDE DEF r, s, n
<1>. QED BY <1>1, <1>3, <1>4, <1>5, CacheStep

LEMMA ClearGood ==
  ASSUME IInv, NEW p \in Proc, ReleaseOld(p) \/ ClearOwn(p)
  PROVE  IInv'
<1>1. PICK s \in Session : cache' = Cleared(s, proc[p].number)
  BY Known DEF ReleaseOld, ClearOwn, Equipped
<1>2. proc' = [proc EXCEPT ![p] = Idle] /\ UNCHANGED <<doc, folder, crashes>>
  BY DEF ReleaseOld, ClearOwn, End
<1>. DEFINE n == IF cache[s] = proc[p].number THEN 0 ELSE cache[s]
<1>3. n \in Nat /\ cache' = [cache EXCEPT ![s] = n]
  BY <1>1, Known DEF Cleared
<1>. HIDE DEF n
<1>. QED BY <1>2, <1>3, IdleType, IdlePlaced, CacheStep

\* A new folder and its document, which nobody has claimed.
LEMMA MakeFolderGood == ASSUME IInv, NEW p \in Proc, MakeFolder(p) PROVE IInv'
<1>. DEFINE freehand == proc[p].who # Nobody
            name == [number |-> proc[p].number, freehand |-> freehand]
<1>0. /\ proc[p].pc = "mkdir" /\ proc[p].number \in Nat /\ proc[p].number > 0
      /\ proc[p].seen \in Doc /\ proc[p].seen.status = "pending"
      /\ proc[p].seen.sessions = <<>>
      /\ UNCHANGED <<cache, crashes>>
  BY Known DEF MakeFolder, Placed, Process
<1>1. CASE End(p) /\ UNCHANGED <<doc, folder>>
  BY <1>0, <1>1, Known, EndGood
<1>2. CASE \E t \in Folders(0) :
             /\ folder' = [folder EXCEPT ![t] = name]
             /\ doc' = [doc EXCEPT ![t] = proc[p].seen]
             /\ IF freehand
                THEN proc' = [proc EXCEPT ![p].pc = "reread", ![p].task = t]
                ELSE End(p)
  <2>1. PICK t \in Folders(0) :
             /\ folder' = [folder EXCEPT ![t] = name]
             /\ doc' = [doc EXCEPT ![t] = proc[p].seen]
             /\ IF freehand
                THEN proc' = [proc EXCEPT ![p].pc = "reread", ![p].task = t]
                ELSE End(p)
    BY <1>2
  <2>. DEFINE r == IF freehand THEN [proc[p] EXCEPT !.pc = "reread", !.task = t] ELSE Idle
  <2>2. t \in Task /\ folder[t].number = 0
    BY <2>1 DEF Folders
  <2>3. proc' = [proc EXCEPT ![p] = r]
    BY <2>1 DEF End
  <2>4. name \in [number : Nat, freehand : BOOLEAN] /\ name.number = proc[p].number
    BY <1>0
  <2>. HIDE DEF name
  <2>5. folder' \in FolderType /\ FoldersKept /\ folder'[t] = name
    BY <2>1, <2>2, <2>4 DEF FolderType, FoldersKept, IInv, TypeOK
  <2>6. r \in Process /\ Equipped(r) /\ Placed(r, folder')
    <3>1. CASE freehand
      <4>1. proc[p].who \in Session
        BY <3>1, Known DEF Process
      <4>2. r = [proc[p] EXCEPT !.pc = "reread", !.task = t]
        BY <3>1
      <4>3. /\ r.pc = "reread" /\ r.task = t /\ r.number = proc[p].number
            /\ r \in Process /\ r.who \in Session
        BY <2>2, <4>1, <4>2, Known DEF Process, Asking
      <4>4. Equipped(r)
        BY <2>2, <4>3 DEF Equipped
      <4>5. folder'[r.task].number = r.number
        BY <2>4, <2>5, <4>3
      <4>. QED BY <1>0, <4>3, <4>4, <4>5 DEF Placed, Claiming
    <3>2. CASE ~freehand
      <4>1. r = Idle
        BY <3>2
      <4>. QED BY <4>1, IdleType, IdlePlaced
    <3>. QED BY <3>1, <3>2
  <2>. HIDE DEF r, freehand
  <2>7. DocsOK' /\ doc' \in [Task -> Doc]
    BY <1>0, <2>1, <2>2 DEF IInv, TypeOK, DocsOK
  <2>9. Unmade(folder', doc')
    <3>. SUFFICES ASSUME NEW u \in Task, folder'[u].number = 0
                  PROVE  doc'[u].status = "pending" /\ doc'[u].sessions = <<>>
      BY DEF Unmade
    <3>1. u # t
      BY <1>0, <2>4, <2>5
    <3>2. folder'[u] = folder[u] /\ doc'[u] = doc[u]
      BY <2>1, <3>1 DEF IInv, TypeOK, DocsOK
    <3>. QED BY <3>2 DEF IInv, Unmade
  <2>10. cache' \in [Session -> Nat] /\ crashes' \in 0..MaxCrashes
    BY <1>0, Known
  <2>. QED BY <2>3, <2>5, <2>6, <2>7, <2>9, <2>10, GoodStep
<1>. QED BY <1>1, <1>2 DEF MakeFolder

-----------------------------------------------------------------------------
(* The theorems.                                                           *)

LEMMA InitInv == Init => IInv
<1>. SUFFICES ASSUME Init PROVE IInv
  OBVIOUS
<1>1. DocsOK /\ Unmade(folder, doc)
  <2>1. ASSUME NEW t \in Task
        PROVE  doc[t] \in Doc /\ doc[t].status = "pending" /\ doc[t].sessions = <<>>
    <3>1. \E b \in BOOLEAN : doc[t] = NewDoc(b)
      <4>1. doc[t] = NewDoc(t \in Stubs)
        BY DEF Init
      <4>2. (t \in Stubs) = TRUE \/ (t \in Stubs) = FALSE
        OBVIOUS
      <4>. QED BY <4>1, <4>2, Zenon
    <3>. QED BY <3>1, NewDocType
  <2>2. doc \in [Task -> Doc]
    BY <2>1 DEF Init
  <2>. QED BY <2>1, <2>2 DEF DocsOK, Unmade
<1>2. folder \in FolderType
  BY ConstantsAssumption DEF Init, FolderType
<1>3. proc \in [Proc -> Process] /\ \A p \in Proc : Equipped(proc[p]) /\ Placed(proc[p], folder)
  BY IdleType, IdlePlaced DEF Init
<1>4. cache \in [Session -> Nat] /\ crashes \in 0..MaxCrashes
  BY ConstantsAssumption DEF Init
<1>. QED BY <1>1, <1>2, <1>3, <1>4 DEF IInv, TypeOK, FolderType

\* The number of a folder is a natural number.
LEMMA NumbersType == ASSUME IInv PROVE Numbers \subseteq Nat
BY DEF Numbers, IInv, TypeOK

LEMMA NewTaskGood == ASSUME IInv, NEW p \in Proc, NewTask(p) PROVE IInv'
<1>0. crashes \in 0..MaxCrashes /\ \A n \in NextNumbers : n \in Nat /\ n > 0
  BY Known DEF NextNumbers
<1>1. PICK n \in NextNumbers, stub \in BOOLEAN :
        Start(p, [Idle EXCEPT !.pc = "mkdir", !.number = n, !.seen = NewDoc(stub)])
  BY DEF NewTask
<1>. DEFINE r == [Idle EXCEPT !.pc = "mkdir", !.number = n, !.seen = NewDoc(stub)]
<1>2. r \in Process /\ Equipped(r) /\ Placed(r, folder)
  BY <1>0, IdleType, NewDocType DEF Process, Equipped, Other, Placed, Asking, Claiming
<1>3. proc' = [proc EXCEPT ![p] = r]
  BY <1>1 DEF Start
<1>. HIDE DEF r
<1>. QED BY <1>0, <1>2, <1>3, MoveStep DEF NewTask

LEMMA NextInv == IInv /\ [Next]_vars => IInv'
<1>. SUFFICES ASSUME IInv, [Next]_vars PROVE IInv'
  OBVIOUS
<1>1. CASE UNCHANGED vars
  BY <1>1 DEF vars, IInv, TypeOK, DocsOK
<1>2. CASE Next
  <2>1. PICK p \in Proc : \/ Continue(p) \/ Crash(p) \/ NewTask(p)
                          \/ \E s \in Session : Command(p, s)
    BY <1>2 DEF Next
  <2>2. CASE Continue(p)
    BY <2>2, LeaveGood, AutoCloseGood, ReadStubGood, ReadFreehandGood, FillGood, ClaimGood, CacheTaskGood,
       ClearGood, ValidateGood, CheckGatesGood, CompleteGood, MakeFolderGood, EditGood,
       WriteGood DEF Continue
  <2>3. CASE \E s \in Session : Command(p, s)
    BY <2>3, NumbersType, StartGood DEF Command
  <2>. QED BY <2>1, <2>2, <2>3, CrashGood, NewTaskGood
<1>. QED BY <1>1, <1>2

\* The invariant holds in every reachable state.
THEOREM Invariance == Spec => []IInv
BY InitInv, NextInv, PTL DEF Spec

\* Documents, caches and processes stay well formed (all of pb-tasks work,
\* work done, freehand and new, and admitted edits).
THEOREM TypeCorrect == Spec => []TypeOK
<1>1. IInv => TypeOK
  BY DEF IInv
<1>. QED BY <1>1, Invariance, PTL

-----------------------------------------------------------------------------
(* Provenance.                                                             *)

LEMMA GrowsAlike ==
  ASSUME NEW d \in Doc, NEW e, e.sessions = d.sessions, e.stub = d.stub
  PROVE  Grows(d, e)
<1>1. Len(d.sessions) \in Nat
  BY DEF Doc
<1>. QED BY <1>1 DEF Grows

\* Every way a document is rewritten takes it further.
LEMMA RewritesGrow ==
  ASSUME NEW d \in Doc, d.status = "in_progress" => d.sessions # <<>>
  PROVE  /\ Grows(d, d)
         /\ Grows(d, Completed(d))
         /\ \A s \in Session : Grows(d, Claimed(d, s))
         /\ \A n \in Nat : Grows(d, [d EXCEPT !.open = n])
         /\ d.sessions = <<>> => Grows(d, NewDoc(FALSE))
<1>1. Grows(d, d)
  BY GrowsAlike
<1>2. Grows(d, Completed(d))
  BY GrowsAlike DEF Completed, Doc
<1>3. ASSUME NEW s \in Session PROVE Grows(d, Claimed(d, s))
  <2>1. Claimed(d, s).stub = d.stub
    BY DEF Claimed, Doc
  <2>. QED BY <2>1, ClaimedType DEF Grows
<1>4. ASSUME NEW n \in Nat PROVE Grows(d, [d EXCEPT !.open = n])
  BY GrowsAlike DEF Doc
<1>5. ASSUME d.sessions = <<>> PROVE Grows(d, NewDoc(FALSE))
  <2>1. ~NewDoc(FALSE).stub /\ NewDoc(FALSE).sessions = d.sessions
    BY <1>5 DEF NewDoc
  <2>2. Len(d.sessions) \in Nat
    BY DEF Doc
  <2>. DEFINE e == NewDoc(FALSE)
  <2>. HIDE DEF e
  <2>3. ~e.stub /\ e.sessions = d.sessions
    BY <2>1 DEF e
  <2>4. Len(d.sessions) <= Len(e.sessions)
    BY <2>2, <2>3
  <2>5. ~d.stub => ~e.stub
    BY <2>3, Zenon
  <2>6. Grows(d, e)
    BY <2>3, <2>4, <2>5 DEF Grows
  <2>. QED BY <2>6 DEF e
<1>. QED BY <1>1, <1>2, <1>3, <1>4, <1>5

\* A step rewrites at most one document, and takes that one further unless
\* it makes its folder or is a Write.
LEMMA OneDocGrows ==
  ASSUME IInv, NEW p \in Proc, Continue(p)
  PROVE  \/ UNCHANGED doc
         \/ \E t \in Task, d \in Doc :
              /\ doc' = [doc EXCEPT ![t] = d]
              /\ folder[t].number = 0 \/ Grows(doc[t], d) \/ PutBack(p, t)
<1>1. /\ proc[p].pc \in Asking \cup {"complete", "splice", "edit", "write"} =>
           proc[p].task \in Task
      /\ proc[p].pc = "autoclose" => proc[p].prev \in Task
      /\ proc[p].pc \in Asking \cup {"complete"} => proc[p].who \in Session
  BY Known DEF Equipped, Asking
<1>2. CASE AutoClose(p) \/ Complete(p)
  <2>1. PICK t \in Task : UNCHANGED doc \/ doc' = [doc EXCEPT ![t] = Completed(doc[t])]
    BY <1>1, <1>2 DEF AutoClose, Complete, Asking
  <2>2. doc[t] \in Doc /\ Completed(doc[t]) \in Doc
    BY Known, CompletedType
  <2>3. Grows(doc[t], Completed(doc[t]))
    BY <2>2, Known, RewritesGrow
  <2>. QED BY <2>1, <2>2, <2>3
<1>3. CASE Expand(p) \/ FillFreehand(p)
  <2>1. PICK t \in Task : \/ UNCHANGED doc
                          \/ doc' = [doc EXCEPT ![t] = NewDoc(FALSE)] /\ doc[t].sessions = <<>>
    BY <1>1, <1>3 DEF Expand, FillFreehand, MayExpand, Asking
  <2>2. doc[t] \in Doc /\ NewDoc(FALSE) \in Doc
    BY Known, NewDocType
  <2>3. doc[t].sessions = <<>> => Grows(doc[t], NewDoc(FALSE))
    BY <2>2, Known, RewritesGrow
  <2>. QED BY <2>1, <2>2, <2>3
<1>4. CASE Claim(p)
  <2>1. PICK t \in Task, s \in Session :
          UNCHANGED doc \/ doc' = [doc EXCEPT ![t] = Claimed(doc[t], s)]
    BY <1>1, <1>4 DEF Claim, Asking
  <2>2. doc[t] \in Doc /\ Claimed(doc[t], s) \in Doc
    BY Known, ClaimedType
  <2>3. Grows(doc[t], Claimed(doc[t], s))
    BY <2>2, Known, RewritesGrow
  <2>. QED BY <2>1, <2>2, <2>3
<1>5. CASE SpliceBlock(p) \/ ApplyEdit(p)
  <2>. DEFINE t == proc[p].task
  <2>0. t \in Task
    BY <1>1, <1>5 DEF SpliceBlock, ApplyEdit
  <2>1. \/ UNCHANGED doc
        \/ doc' = [doc EXCEPT ![t].open = doc[t].open + 1]
        \/ doc[t].open > 0 /\ doc' = [doc EXCEPT ![t].open = doc[t].open - 1]
    BY <1>5 DEF SpliceBlock, ApplyEdit
  <2>2. doc[t] \in Doc
    BY <2>0, Known
  <2>3. doc[t].open \in Nat
    BY <2>2 DEF Doc
  <2>. HIDE DEF t
  <2>4. ASSUME NEW n \in Nat, doc' = [doc EXCEPT ![t].open = n]
        PROVE  \E d \in Doc : doc' = [doc EXCEPT ![t] = d] /\ Grows(doc[t], d)
    <3>. DEFINE d == [doc[t] EXCEPT !.open = n]
    <3>1. d \in Doc
      BY <2>2 DEF Doc
    <3>2. Grows(doc[t], d)
      BY <2>0, <2>2, Known, RewritesGrow
    <3>. QED BY <2>4, <3>1, <3>2
  <2>5. doc[t].open + 1 \in Nat /\ (doc[t].open > 0 => doc[t].open - 1 \in Nat)
    BY <2>3
  <2>. QED BY <2>0, <2>1, <2>4, <2>5
<1>6. CASE MakeFolder(p)
  BY <1>6, Known DEF MakeFolder, Folders, Process
<1>7. CASE ApplyWrite(p)
  <2>. DEFINE t == proc[p].task
              d == proc[p].seen
  <2>1. /\ proc[p].pc = "write" /\ t \in Task /\ d \in Doc /\ proc'[p] = Idle
        /\ doc' = [doc EXCEPT ![t] = d] /\ doc'[t] = d
    BY <1>1, <1>7, Known DEF ApplyWrite, End, Process, IInv, TypeOK
  <2>2. LiveOwner(d) = proc[p].who
    BY <2>1, Known DEF Placed, LiveOwner
  <2>3. PutBack(p, t)
    BY <2>1, <2>2, IdleType DEF PutBack
  <2>. QED BY <2>1, <2>3
<1>. QED BY <1>2, <1>3, <1>4, <1>5, <1>6, <1>7
     DEF Continue, Leave, ReadStub, ReadFreehand, CacheTask, ReleaseOld, Validate, CheckGates,
         ClearOwn

\* No step of a command, crash, race or transfer loses a task's provenance:
\* its session history only grows, and what was expanded stays expanded,
\* except that a Write applied late puts back the text its session owned
\* (claim_task_document, complete_task_document, replace_unclaimed_task_text).
THEOREM HistoryKept == Spec => ProvenanceKept
<1>. DEFINE Kept(t) == \/ folder[t].number = 0
                       \/ Grows(doc[t], doc'[t])
                       \/ \E p \in Proc : PutBack(p, t)
<1>1. ASSUME IInv, [Next]_vars, NEW t \in Task PROVE Kept(t)
  <2>1. Grows(doc[t], doc[t])
    <3>1. doc[t] \in Doc
      BY <1>1 DEF IInv, TypeOK, DocsOK
    <3>. QED BY <3>1, GrowsAlike
  <2>2. CASE UNCHANGED doc
    BY <2>1, <2>2
  <2>3. ASSUME NEW p \in Proc, NEW u \in Task, NEW d \in Doc, doc' = [doc EXCEPT ![u] = d],
               folder[u].number = 0 \/ Grows(doc[u], d) \/ PutBack(p, u)
        PROVE  Kept(t)
    <3>1. CASE t = u
      BY <1>1, <2>3, <3>1, Known
    <3>2. CASE t # u
      BY <2>1, <2>3, <3>2
    <3>. QED BY <3>1, <3>2
  <2>4. CASE Next
    <3>1. PICK p \in Proc : \/ Continue(p) \/ Crash(p) \/ NewTask(p)
                            \/ \E s \in Session : Command(p, s)
      BY <2>4 DEF Next
    <3>2. CASE Continue(p)
      BY <1>1, <2>2, <2>3, <3>2, OneDocGrows
    <3>3. CASE ~Continue(p)
      BY <2>2, <3>1, <3>3 DEF Crash, NewTask, Command, Work, WorkDone, FreehandTask,
                              FreehandBlock, AdmitEdit, AdmitWrite
    <3>. QED BY <3>2, <3>3
  <2>. QED BY <1>1, <2>2, <2>4 DEF vars
<1>2. IInv /\ [Next]_vars => [\A t \in Task : Kept(t)]_vars
  BY <1>1
<1>. QED BY <1>2, Invariance, PTL DEF Spec, ProvenanceKept

-----------------------------------------------------------------------------
(* Refinement of TaskOwnership.                                            *)

Owners == [t \in Task |-> LiveOwner(doc[t])]

Requests == [p \in Proc |-> RequestOf(proc[p])]

\* A step of TaskOwnership, or none.
Mapped == [Ownership!Next]_(Ownership!vars)

LEMMA RequestForms ==
  ASSUME NEW r \in Process, Equipped(r)
  PROVE  /\ r.pc \in Asking =>
              /\ RequestOf(r) = [kind |-> "claim", who |-> r.who, task |-> r.task,
                                 from |-> r.from]
              /\ RequestOf(r) \in Ownership!Request
         /\ r.pc \in {"gates", "complete"} =>
              /\ RequestOf(r) = [kind |-> "claim", who |-> r.who, task |-> r.task,
                                 from |-> r.who]
              /\ RequestOf(r) \in Ownership!Request
         /\ r.pc = "write" =>
              /\ RequestOf(r) = [kind |-> "write", who |-> r.who, task |-> r.task,
                                 from |-> r.who]
              /\ RequestOf(r) \in Ownership!Request
         /\ r.pc \notin Asking \cup {"gates", "complete", "write"} =>
              RequestOf(r) = Ownership!NoRequest
<1>1. CASE r.pc \in Asking
  <2>1. RequestOf(r) = [kind |-> "claim", who |-> r.who, task |-> r.task, from |-> r.from]
    BY <1>1 DEF RequestOf, Asking
  <2>2. r.who \in Session /\ r.task \in Task /\ r.from \in Session \cup {Nobody}
    BY <1>1 DEF Equipped, Process, Asking
  <2>. QED BY <1>1, <2>1, <2>2 DEF Ownership!Request, Asking
<1>2. CASE r.pc \in {"gates", "complete"}
  <2>1. RequestOf(r) = [kind |-> "claim", who |-> r.who, task |-> r.task, from |-> r.who]
    BY <1>2 DEF RequestOf, Asking
  <2>2. r.who \in Session /\ r.task \in Task
    BY <1>2 DEF Equipped
  <2>. QED BY <1>2, <2>1, <2>2 DEF Ownership!Request, Asking
<1>3. CASE r.pc = "write"
  <2>1. RequestOf(r) = [kind |-> "write", who |-> r.who, task |-> r.task, from |-> r.who]
    BY <1>3 DEF RequestOf, Asking
  <2>2. r.who \in Session /\ r.task \in Task
    BY <1>3 DEF Equipped
  <2>. QED BY <1>3, <2>1, <2>2 DEF Ownership!Request, Asking
<1>4. CASE r.pc \notin Asking \cup {"gates", "complete", "write"}
  BY <1>4 DEF RequestOf, Ownership!NoRequest
<1>. QED BY <1>1, <1>2, <1>3, <1>4

\* What the step of one process does to the requests, and the rewriting of
\* one document to the owners.
LEMMA RequestsChange ==
  ASSUME IInv, NEW p \in Proc, NEW r, proc' = [proc EXCEPT ![p] = r]
  PROVE  /\ Requests[p] = RequestOf(proc[p])
         /\ Requests' = [Requests EXCEPT ![p] = RequestOf(r)]
BY DEF Requests, IInv, TypeOK

LEMMA OwnersChange ==
  ASSUME IInv, NEW t \in Task, NEW d, doc' = [doc EXCEPT ![t] = d]
  PROVE  /\ Owners[t] = LiveOwner(doc[t])
         /\ Owners' = [Owners EXCEPT ![t] = LiveOwner(d)]
         /\ LiveOwner(d) = LiveOwner(doc[t]) => Owners' = Owners
BY DEF Owners, IInv, TypeOK, DocsOK

\* The steps of TaskOwnership.
LEMMA QuietMaps ==
  ASSUME IInv, NEW p \in Proc, NEW r, proc' = [proc EXCEPT ![p] = r],
         RequestOf(r) = RequestOf(proc[p]), Owners' = Owners
  PROVE  Mapped
<1>1. Requests' = Requests
  BY RequestsChange DEF Requests
<1>. QED BY <1>1 DEF Mapped, Ownership!vars, Owners, Requests

LEMMA AskMaps ==
  ASSUME IInv, NEW p \in Proc, NEW r, proc' = [proc EXCEPT ![p] = r],
         RequestOf(proc[p]) = Ownership!NoRequest, RequestOf(r) \in Ownership!Request,
         RequestOf(r).kind = "write" => Owners[RequestOf(r).task] = RequestOf(r).who,
         Owners' = Owners
  PROVE  Mapped
<1>1. /\ Requests[p] = Ownership!NoRequest
      /\ Requests' = [Requests EXCEPT ![p] = RequestOf(r)]
  BY RequestsChange
<1>2. Requests'[p] = RequestOf(r)
  BY DEF Requests, IInv, TypeOK
<1>3. Ownership!Ask(p)
  BY <1>1, <1>2 DEF Ownership!Ask, Owners, Requests
<1>. QED BY <1>3 DEF Mapped, Ownership!Next

LEMMA DropMaps ==
  ASSUME IInv, NEW p \in Proc, NEW r, proc' = [proc EXCEPT ![p] = r],
         RequestOf(r) = Ownership!NoRequest, Owners' = Owners
  PROVE  Mapped
<1>1. Ownership!Drop(p)
  BY RequestsChange DEF Ownership!Drop, Owners, Requests
<1>. QED BY <1>1 DEF Mapped, Ownership!Next

LEMMA GrantMaps ==
  ASSUME IInv, NEW p \in Proc, NEW r, proc' = [proc EXCEPT ![p] = r],
         RequestOf(r) = Ownership!NoRequest, RequestOf(proc[p]).kind = "claim",
         Owners[RequestOf(proc[p]).task] = RequestOf(proc[p]).from,
         Owners' = [Owners EXCEPT ![RequestOf(proc[p]).task] = RequestOf(proc[p]).who]
  PROVE  Mapped
<1>1. Ownership!Grant(p)
  BY RequestsChange DEF Ownership!Grant, Owners, Requests
<1>. QED BY <1>1 DEF Mapped, Ownership!Next

LEMMA RestoreMaps ==
  ASSUME IInv, NEW p \in Proc, NEW r, proc' = [proc EXCEPT ![p] = r],
         RequestOf(r) = Ownership!NoRequest, RequestOf(proc[p]).kind = "write",
         Owners' = [Owners EXCEPT ![RequestOf(proc[p]).task] = RequestOf(proc[p]).who]
  PROVE  Mapped
<1>1. Ownership!Restore(p)
  BY RequestsChange DEF Ownership!Restore, Owners, Requests
<1>. QED BY <1>1 DEF Mapped, Ownership!Next

LEMMA ReleaseMaps ==
  ASSUME IInv, NEW p \in Proc, NEW r, proc' = [proc EXCEPT ![p] = r], NEW t \in Task,
         RequestOf(r) \in {RequestOf(proc[p]), Ownership!NoRequest},
         RequestOf(proc[p]).kind = "claim",
         Owners[t] = RequestOf(proc[p]).who,
         Owners' = [Owners EXCEPT ![t] = Nobody]
  PROVE  Mapped
<1>1. Requests' \in {Requests, [Requests EXCEPT ![p] = Ownership!NoRequest]}
  <2>1. CASE RequestOf(r) = RequestOf(proc[p])
    BY <2>1, RequestsChange DEF Requests
  <2>2. CASE RequestOf(r) = Ownership!NoRequest
    BY <2>2, RequestsChange
  <2>. QED BY <2>1, <2>2
<1>2. Ownership!Release(p, t)
  BY <1>1, RequestsChange DEF Ownership!Release, Owners, Requests
<1>. QED BY <1>2 DEF Mapped, Ownership!Next

\* The ends of a command, whether done, refused or killed.
LEMMA EndMaps == ASSUME IInv, NEW p \in Proc, End(p), Owners' = Owners PROVE Mapped
<1>1. RequestOf(Idle) = Ownership!NoRequest
  BY IdleType, RequestForms DEF Asking
<1>. QED BY <1>1, DropMaps DEF End

\* Where a command starts, and what a Write that starts holds.
LEMMA StartsAt ==
  ASSUME IInv, NEW p \in Proc, NEW s \in Session, Command(p, s)
  PROVE  /\ proc' = [proc EXCEPT ![p] = proc'[p]]
         /\ proc'[p].pc \in {"leave", "validate", "mkdir", "splice", "edit", "write"}
         /\ proc'[p].pc = "write" =>
              proc'[p].who = s /\ LiveOwner(doc[proc'[p].task]) = s
<1>. DEFINE r == proc'[p]
<1>. HIDE DEF r
<1>1. ASSUME NEW pc, NEW u, proc' = [proc EXCEPT ![p] = u], u.pc = pc
      PROVE  proc' = [proc EXCEPT ![p] = r] /\ r.pc = pc
  BY <1>1 DEF r, IInv, TypeOK
<1>2. ASSUME NEW n, NEW from, Work(p, s, n, from)
      PROVE  proc' = [proc EXCEPT ![p] = r] /\ r.pc = "leave"
  BY <1>1, <1>2 DEF Work, Start, Idle
<1>3. ASSUME WorkDone(p, s)
      PROVE  proc' = [proc EXCEPT ![p] = r] /\ r.pc = "validate"
  <2>1. PICK force \in Forces :
          proc' = [proc EXCEPT ![p] = [Idle EXCEPT !.pc = "validate", !.who = s,
                                                   !.number = cache[s], !.force = force]]
    BY <1>3 DEF WorkDone, Start
  <2>. DEFINE u == [Idle EXCEPT !.pc = "validate", !.who = s, !.number = cache[s],
                                !.force = force]
  <2>2. u.pc = "validate"
    BY DEF Idle
  <2>. HIDE DEF u
  <2>. QED BY <1>1, <2>1, <2>2 DEF u
<1>4. ASSUME FreehandTask(p, s)
      PROVE  proc' = [proc EXCEPT ![p] = r] /\ r.pc = "mkdir"
  BY <1>1, <1>4 DEF FreehandTask, Start, Idle
<1>5. ASSUME FreehandBlock(p, s)
      PROVE  proc' = [proc EXCEPT ![p] = r] /\ r.pc = "splice"
  <2>1. PICK t \in Task :
          proc' = [proc EXCEPT ![p] = [Idle EXCEPT !.pc = "splice", !.who = s, !.task = t,
                                                   !.seen = doc[t]]]
    BY <1>5 DEF FreehandBlock, Start
  <2>. DEFINE u == [Idle EXCEPT !.pc = "splice", !.who = s, !.task = t, !.seen = doc[t]]
  <2>2. u.pc = "splice"
    BY DEF Idle
  <2>. HIDE DEF u
  <2>. QED BY <1>1, <2>1, <2>2 DEF u
<1>6. ASSUME AdmitEdit(p, s)
      PROVE  proc' = [proc EXCEPT ![p] = r] /\ r.pc = "edit"
  <2>1. PICK t \in Task :
          proc' = [proc EXCEPT ![p] = [Idle EXCEPT !.pc = "edit", !.who = s, !.task = t]]
    BY <1>6 DEF AdmitEdit, Start
  <2>. DEFINE u == [Idle EXCEPT !.pc = "edit", !.who = s, !.task = t]
  <2>2. u.pc = "edit"
    BY DEF Idle
  <2>. HIDE DEF u
  <2>. QED BY <1>1, <2>1, <2>2 DEF u
<1>7. ASSUME AdmitWrite(p, s)
      PROVE  /\ proc' = [proc EXCEPT ![p] = r] /\ r.pc = "write"
             /\ r.who = s /\ LiveOwner(doc[r.task]) = s
  <2>1. PICK t \in Task, open \in 0..MaxOpen :
          /\ Confirms(cache[s], s, t)
          /\ proc' = [proc EXCEPT ![p] = [Idle EXCEPT !.pc = "write", !.who = s, !.task = t,
                                          !.seen = [doc[t] EXCEPT !.open = open]]]
    BY <1>7 DEF AdmitWrite, Start
  <2>. DEFINE u == [Idle EXCEPT !.pc = "write", !.who = s, !.task = t,
                                !.seen = [doc[t] EXCEPT !.open = open]]
  <2>2. u.pc = "write" /\ u.who = s /\ u.task = t
    BY DEF Idle
  <2>. HIDE DEF u
  <2>3. proc' = [proc EXCEPT ![p] = r] /\ r = u
    BY <2>1 DEF u, r, IInv, TypeOK
  <2>. QED BY <2>1, <2>2, <2>3 DEF Confirms
<1>. QED BY <1>2, <1>3, <1>4, <1>5, <1>6, <1>7 DEF Command, r

LEMMA StartMaps ==
  ASSUME IInv, NEW p \in Proc, NEW s \in Session, Command(p, s)
  PROVE  Mapped
<1>1. Owners' = Owners /\ proc[p].pc = "idle" /\ IInv'
  BY StartGood, NumbersType
     DEF Command, Work, WorkDone, FreehandTask, FreehandBlock, AdmitEdit, AdmitWrite, Free,
         Owners
<1>2. RequestOf(proc[p]) = Ownership!NoRequest
  BY <1>1, Known, RequestForms DEF Asking
<1>. DEFINE r == proc'[p]
<1>3. /\ proc' = [proc EXCEPT ![p] = r]
      /\ r.pc \in {"leave", "validate", "mkdir", "splice", "edit", "write"}
      /\ r.pc = "write" => r.who = s /\ LiveOwner(doc[r.task]) = s
  BY StartsAt
<1>4. r \in Process /\ Equipped(r)
  BY <1>1 DEF IInv, TypeOK
<1>. HIDE DEF r
<1>5. CASE r.pc = "leave"
  <2>1. RequestOf(r) \in Ownership!Request /\ RequestOf(r).kind = "claim"
    BY <1>4, <1>5, RequestForms DEF Asking
  <2>. QED BY <1>1, <1>2, <1>3, <2>1, AskMaps
<1>6. CASE r.pc = "write"
  <2>1. /\ RequestOf(r) \in Ownership!Request
        /\ RequestOf(r).task = r.task /\ RequestOf(r).who = s /\ r.task \in Task
    BY <1>3, <1>4, <1>6, RequestForms DEF Equipped
  <2>2. Owners[RequestOf(r).task] = RequestOf(r).who
    BY <1>3, <1>6, <2>1 DEF Owners
  <2>. QED BY <1>1, <1>2, <1>3, <2>1, <2>2, AskMaps
<1>7. CASE r.pc \notin {"leave", "write"}
  BY <1>1, <1>2, <1>3, <1>4, <1>7, RequestForms, QuietMaps DEF Asking
<1>. QED BY <1>5, <1>6, <1>7

\* A command goes on to a step that asks for the same, or ends.
LEMMA GoesOn ==
  ASSUME IInv, NEW p \in Proc, NEW r \in Process, Equipped(r),
         proc' = [proc EXCEPT ![p] = r], Owners' = Owners,
         RequestOf(r) = RequestOf(proc[p]) \/ r = Idle
  PROVE  Mapped
<1>1. RequestOf(Idle) = Ownership!NoRequest
  BY IdleType, RequestForms DEF Asking
<1>. QED BY <1>1, QuietMaps, DropMaps

\* A request depends on where a process is and on three of its fields.
LEMMA SameRequest ==
  ASSUME NEW q \in Process, Equipped(q), NEW r \in Process, Equipped(r),
         \/ /\ q.pc \in Asking /\ r.pc \in Asking
            /\ r.who = q.who /\ r.task = q.task /\ r.from = q.from
         \/ /\ q.pc \in {"gates", "complete"} /\ r.pc \in {"gates", "complete"}
            /\ r.who = q.who /\ r.task = q.task
         \/ {q.pc, r.pc} \cap (Asking \cup {"gates", "complete", "write"}) = {}
  PROVE  RequestOf(r) = RequestOf(q)
<1>1. CASE /\ q.pc \in Asking /\ r.pc \in Asking
           /\ r.who = q.who /\ r.task = q.task /\ r.from = q.from
  BY <1>1, RequestForms
<1>2. CASE /\ q.pc \in {"gates", "complete"} /\ r.pc \in {"gates", "complete"}
           /\ r.who = q.who /\ r.task = q.task
  BY <1>2, RequestForms
<1>3. CASE {q.pc, r.pc} \cap (Asking \cup {"gates", "complete", "write"}) = {}
  <2>1. /\ q.pc \notin Asking \cup {"gates", "complete", "write"}
        /\ r.pc \notin Asking \cup {"gates", "complete", "write"}
    BY <1>3, Zenon
  <2>. QED BY <2>1, RequestForms
<1>. QED BY <1>1, <1>2, <1>3

\* A step of p moves no other process.
LEMMA OneMoves ==
  ASSUME IInv, NEW p \in Proc, Continue(p)
  PROVE  proc' = [proc EXCEPT ![p] = proc'[p]]
BY Known DEF IInv, TypeOK, Continue, Leave, AutoClose, ReadStub, Expand, Claim, CacheTask,
   ReleaseOld, Validate, CheckGates, Complete, ClearOwn, MakeFolder, ReadFreehand, FillFreehand,
   SpliceBlock, ApplyEdit, ApplyWrite, End, GoTo

\* Its state afterwards is one the invariant allows.
LEMMA Moved ==
  ASSUME IInv, NEW p \in Proc, Continue(p)
  PROVE  /\ proc[p] \in Process /\ Equipped(proc[p])
         /\ proc'[p] \in Process /\ Equipped(proc'[p])
<1>1. Next
  BY DEF Next
<1>. QED BY <1>1, NextInv DEF IInv, TypeOK

LEMMA ReadMaps ==
  ASSUME IInv, NEW p \in Proc, Continue(p),
         \/ Leave(p) \/ ReadStub(p) \/ ReadFreehand(p) \/ CacheTask(p) \/ ReleaseOld(p)
         \/ CheckGates(p) \/ ClearOwn(p)
  PROVE  Mapped
<1>. DEFINE q == proc[p]
            r == proc'[p]
<1>1. Owners' = Owners /\ p \in DOMAIN proc
  BY Known DEF Leave, ReadStub, ReadFreehand, CacheTask, ReleaseOld, CheckGates, ClearOwn,
               Owners, IInv, TypeOK
<1>2. q \in Process /\ r \in Process /\ Equipped(q) /\ Equipped(r)
  BY Moved
<1>3. \/ r = Idle
      \/ /\ q.pc \in Asking /\ r.pc \in Asking
         /\ r.who = q.who /\ r.task = q.task /\ r.from = q.from
      \/ /\ q.pc = "gates" /\ r.pc = "complete"
         /\ r.who = q.who /\ r.task = q.task
      \/ q.pc = "cache" /\ r.pc = "release"
  <2>1. CASE Leave(p)
    <3>1. CASE GoTo(p, "stub")
      BY <1>1, <1>2, <2>1, <3>1 DEF Leave, GoTo, Process, Asking
    <3>2. CASE End(p)
      BY <1>1, <3>2 DEF End
    <3>3. CASE \E t, step : /\ step \in {"autoclose", "stub"}
                           /\ proc' = [proc EXCEPT ![p].pc = step, ![p].prev = t]
      <4>1. PICK t, step : /\ step \in {"autoclose", "stub"}
                           /\ proc' = [proc EXCEPT ![p].pc = step, ![p].prev = t]
        BY <3>3
      <4>2. q.pc = "leave"
        BY <2>1 DEF Leave
      <4>. QED BY <1>1, <1>2, <4>1, <4>2 DEF Process, Asking
    <3>. QED BY <2>1, <3>1, <3>2, <3>3 DEF Leave, LeaveBy
  <2>2. CASE ReadStub(p) \/ ReadFreehand(p)
    BY <1>1, <1>2, <2>2 DEF ReadStub, ReadFreehand, Process, Asking
  <2>3. CASE CacheTask(p)
    BY <1>1, <1>2, <2>3 DEF CacheTask, End, GoTo, Process
  <2>4. CASE CheckGates(p)
    BY <1>1, <1>2, <2>4 DEF CheckGates, End, GoTo, Process
  <2>5. CASE ReleaseOld(p) \/ ClearOwn(p)
    BY <1>1, <2>5 DEF ReleaseOld, ClearOwn, End
  <2>. QED BY <2>1, <2>2, <2>3, <2>4, <2>5
<1>5. r = Idle \/ RequestOf(r) = RequestOf(q)
  <2>. HIDE DEF q, r
  <2>. QED BY <1>2, <1>3, SameRequest DEF Asking
<1>. QED BY <1>1, <1>2, <1>5, OneMoves, GoesOn

\* Validation finds the task to close, and the process asks for its close.
LEMMA ValidateMaps == ASSUME IInv, NEW p \in Proc, Continue(p), Validate(p) PROVE Mapped
<1>. DEFINE q == proc[p]
            r == proc'[p]
<1>1. Owners' = Owners /\ q.pc = "validate" /\ p \in DOMAIN proc
  BY DEF Validate, Owners, IInv, TypeOK
<1>2. q \in Process /\ r \in Process /\ Equipped(q) /\ Equipped(r)
  BY Moved
<1>3. RequestOf(q) = Ownership!NoRequest
  BY <1>1, <1>2, RequestForms DEF Asking
<1>4. r = Idle \/ r.pc \in {"gates", "complete"}
  <2>1. CASE End(p)
    BY <1>1, <2>1 DEF End
  <2>2. CASE ~End(p)
    <3>1. PICK t : proc' = [proc EXCEPT ![p].pc = IF proc[p].force THEN "complete" ELSE "gates",
                                        ![p].task = t]
      BY <2>2 DEF Validate
    <3>. QED BY <1>1, <1>2, <3>1 DEF Process
  <2>. QED BY <2>1, <2>2
<1>5. CASE r = Idle
  BY <1>1, <1>2, <1>5, OneMoves, GoesOn
<1>6. CASE r.pc \in {"gates", "complete"}
  <2>1. RequestOf(r) \in Ownership!Request /\ RequestOf(r).kind = "claim"
    BY <1>2, <1>6, RequestForms
  <2>. QED BY <1>1, <1>3, <2>1, OneMoves, AskMaps
<1>. QED BY <1>4, <1>5, <1>6

\* Filling a stub changes no owner; nor does an edit.
LEMMA FillMaps ==
  ASSUME IInv, NEW p \in Proc, Continue(p), Expand(p) \/ FillFreehand(p)
  PROVE  Mapped
<1>. DEFINE q == proc[p]
            r == proc'[p]
            t == q.task
<1>2. q \in Process /\ r \in Process /\ Equipped(q) /\ Equipped(r) /\ t \in Task
  BY Moved DEF Expand, FillFreehand, Equipped
<1>1. /\ q.pc \in Asking
      /\ IF MayExpand(doc[t], q.seen)
         THEN /\ doc' = [doc EXCEPT ![t] = NewDoc(FALSE)]
              /\ proc' = [proc EXCEPT ![p].pc = "claim", ![p].seen = Idle.seen]
         ELSE proc' = [proc EXCEPT ![p] = Idle] /\ UNCHANGED doc
  <2>1. CASE Expand(p)
    BY <2>1 DEF Expand, End, Asking
  <2>2. CASE FillFreehand(p)
    BY <2>2 DEF FillFreehand, End, Asking
  <2>. QED BY <2>1, <2>2
<1>0. p \in DOMAIN proc
  BY DEF IInv, TypeOK
<1>3. CASE MayExpand(doc[t], q.seen)
  <2>1. LiveOwner(NewDoc(FALSE)) = Nobody /\ LiveOwner(doc[t]) = Nobody
    BY <1>3 DEF LiveOwner, NewDoc, MayExpand
  <2>2. r.pc = "claim" /\ r.who = q.who /\ r.task = q.task /\ r.from = q.from
    BY <1>0, <1>1, <1>2, <1>3 DEF Process
  <2>. HIDE DEF q, r, t
  <2>3. Owners' = Owners
    BY <1>1, <1>2, <1>3, <2>1, OwnersChange
  <2>4. RequestOf(r) = RequestOf(q)
    BY <1>1, <1>2, <2>2, SameRequest DEF Asking
  <2>. QED BY <1>2, <2>3, <2>4, OneMoves, GoesOn DEF q, r
<1>4. CASE ~MayExpand(doc[t], q.seen)
  <2>1. r = Idle /\ Owners' = Owners
    BY <1>0, <1>1, <1>4 DEF Owners
  <2>. QED BY <1>2, <2>1, OneMoves, GoesOn
<1>. QED BY <1>3, <1>4

LEMMA EditMaps ==
  ASSUME IInv, NEW p \in Proc, Continue(p), SpliceBlock(p) \/ ApplyEdit(p)
  PROVE  Mapped
<1>. DEFINE t == proc[p].task
<1>1. t \in Task /\ End(p) /\ t \in DOMAIN doc
  BY Known DEF SpliceBlock, ApplyEdit, Equipped
<1>2. UNCHANGED doc \/ \E n : doc' = [doc EXCEPT ![t] = [doc[t] EXCEPT !.open = n]]
  BY DEF SpliceBlock, ApplyEdit
<1>3. ASSUME NEW n PROVE LiveOwner([doc[t] EXCEPT !.open = n]) = LiveOwner(doc[t])
  <2>1. doc[t] \in Doc
    BY <1>1, Known
  <2>. QED BY <2>1 DEF LiveOwner, NewestOf, Doc
<1>4. Owners' = Owners
  <2>1. CASE UNCHANGED doc
    BY <2>1 DEF Owners
  <2>2. CASE ~UNCHANGED doc
    BY <1>1, <1>2, <1>3, <2>2, OwnersChange
  <2>. QED BY <2>1, <2>2
<1>. QED BY <1>1, <1>4, EndMaps

\* A Write makes its writer the owner again.
LEMMA WriteMaps == ASSUME IInv, NEW p \in Proc, ApplyWrite(p) PROVE Mapped
<1>. DEFINE q == proc[p]
            t == q.task
            s == q.who
            d == q.seen
<1>1. /\ q \in Process /\ Equipped(q) /\ q.pc = "write" /\ t \in Task
      /\ proc' = [proc EXCEPT ![p] = Idle] /\ doc' = [doc EXCEPT ![t] = d]
  BY Known DEF ApplyWrite, Equipped, End
<1>2. LiveOwner(d) = s
  BY <1>1, Known DEF Placed, LiveOwner
<1>3. /\ RequestOf(q).kind = "write" /\ RequestOf(q).task = t /\ RequestOf(q).who = s
      /\ RequestOf(Idle) = Ownership!NoRequest
  BY <1>1, IdleType, RequestForms DEF Asking
<1>. HIDE DEF t, s, d
<1>4. Owners' = [Owners EXCEPT ![t] = s]
  BY <1>1, <1>2, OwnersChange
<1>5. Owners' = [Owners EXCEPT ![RequestOf(q).task] = RequestOf(q).who]
  BY <1>3, <1>4
<1>. QED BY <1>1, <1>3, <1>5, RestoreMaps

\* A new document has no owner; who creates a freehand task asks for it.
LEMMA MakeFolderMaps == ASSUME IInv, NEW p \in Proc, Continue(p), MakeFolder(p) PROVE Mapped
<1>. DEFINE q == proc[p]
            r == proc'[p]
<1>1. q \in Process /\ r \in Process /\ Equipped(q) /\ Equipped(r) /\ q.pc = "mkdir"
  BY Moved DEF MakeFolder
<1>2. Owners' = Owners
  <2>1. UNCHANGED doc \/ \E t \in Folders(0) : doc' = [doc EXCEPT ![t] = q.seen]
    BY DEF MakeFolder
  <2>2. LiveOwner(q.seen) = Nobody
    BY <1>1, Known DEF Placed, LiveOwner
  <2>3. ASSUME NEW t \in Folders(0) PROVE t \in Task /\ LiveOwner(doc[t]) = Nobody
    BY <2>3 DEF Folders, IInv, Unmade, LiveOwner
  <2>4. CASE UNCHANGED doc
    BY <2>4 DEF Owners
  <2>5. CASE ~UNCHANGED doc
    BY <2>1, <2>2, <2>3, <2>5, OwnersChange
  <2>. QED BY <2>4, <2>5
<1>3. RequestOf(q) = Ownership!NoRequest
  BY <1>1, RequestForms DEF Asking
<1>4. r = Idle \/ r.pc = "reread"
  <2>1. p \in DOMAIN proc
    BY DEF IInv, TypeOK
  <2>2. CASE End(p)
    BY <2>1, <2>2 DEF End
  <2>3. CASE \E t : proc' = [proc EXCEPT ![p].pc = "reread", ![p].task = t]
    BY <1>1, <2>1, <2>3 DEF Process
  <2>. QED BY <2>2, <2>3 DEF MakeFolder
<1>5. CASE r = Idle
  BY <1>1, <1>2, <1>5, OneMoves, GoesOn
<1>6. CASE r.pc = "reread"
  <2>1. RequestOf(r) \in Ownership!Request /\ RequestOf(r).kind = "claim"
    BY <1>1, <1>6, RequestForms DEF Asking
  <2>. QED BY <1>1, <1>2, <1>3, <2>1, OneMoves, AskMaps
<1>. QED BY <1>4, <1>5, <1>6

\* A close is the release of an owned task, or repeats one.
LEMMA CloseMaps ==
  ASSUME IInv, NEW p \in Proc, Continue(p), AutoClose(p) \/ Complete(p)
  PROVE  Mapped
<1>. DEFINE q == proc[p]
            r == proc'[p]
            t == IF AutoClose(p) THEN q.prev ELSE q.task
<1>1. /\ q \in Process /\ r \in Process /\ Equipped(q) /\ Equipped(r)
      /\ q.pc \in {"autoclose", "complete"} /\ t \in Task /\ q.who \in Session
      /\ p \in DOMAIN proc
  BY Moved DEF AutoClose, Complete, Equipped, IInv, TypeOK
<1>2. RequestOf(q).kind = "claim" /\ RequestOf(q).who = q.who
  BY <1>1, RequestForms DEF Asking
<1>3. CASE r = Idle /\ UNCHANGED doc
  BY <1>1, <1>3, OneMoves, GoesOn DEF Owners
<1>4. CASE /\ MayComplete(doc[t], q.who) /\ doc' = [doc EXCEPT ![t] = Completed(doc[t])]
           /\ \/ q.pc = "complete" /\ r.pc = "clear"
              \/ /\ q.pc = "autoclose" /\ r.pc = "stub"
                 /\ r.who = q.who /\ r.task = q.task /\ r.from = q.from
  <2>1. RequestOf(r) \in {RequestOf(q), Ownership!NoRequest}
    <3>1. CASE r.pc = "clear"
      BY <1>1, <3>1, RequestForms DEF Asking
    <3>2. CASE r.pc = "stub"
      <4>1. /\ q.pc \in Asking /\ r.pc \in Asking
            /\ r.who = q.who /\ r.task = q.task /\ r.from = q.from
        BY <1>4, <3>2 DEF Asking
      <4>. HIDE DEF q, r
      <4>. QED BY <1>1, <4>1, SameRequest
    <3>. QED BY <1>4, <3>1, <3>2
  <2>2. LiveOwner(Completed(doc[t])) = Nobody
    <3>1. Completed(doc[t]).status = "done"
      BY <1>1, Known, CompletedType
    <3>. QED BY <3>1 DEF LiveOwner
  <2>3. CASE LiveOwner(doc[t]) = q.who
    <3>1. Owners[t] = q.who /\ Owners' = [Owners EXCEPT ![t] = Nobody]
      BY <1>1, <1>4, <2>2, <2>3, OwnersChange
    <3>. HIDE DEF q, r, t
    <3>. QED BY <1>1, <1>2, <2>1, <3>1, OneMoves, ReleaseMaps DEF q, r
  <2>4. CASE LiveOwner(doc[t]) # q.who
    <3>1. LiveOwner(doc[t]) = Nobody
      BY <1>4, <2>4 DEF MayComplete, ClosedBy, LiveOwner
    <3>2. Owners' = Owners
      <4>1. t \in Task /\ doc' = [doc EXCEPT ![t] = Completed(doc[t])]
        BY <1>1, <1>4
      <4>. HIDE DEF t
      <4>. QED BY <2>2, <3>1, <4>1, OwnersChange
    <3>3. CASE RequestOf(r) = RequestOf(q)
      BY <3>2, <3>3, OneMoves, QuietMaps
    <3>4. CASE RequestOf(r) = Ownership!NoRequest
      BY <3>2, <3>4, OneMoves, DropMaps
    <3>. QED BY <2>1, <3>3, <3>4
  <2>. QED BY <2>3, <2>4
<1>5. \/ r = Idle /\ UNCHANGED doc
      \/ /\ MayComplete(doc[t], q.who) /\ doc' = [doc EXCEPT ![t] = Completed(doc[t])]
         /\ \/ q.pc = "complete" /\ r.pc = "clear"
            \/ /\ q.pc = "autoclose" /\ r.pc = "stub"
               /\ r.who = q.who /\ r.task = q.task /\ r.from = q.from
  <2>1. CASE AutoClose(p)
    <3>1. t = q.prev
      BY <2>1
    <3>. HIDE DEF t
    <3>. QED BY <1>1, <2>1, <3>1 DEF AutoClose, End, Process
  <2>2. CASE ~AutoClose(p)
    <3>1. t = q.task /\ Complete(p)
      BY <2>2
    <3>. HIDE DEF t
    <3>. QED BY <1>1, <3>1 DEF Complete, End, GoTo, Process
  <2>. QED BY <2>1, <2>2
<1>. HIDE DEF q, r, t
<1>. QED BY <1>3, <1>4, <1>5

\* A claim is granted against the owner it names, or repeats one.
LEMMA ClaimMaps == ASSUME IInv, NEW p \in Proc, Continue(p), Claim(p) PROVE Mapped
<1>. DEFINE q == proc[p]
            r == proc'[p]
            t == q.task
            s == q.who
<1>1. /\ q \in Process /\ r \in Process /\ Equipped(q) /\ Equipped(r)
      /\ q.pc = "claim" /\ t \in Task /\ s \in Session /\ p \in DOMAIN proc
  BY Moved DEF Claim, Equipped, IInv, TypeOK
<1>2. RequestOf(q) = [kind |-> "claim", who |-> s, task |-> t, from |-> q.from]
  BY <1>1, RequestForms DEF Asking
<1>3. CASE ~MayClaim(doc[t], s, q.from)
  <2>1. r = Idle /\ UNCHANGED doc
    BY <1>1, <1>3 DEF Claim, End
  <2>. QED BY <1>1, <2>1, OneMoves, GoesOn DEF Owners
<1>4. CASE MayClaim(doc[t], s, q.from)
  <2>1. r.pc = "cache" /\ doc' = [doc EXCEPT ![t] = Claimed(doc[t], s)]
    BY <1>1, <1>4 DEF Claim, GoTo, Process
  <2>2. RequestOf(r) = Ownership!NoRequest
    BY <1>1, <2>1, RequestForms DEF Asking
  <2>3. LiveOwner(Claimed(doc[t], s)) = s
    <3>1. /\ Claimed(doc[t], s).status = "in_progress"
          /\ NewestOf(Claimed(doc[t], s)) = s
      BY <1>1, Known, ClaimedType
    <3>. QED BY <3>1 DEF LiveOwner
  <2>4. CASE LiveOwner(doc[t]) = s
    <3>1. Owners' = Owners
      <4>. HIDE DEF t, s
      <4>. QED BY <1>1, <2>1, <2>3, <2>4, OwnersChange
    <3>. QED BY <2>2, <3>1, OneMoves, DropMaps
  <2>5. CASE LiveOwner(doc[t]) # s
    <3>1. LiveOwner(doc[t]) = q.from
      BY <1>4, <2>5 DEF MayClaim
    <3>2. Owners[t] = q.from /\ Owners' = [Owners EXCEPT ![t] = s]
      <4>1. t \in Task /\ doc' = [doc EXCEPT ![t] = Claimed(doc[t], s)]
        BY <1>1, <2>1
      <4>. HIDE DEF q, t, s
      <4>. QED BY <2>3, <3>1, <4>1, OwnersChange, ZenonT(30)
    <3>3. /\ Owners[RequestOf(q).task] = RequestOf(q).from
          /\ Owners' = [Owners EXCEPT ![RequestOf(q).task] = RequestOf(q).who]
      BY <1>2, <3>2
    <3>4. RequestOf(q).kind = "claim"
      BY <1>2
    <3>. QED BY <2>2, <3>3, <3>4, OneMoves, GrantMaps
  <2>. QED BY <2>4, <2>5
<1>. QED BY <1>3, <1>4

LEMMA NextMaps == ASSUME IInv, [Next]_vars PROVE Mapped
<1>1. CASE UNCHANGED vars
  BY <1>1 DEF vars, Mapped, Ownership!vars, RequestOf
<1>2. CASE Next
  <2>1. PICK p \in Proc : \/ Continue(p) \/ Crash(p) \/ NewTask(p)
                          \/ \E s \in Session : Command(p, s)
    BY <1>2 DEF Next
  <2>2. CASE Continue(p)
    BY <2>2, ReadMaps, ValidateMaps, FillMaps, EditMaps, WriteMaps, MakeFolderMaps, CloseMaps,
       ClaimMaps DEF Continue
  <2>3. CASE Crash(p)
    BY <2>3, EndMaps DEF Crash, Owners
  <2>4. CASE NewTask(p)
    <3>1. Owners' = Owners /\ proc[p].pc = "idle" /\ IInv'
      BY <2>4, NewTaskGood DEF NewTask, Owners
    <3>2. PICK r : proc' = [proc EXCEPT ![p] = r] /\ r.pc = "mkdir"
      <4>1. PICK n \in NextNumbers, stub \in BOOLEAN :
              proc' = [proc EXCEPT ![p] = [Idle EXCEPT !.pc = "mkdir", !.number = n,
                                                       !.seen = NewDoc(stub)]]
        BY <2>4 DEF NewTask, Start
      <4>. DEFINE r == [Idle EXCEPT !.pc = "mkdir", !.number = n, !.seen = NewDoc(stub)]
      <4>2. r.pc = "mkdir"
        BY DEF Idle
      <4>. HIDE DEF r
      <4>. QED BY <4>1, <4>2 DEF r
    <3>3. r \in Process /\ Equipped(r)
      BY <3>1, <3>2 DEF IInv, TypeOK
    <3>4. RequestOf(proc[p]) = Ownership!NoRequest /\ RequestOf(r) = Ownership!NoRequest
      BY <3>1, <3>2, <3>3, Known, RequestForms DEF Asking
    <3>. QED BY <3>1, <3>2, <3>4, QuietMaps
  <2>. QED BY <2>1, <2>2, <2>3, <2>4, StartMaps
<1>. QED BY <1>1, <1>2

LEMMA InitMaps == ASSUME Init PROVE Ownership!Init
<1>1. ASSUME NEW t \in Task PROVE LiveOwner(doc[t]) = Nobody
  <2>1. doc[t].status = "pending"
    BY DEF Init, NewDoc
  <2>. QED BY <2>1 DEF LiveOwner
<1>2. ASSUME NEW p \in Proc PROVE RequestOf(proc[p]) = Ownership!NoRequest
  <2>1. proc[p] = Idle
    BY DEF Init
  <2>. QED BY <2>1, IdleType, RequestForms DEF Asking
<1>. QED BY <1>1, <1>2 DEF Ownership!Init

\* The commands keep what TaskOwnership promises: a task changes hands only
\* on a request that names the owner it has at that moment, and is given up
\* only by its owner, for any number of sessions, processes and crashes; only
\* a Write that was admitted for an owner may put that owner back.
THEOREM Refinement == Spec => OwnershipKept
<1>1. Init => Ownership!Init
  BY InitMaps
<1>2. IInv /\ [Next]_vars => [Ownership!Next]_(Ownership!vars)
  BY NextMaps DEF Mapped
<1>. QED BY <1>1, <1>2, Invariance, PTL DEF Spec, OwnershipKept, Ownership!Spec

-----------------------------------------------------------------------------
(* Caches and the memory of claims.                                        *)

\* Who is about to write its cache is remembered as a claimant.
HistoryInv ==
  /\ IInv
  /\ claimants \in [Task -> SUBSET Session]
  /\ CacheWasClaimed
  /\ \A p \in Proc : proc[p].pc = "cache" => proc[p].who \in claimants[proc[p].task]

LEMMA Remembering == HNext => Next /\ Remember
BY DEF HNext, Next, Continue, Command

LEMMA FoldersStay == ASSUME IInv, Next PROVE FoldersKept
<1>1. PICK p \in Proc : \/ Continue(p) \/ Crash(p) \/ NewTask(p)
                        \/ \E s \in Session : Command(p, s)
  BY DEF Next
<1>2. CASE MakeFolder(p)
  BY <1>2 DEF MakeFolder, Folders, FoldersKept, IInv, TypeOK
<1>3. CASE ~MakeFolder(p)
  <2>1. UNCHANGED folder
    BY <1>1, <1>3
       DEF Continue, Leave, AutoClose, ReadStub, Expand, Claim, CacheTask, ReleaseOld, Validate,
           CheckGates, Complete, ClearOwn, ReadFreehand, FillFreehand, SpliceBlock, ApplyEdit,
           ApplyWrite, Crash, NewTask, Command, Work, WorkDone, FreehandTask, FreehandBlock,
           AdmitEdit, AdmitWrite
  <2>. QED BY <2>1 DEF FoldersKept
<1>. QED BY <1>2, <1>3

\* A cache is changed by a publishing command, or cleared.
LEMMA CachesChange ==
  ASSUME IInv, Next
  PROVE  \E p \in Proc :
           \/ UNCHANGED cache
           \/ CacheTask(p)
           \/ \E s : cache' = Cleared(s, proc[p].number)
<1>1. PICK p \in Proc : \/ Continue(p) \/ Crash(p) \/ NewTask(p)
                        \/ \E s \in Session : Command(p, s)
  BY DEF Next
<1>2. CASE CacheTask(p)
  BY <1>2
<1>3. CASE ReleaseOld(p) \/ ClearOwn(p)
  BY <1>3 DEF ReleaseOld, ClearOwn
<1>4. CASE ~(CacheTask(p) \/ ReleaseOld(p) \/ ClearOwn(p))
  BY <1>1, <1>4
     DEF Continue, Leave, AutoClose, ReadStub, Expand, Claim, Validate, CheckGates, Complete,
         MakeFolder, ReadFreehand, FillFreehand, SpliceBlock, ApplyEdit, ApplyWrite, Crash,
         NewTask, Command, Work, WorkDone, FreehandTask, FreehandBlock, AdmitEdit, AdmitWrite
<1>. QED BY <1>2, <1>3, <1>4

\* A command comes to write its cache from its claim only.
LEMMA ClaimsFirst ==
  ASSUME IInv, NEW p \in Proc, Continue(p), proc'[p].pc = "cache"
  PROVE  /\ proc[p].task \in Task /\ proc[p].who \in Session
         /\ proc'[p].task = proc[p].task /\ proc'[p].who = proc[p].who
         /\ doc' = [doc EXCEPT ![proc[p].task] = Claimed(doc[proc[p].task], proc[p].who)]
<1>0. p \in DOMAIN proc /\ proc[p] \in Process /\ Equipped(proc[p])
  BY Known DEF IInv, TypeOK
<1>1. ~End(p)
  BY <1>0, IdleType DEF End
<1>2. ASSUME NEW pc, pc # "cache", NEW x
      PROVE  /\ ~End(p)
             /\ proc' # [proc EXCEPT ![p].pc = pc]
             /\ proc' # [proc EXCEPT ![p].pc = pc, ![p].prev = x]
             /\ proc' # [proc EXCEPT ![p].pc = pc, ![p].task = x]
             /\ proc' # [proc EXCEPT ![p].pc = pc, ![p].seen = x]
  BY <1>0, <1>2, <1>1 DEF Process
<1>3. CASE Claim(p)
  <2>1. proc[p].pc = "claim"
    BY <1>3 DEF Claim
  <2>2. proc[p].task \in Task /\ proc[p].who \in Session
    BY <1>0, <2>1 DEF Equipped
  <2>3. /\ doc' = [doc EXCEPT ![proc[p].task] = Claimed(doc[proc[p].task], proc[p].who)]
        /\ proc' = [proc EXCEPT ![p].pc = "cache"]
    BY <1>3, <1>1 DEF Claim, GoTo
  <2>. QED BY <1>0, <2>2, <2>3 DEF Process
<1>4. CASE Leave(p)
  <2>1. CASE GoTo(p, "stub")
    BY <1>2, <2>1 DEF GoTo
  <2>2. CASE \E t, step : /\ step \in {"autoclose", "stub"}
                         /\ proc' = [proc EXCEPT ![p].pc = step, ![p].prev = t]
    BY <1>2, <2>2
  <2>. QED BY <1>4, <1>1, <2>1, <2>2 DEF Leave, LeaveBy
<1>5. CASE AutoClose(p) \/ Expand(p) \/ FillFreehand(p) \/ Complete(p)
  BY <1>2, <1>5 DEF AutoClose, Expand, FillFreehand, Complete, GoTo
<1>6. CASE ReadStub(p) \/ ReadFreehand(p)
  BY <1>2, <1>6 DEF ReadStub, ReadFreehand
<1>7. CASE CacheTask(p) \/ Validate(p) \/ CheckGates(p)
  BY <1>2, <1>7 DEF CacheTask, Validate, CheckGates, GoTo
<1>8. CASE MakeFolder(p)
  BY <1>2, <1>8 DEF MakeFolder
<1>9. CASE ReleaseOld(p) \/ ClearOwn(p) \/ SpliceBlock(p) \/ ApplyEdit(p) \/ ApplyWrite(p)
  BY <1>2, <1>9 DEF ReleaseOld, ClearOwn, SpliceBlock, ApplyEdit, ApplyWrite
<1>. QED BY <1>3, <1>4, <1>5, <1>6, <1>7, <1>8, <1>9 DEF Continue

\* What a step does to the memory.
LEMMA Remembers ==
  ASSUME IInv', Remember, claimants \in [Task -> SUBSET Session]
  PROVE  /\ claimants' \in [Task -> SUBSET Session]
         /\ \A t \in Task : claimants[t] \subseteq claimants'[t]
         /\ \A t \in Task : Recorded(doc'[t]) \subseteq claimants'[t]
<1>1. ASSUME NEW t \in Task PROVE Recorded(doc'[t]) \subseteq Session
  <2>1. doc'[t].sessions \in Seq(Session)
    BY DEF IInv, TypeOK, DocsOK, Doc
  <2>. QED BY <2>1 DEF Recorded
<1>. QED BY <1>1 DEF Remember

LEMMA HistoryNext ==
  ASSUME HistoryInv, Next, Remember
  PROVE  HistoryInv'
<1>1. IInv /\ IInv' /\ FoldersKept
  BY NextInv, FoldersStay DEF HistoryInv
<1>2. /\ claimants' \in [Task -> SUBSET Session]
      /\ \A t \in Task : claimants[t] \subseteq claimants'[t]
      /\ \A t \in Task : Recorded(doc'[t]) \subseteq claimants'[t]
  BY <1>1, Remembers DEF HistoryInv
<1>3. CacheWasClaimed'
  <2>. SUFFICES ASSUME NEW s \in Session, cache'[s] # 0
                PROVE  \E t \in Task : folder'[t].number = cache'[s] /\ s \in claimants'[t]
    BY DEF CacheWasClaimed, Folders
  <2>1. PICK p \in Proc : \/ UNCHANGED cache
                          \/ CacheTask(p)
                          \/ \E u : cache' = Cleared(u, proc[p].number)
    BY <1>1, CachesChange
  <2>2. CASE cache'[s] = cache[s]
    <3>1. PICK t \in Task : folder[t].number = cache[s] /\ s \in claimants[t]
      BY <2>2 DEF HistoryInv, CacheWasClaimed, Folders
    <3>2. folder'[t] = folder[t]
      BY <1>1, <2>2, <3>1 DEF FoldersKept
    <3>. QED BY <1>2, <2>2, <3>1, <3>2
  <2>3. CASE cache'[s] # cache[s]
    <3>1. CacheTask(p)
      BY <2>1, <2>3, <1>1 DEF Cleared, IInv, TypeOK
    <3>. DEFINE t == proc[p].task
    <3>2. /\ proc[p].pc = "cache" /\ cache' = [cache EXCEPT ![proc[p].who] = proc[p].number]
          /\ UNCHANGED folder
      BY <3>1 DEF CacheTask
    <3>3. /\ t \in Task /\ folder[t].number = proc[p].number
      BY <1>1, <3>2, Known DEF Equipped, Placed, Claiming
    <3>4. s = proc[p].who /\ cache'[s] = proc[p].number
      BY <1>1, <2>3, <3>2 DEF IInv, TypeOK
    <3>5. s \in claimants[t]
      BY <3>2, <3>4 DEF HistoryInv
    <3>. QED BY <1>2, <3>2, <3>3, <3>4, <3>5
  <2>. QED BY <2>2, <2>3
<1>4. ASSUME NEW q \in Proc, proc'[q].pc = "cache"
      PROVE  proc'[q].who \in claimants'[proc'[q].task]
  <2>1. PICK p \in Proc : \/ Continue(p) \/ Crash(p) \/ NewTask(p)
                          \/ \E s \in Session : Command(p, s)
    BY DEF Next
  <2>2. CASE proc'[q] = proc[q]
    <3>1. proc[q].task \in Task /\ proc[q].who \in claimants[proc[q].task]
      BY <1>1, <1>4, <2>2, Known DEF HistoryInv, Equipped
    <3>. QED BY <1>2, <2>2, <3>1
  <2>3. CASE q = p /\ Continue(p)
    <3>. DEFINE t == proc[p].task
                s == proc[p].who
                d == Claimed(doc[t], s)
    <3>1. /\ t \in Task /\ s \in Session /\ proc'[q].task = t /\ proc'[q].who = s
          /\ doc' = [doc EXCEPT ![t] = d]
      BY <1>1, <1>4, <2>3, ClaimsFirst
    <3>2. /\ d \in Doc /\ d.sessions # <<>> /\ NewestOf(d) = s
      BY <1>1, <3>1, Known, ClaimedType
    <3>. HIDE DEF d
    <3>3. doc'[t] = d
      BY <1>1, <3>1 DEF IInv, TypeOK, DocsOK
    <3>4. s \in Recorded(d)
      <4>1. Len(d.sessions) \in 1..Len(d.sessions)
        BY <3>2 DEF Doc
      <4>. QED BY <3>2, <4>1 DEF Recorded, NewestOf
    <3>. QED BY <1>2, <3>1, <3>3, <3>4
  <2>4. CASE q # p /\ Continue(p)
    BY <1>1, <2>2, <2>4, OneMoves DEF IInv, TypeOK
  <2>5. CASE ~Continue(p)
    <3>1. PICK r : proc' = [proc EXCEPT ![p] = r] /\ r.pc # "cache"
      <4>1. CASE Crash(p)
        BY <4>1, IdleType DEF Crash, End
      <4>2. CASE NewTask(p)
        <5>1. PICK n \in NextNumbers, stub \in BOOLEAN :
                proc' = [proc EXCEPT ![p] = [Idle EXCEPT !.pc = "mkdir", !.number = n,
                                                         !.seen = NewDoc(stub)]]
          BY <4>2 DEF NewTask, Start
        <5>. DEFINE u == [Idle EXCEPT !.pc = "mkdir", !.number = n, !.seen = NewDoc(stub)]
        <5>2. u.pc = "mkdir"
          BY DEF Idle
        <5>. HIDE DEF u
        <5>. QED BY <5>1, <5>2 DEF u
      <4>3. ASSUME NEW s \in Session, Command(p, s)
            PROVE  proc' = [proc EXCEPT ![p] = proc'[p]] /\ proc'[p].pc # "cache"
        BY <1>1, <4>3, StartsAt
      <4>. QED BY <2>1, <2>5, <4>1, <4>2, <4>3
    <3>2. q # p
      BY <1>1, <1>4, <3>1 DEF IInv, TypeOK
    <3>. QED BY <1>1, <2>2, <3>1, <3>2 DEF IInv, TypeOK
  <2>. QED BY <2>3, <2>4, <2>5
<1>. QED BY <1>1, <1>2, <1>3, <1>4 DEF HistoryInv

\* A navigation cache names only a task number its session claimed
\* (claim_task_document, then write_navigation_cache), whatever transfers,
\* crashes and late edits there were.
THEOREM CachesClaimed == HSpec => []CacheWasClaimed
<1>1. HInit => HistoryInv
  <2>. SUFFICES ASSUME HInit PROVE HistoryInv
    OBVIOUS
  <2>1. IInv
    BY InitInv DEF HInit
  <2>2. \A p \in Proc : proc[p].pc # "cache"
    BY IdleType DEF HInit, Init
  <2>. QED BY <2>1, <2>2 DEF HInit, Init, HistoryInv, CacheWasClaimed
<1>2. HistoryInv /\ [HNext]_hvars => HistoryInv'
  <2>1. CASE UNCHANGED hvars
    BY <2>1, NextInv DEF hvars, vars, HistoryInv, CacheWasClaimed, Folders
  <2>. QED BY <2>1, HistoryNext, Remembering
<1>3. HistoryInv => CacheWasClaimed
  BY DEF HistoryInv
<1>. QED BY <1>1, <1>2, <1>3, PTL DEF HSpec

-----------------------------------------------------------------------------
(* Commands in turn.                                                       *)

\* All the other processes rest.
Alone(p) == \A q \in Proc : q # p => proc[q].pc = "idle"

\* The step is p's, and it forces nothing.
Turn(p) ==
  /\ Alone(p)
  /\ \A q \in Proc : q # p => proc'[q] = proc[q]
  /\ \A q \in Proc : ~proc'[q].force

Owned(d, s) == {t \in Task : LiveOwner(d[t]) = s}

\* Who owns a task has its number in the cache, or is about to write it.
OwnersCached(r, f, d, c) ==
  \A s \in Session : \A t \in Owned(d, s) :
    c[s] = f[t].number \/ (r.pc = "cache" /\ r.who = s /\ r.task = t)

\* The steps of a work command after it left the task before.
Leaving == {"stub", "expand", "reread", "fill", "claim", "cache"}

\* What a command has found out still holds at its later steps: the task
\* left is no longer the session's, the task to close is its own, a
\* transferred task is the claimant's, a new number is the largest, a Write
\* holds the owner that the task has.
Found(r, f, d, c) ==
  /\ r.pc \in Leaving => Owned(d, r.who) \subseteq {r.task}
  /\ r.pc = "mkdir" => /\ r.who # Nobody => Owned(d, r.who) = {}
                       /\ \A t \in Task : f[t].number < r.number
  /\ r.pc = "autoclose" => f[r.prev].number = c[r.who] /\ c[r.who] # 0
  /\ r.pc \in {"gates", "complete", "clear"} => r.number # 0 /\ f[r.task].number = r.number
  /\ r.pc = "write" => LiveOwner(d[r.task]) = r.who
  /\ r.pc = "clear" => d[r.task].status = "done"
  /\ r.pc \in {"cache", "release"} => LiveOwner(d[r.task]) = r.who
  /\ r.pc = "release" => r.from # r.who

Orderly(r, f, d, c) == ~r.force /\ OwnersCached(r, f, d, c) /\ Found(r, f, d, c)

\* The inductive invariant of commands in turn.
SerialInv ==
  /\ IInv
  /\ NumbersApart(folder)
  /\ \A p \in Proc : Alone(p) => Orderly(proc[p], folder, doc, cache)

\* A step of the one process that runs, which the earlier invariant allows.
LEMMA OrderlyStep ==
  ASSUME SerialInv, IInv', NEW p \in Proc, Turn(p), NEW r, proc'[p] = r,
         NumbersApart(folder'), Orderly(r, folder', doc', cache')
  PROVE  SerialInv'
<1>1. ASSUME NEW q \in Proc, Alone(q)', q # p
      PROVE  Orderly(proc'[q], folder', doc', cache')
  <2>. DEFINE u == proc'[q]
  <2>1. u.pc = "idle" /\ ~u.force /\ r.pc = "idle"
    BY <1>1 DEF Turn, Alone
  <2>. HIDE DEF u
  <2>2. OwnersCached(u, folder', doc', cache')
    BY <2>1 DEF Orderly, OwnersCached
  <2>3. Found(u, folder', doc', cache')
    BY <2>1 DEF Found, Leaving
  <2>. QED BY <2>1, <2>2, <2>3 DEF Orderly, u
<1>. QED BY <1>1 DEF SerialInv

\* The process and its successor, as the invariant knows them.
LEMMA Around ==
  ASSUME SerialInv, IInv', NEW p \in Proc, Turn(p)
  PROVE  /\ p \in DOMAIN proc
         /\ proc[p] \in Process /\ proc'[p] \in Process
         /\ Equipped(proc[p]) /\ Equipped(proc'[p])
         /\ Placed(proc[p], folder) /\ Placed(proc'[p], folder')
         /\ NumbersApart(folder) /\ Orderly(proc[p], folder, doc, cache)
         /\ \A t \in Task : doc[t] \in Doc /\ doc'[t] \in Doc
         /\ \A t \in Task : folder[t].number \in Nat /\ folder'[t].number \in Nat
         /\ cache \in [Session -> Nat] /\ cache' \in [Session -> Nat]
         /\ doc \in [Task -> Doc] /\ doc' \in [Task -> Doc]
BY DEF SerialInv, IInv, TypeOK, DocsOK, Turn

\* A task with an owner has a folder, and one document of it.
LEMMA OwnedTask ==
  ASSUME IInv, NEW s \in Session, NEW t \in Owned(doc, s)
  PROVE  t \in Task /\ doc[t].status = "in_progress" /\ folder[t].number # 0
BY ConstantsAssumption DEF Owned, LiveOwner, IInv, Unmade

\* Nothing is asked for, and no document, folder or cache changes.
LEMMA RestsOrderly ==
  ASSUME SerialInv, IInv', NEW p \in Proc, Turn(p), UNCHANGED <<doc, folder, cache>>,
         proc[p].pc # "cache", ~proc'[p].force,
         proc'[p].pc \in {"idle", "leave", "validate", "splice", "edit", "write"},
         proc'[p].pc = "write" => LiveOwner(doc[proc'[p].task]) = proc'[p].who
  PROVE  NumbersApart(folder') /\ Orderly(proc'[p], folder', doc', cache')
<1>. DEFINE q == proc[p]
            r == proc'[p]
<1>1. Orderly(q, folder, doc, cache) /\ NumbersApart(folder)
  BY Around
<1>2. OwnersCached(r, folder, doc, cache)
  <2>. HIDE DEF r
  <2>. QED BY <1>1 DEF Orderly, OwnersCached
<1>3. Found(r, folder, doc, cache)
  BY DEF Found, Leaving
<1>. HIDE DEF r
<1>. QED BY <1>1, <1>2, <1>3 DEF Orderly, r

LEMMA EndOrderly ==
  ASSUME SerialInv, IInv', NEW p \in Proc, Turn(p), End(p), proc[p].pc # "cache",
         UNCHANGED <<doc, folder, cache>>
  PROVE  SerialInv'
<1>1. proc'[p] = Idle
  BY Around DEF End
<1>2. proc'[p].pc = "idle" /\ ~proc'[p].force
  BY <1>1, IdleType DEF Idle
<1>. QED BY <1>2, OrderlyStep, RestsOrderly

-----------------------------------------------------------------------------
(* Commands start.                                                         *)

LEMMA StartOrderly ==
  ASSUME SerialInv, IInv', NEW p \in Proc, Turn(p), NEW s \in Session,
         \/ \E n \in Nat : \E from \in Named : Work(p, s, n, from)
         \/ WorkDone(p, s) \/ FreehandBlock(p, s) \/ AdmitEdit(p, s) \/ AdmitWrite(p, s)
  PROVE  SerialInv'
<1>1. /\ UNCHANGED <<doc, folder, cache>> /\ proc[p].pc = "idle"
  BY DEF Work, WorkDone, FreehandBlock, AdmitEdit, AdmitWrite, Free
<1>2. ~proc'[p].force
  BY DEF Turn
<1>3. /\ proc'[p].pc \in {"leave", "validate", "splice", "edit", "write"} /\ ~proc'[p].force
      /\ proc'[p].pc = "write" => LiveOwner(doc[proc'[p].task]) = proc'[p].who
  <2>1. ASSUME NEW n \in Nat, NEW from \in Named, Work(p, s, n, from)
        PROVE  proc'[p].pc = "leave"
    BY <2>1, Around, ZenonT(30) DEF Work, Start, Idle
  <2>2. CASE WorkDone(p, s)
    BY <1>2, <2>2, Around DEF WorkDone, Start, Idle
  <2>3. CASE FreehandBlock(p, s)
    BY <2>3, Around DEF FreehandBlock, Start, Idle
  <2>4. CASE AdmitEdit(p, s)
    BY <2>4, Around DEF AdmitEdit, Start, Idle
  <2>5. CASE AdmitWrite(p, s)
    <3>1. /\ proc'[p].pc = "write" => LiveOwner(doc[proc'[p].task]) = proc'[p].who
      BY <2>5, StartsAt DEF Command, SerialInv
    <3>2. proc'[p].pc = "write" /\ ~proc'[p].force
      BY <2>5, Around DEF AdmitWrite, Start, Idle
    <3>. QED BY <3>1, <3>2
  <2>. QED BY <1>2, <2>1, <2>2, <2>3, <2>4, <2>5
<1>. QED BY <1>1, <1>3, OrderlyStep, RestsOrderly

LEMMA CreateOrderly ==
  ASSUME SerialInv, IInv', NEW p \in Proc, Turn(p),
         NewTask(p) \/ \E s \in Session : FreehandTask(p, s)
  PROVE  SerialInv'
<1>. DEFINE q == proc[p]
            r == proc'[p]
<1>1. UNCHANGED <<doc, folder, cache>> /\ q.pc = "idle"
  BY DEF NewTask, FreehandTask, Free
<1>2. /\ r.pc = "mkdir" /\ ~r.force
      /\ \A t \in Task : folder[t].number < r.number
      /\ r.who = Nobody \/ (r.who \in Session /\ cache[r.who] = 0)
  <2>0. \A n \in NextNumbers : \A t \in Task : folder[t].number < n
    BY DEF NextNumbers
  <2>1. CASE NewTask(p)
    <3>1. PICK n \in NextNumbers, stub \in BOOLEAN :
            proc' = [proc EXCEPT ![p] = [Idle EXCEPT !.pc = "mkdir", !.number = n,
                                                     !.seen = NewDoc(stub)]]
      BY <2>1 DEF NewTask, Start
    <3>2. r.pc = "mkdir" /\ ~r.force /\ r.number = n /\ r.who = Nobody
      BY <3>1, Around DEF Idle
    <3>. HIDE DEF r
    <3>. QED BY <2>0, <3>2
  <2>2. ASSUME NEW s \in Session, FreehandTask(p, s)
        PROVE  /\ r.pc = "mkdir" /\ ~r.force
               /\ \A t \in Task : folder[t].number < r.number
               /\ r.who \in Session /\ cache[r.who] = 0
    <3>1. PICK n \in NextNumbers :
            proc' = [proc EXCEPT ![p] = [Idle EXCEPT !.pc = "mkdir", !.who = s, !.number = n]]
      BY <2>2 DEF FreehandTask, Start
    <3>2. r.pc = "mkdir" /\ ~r.force /\ r.number = n /\ r.who = s
      BY <3>1, Around DEF Idle
    <3>. HIDE DEF r
    <3>. QED BY <2>0, <2>2, <3>2 DEF FreehandTask
  <2>. QED BY <2>1, <2>2
<1>3. Orderly(q, folder, doc, cache) /\ NumbersApart(folder) /\ IInv
  BY Around DEF SerialInv
<1>. HIDE DEF q, r
<1>4. OwnersCached(r, folder, doc, cache)
  BY <1>1, <1>3 DEF Orderly, OwnersCached
<1>5. r.who # Nobody => Owned(doc, r.who) = {}
  BY <1>1, <1>2, <1>3, OwnedTask DEF Orderly, OwnersCached
<1>6. Orderly(r, folder, doc, cache)
  BY <1>2, <1>4, <1>5 DEF Orderly, Found, Leaving
<1>. QED BY <1>1, <1>3, <1>6, OrderlyStep DEF r

-----------------------------------------------------------------------------
(* pb-tasks work.                                                          *)

\* A task is left when it is done, the one asked for, or about to be closed.
LEMMA LeaveOrderly ==
  ASSUME SerialInv, IInv', NEW p \in Proc, Turn(p), Leave(p)
  PROVE  SerialInv'
<1>. DEFINE q == proc[p]
            r == proc'[p]
            n == cache[q.who]
<1>1. /\ UNCHANGED <<doc, folder, cache>> /\ q.pc = "leave"
      /\ q \in Process /\ q.who \in Session /\ q.task \in Task /\ p \in DOMAIN proc
      /\ q.number > 0 /\ folder[q.task].number = q.number
      /\ NumbersApart(folder) /\ Orderly(q, folder, doc, cache) /\ IInv
  BY Around DEF Leave, Equipped, Placed, Asking, SerialInv
<1>2. ~q.force /\ \A t \in Owned(doc, q.who) : folder[t].number = n
  BY <1>1 DEF Orderly, OwnersCached
<1>3. CASE End(p)
  BY <1>1, <1>3, EndOrderly
<1>4. CASE /\ n \in {0, q.number} \/ Folders(n) = {}
           /\ GoTo(p, "stub")
  <2>1. /\ r.pc = "stub" /\ r.who = q.who /\ r.task = q.task /\ r.force = q.force
    BY <1>1, <1>4 DEF GoTo, Process
  <2>. HIDE DEF q, r
  <2>2. Owned(doc, q.who) \subseteq {q.task}
    <3>. SUFFICES ASSUME NEW t \in Owned(doc, q.who) PROVE t = q.task
      OBVIOUS
    <3>1. t \in Task /\ folder[t].number = n /\ n # 0
      BY <1>1, <1>2, OwnedTask
    <3>2. t \in Folders(n)
      BY <3>1 DEF Folders
    <3>3. n = q.number
      BY <1>4, <3>1, <3>2
    <3>. QED BY <1>1, <3>1, <3>3 DEF NumbersApart
  <2>3. Orderly(r, folder, doc, cache)
    BY <1>1, <2>1, <2>2 DEF Orderly, OwnersCached, Found, Leaving
  <2>. QED BY <1>1, <2>3, OrderlyStep DEF r
<1>5. ASSUME n \notin {0, q.number}, NEW t \in Folders(n), LeaveBy(doc[t], q.force) # "idle",
             proc' = [proc EXCEPT ![p].pc = LeaveBy(doc[t], q.force),
                                  ![p].prev = IF LeaveBy(doc[t], q.force) = "autoclose" THEN t ELSE @]
      PROVE  SerialInv'
  <2>. DEFINE step == LeaveBy(doc[t], q.force)
  <2>1. t \in Task /\ folder[t].number = n
    BY DEF Folders
  <2>2. \/ step = "stub" /\ doc[t].status = "done"
        \/ step = "autoclose" /\ doc[t].open = 0 /\ doc[t].status # "done"
    BY <1>2, <1>5 DEF LeaveBy
  <2>. HIDE DEF step
  <2>3. /\ r.pc = step /\ r.who = q.who /\ r.task = q.task /\ r.force = q.force
        /\ step = "autoclose" => r.prev = t
    BY <1>1, <1>5, <2>2 DEF Process, step
  <2>. HIDE DEF q, r
  <2>4. ASSUME step = "stub" PROVE Owned(doc, q.who) = {}
    <3>. SUFFICES ASSUME NEW u \in Owned(doc, q.who) PROVE FALSE
      OBVIOUS
    <3>1. u \in Task /\ folder[u].number = n /\ doc[u].status = "in_progress"
      BY <1>1, <1>2, OwnedTask
    <3>2. u = t
      BY <1>5, <2>1, <3>1, <1>1 DEF NumbersApart
    <3>. QED BY <2>2, <2>4, <3>1, <3>2
  <2>5. Orderly(r, folder, doc, cache)
    BY <1>1, <1>5, <2>1, <2>2, <2>3, <2>4 DEF Orderly, OwnersCached, Found, Leaving
  <2>. QED BY <1>1, <2>5, OrderlyStep DEF r
<1>. HIDE DEF n
<1>. QED BY <1>3, <1>4, <1>5 DEF Leave, n

\* A change of one document that gives it no other owner.
LEMMA OwnedAlike ==
  ASSUME NEW t \in Task, NEW d, doc \in [Task -> Doc],
         doc' = [doc EXCEPT ![t] = d], LiveOwner(d) = LiveOwner(doc[t])
  PROVE  \A s : Owned(doc', s) = Owned(doc, s)
<1>1. \A u \in Task : LiveOwner(doc'[u]) = LiveOwner(doc[u])
  OBVIOUS
<1>. QED BY <1>1 DEF Owned

\* A task that is done is nobody's.
LEMMA OwnedDone ==
  ASSUME NEW t \in Task, NEW d, doc \in [Task -> Doc],
         doc' = [doc EXCEPT ![t] = d], d.status = "done"
  PROVE  \A s \in Session : Owned(doc', s) = Owned(doc, s) \ {t}
<1>1. \A u \in Task : u # t => LiveOwner(doc'[u]) = LiveOwner(doc[u])
  OBVIOUS
<1>2. doc'[t] = d /\ LiveOwner(d) = Nobody
  BY DEF LiveOwner
<1>. QED BY <1>1, <1>2, ConstantsAssumption DEF Owned

LEMMA AutoCloseOrderly ==
  ASSUME SerialInv, IInv', NEW p \in Proc, Turn(p), AutoClose(p)
  PROVE  SerialInv'
<1>. DEFINE q == proc[p]
            r == proc'[p]
            t == q.prev
<1>1. /\ UNCHANGED <<folder, cache>> /\ q.pc = "autoclose" /\ t \in Task
      /\ q \in Process /\ q.who \in Session /\ p \in DOMAIN proc
      /\ NumbersApart(folder) /\ Orderly(q, folder, doc, cache) /\ IInv
      /\ doc \in [Task -> Doc] /\ doc[t] \in Doc
  BY Around DEF AutoClose, Equipped, SerialInv
<1>2. CASE ~MayComplete(doc[t], q.who)
  BY <1>1, <1>2, EndOrderly DEF AutoClose
<1>3. CASE MayComplete(doc[t], q.who)
  <2>1. /\ r.pc = "stub" /\ r.who = q.who /\ r.task = q.task /\ r.force = q.force
        /\ doc' = [doc EXCEPT ![t] = Completed(doc[t])]
    BY <1>1, <1>3 DEF AutoClose, Process
  <2>. HIDE DEF q, r, t
  <2>2. \A s \in Session : Owned(doc', s) = Owned(doc, s) \ {t}
    BY <1>1, <2>1, CompletedType, OwnedDone
  <2>3. folder[t].number = cache[q.who] /\ cache[q.who] # 0
    BY <1>1 DEF Orderly, Found, t
  <2>4. \A u \in Owned(doc, q.who) : u \in Task /\ folder[u].number = cache[q.who]
    BY <1>1, OwnedTask DEF Orderly, OwnersCached
  <2>5. Owned(doc', q.who) = {}
    BY <1>1, <2>2, <2>3, <2>4 DEF NumbersApart
  <2>6. Orderly(r, folder, doc', cache)
    BY <1>1, <2>1, <2>2, <2>5 DEF Orderly, OwnersCached, Found, Leaving
  <2>. QED BY <1>1, <2>6, OrderlyStep DEF r
<1>. QED BY <1>2, <1>3

\* The steps between, which change nothing of what is owned.
LEMMA BetweenOrderly ==
  ASSUME SerialInv, IInv', NEW p \in Proc, Turn(p), NEW to \in {"expand", "fill", "claim"},
         proc[p].pc \in {"stub", "expand", "reread", "fill"}, proc'[p].pc = to,
         proc'[p].who = proc[p].who, proc'[p].task = proc[p].task,
         proc'[p].force = proc[p].force, UNCHANGED <<folder, cache>>,
         \A s : Owned(doc', s) = Owned(doc, s)
  PROVE  SerialInv'
<1>. DEFINE q == proc[p]
            r == proc'[p]
<1>1. NumbersApart(folder) /\ Orderly(q, folder, doc, cache)
  BY Around
<1>. HIDE DEF r, q
<1>2. r.pc = to /\ q.pc \in {"stub", "expand", "reread", "fill"} /\ r.who = q.who /\ r.task = q.task
      /\ r.force = q.force
  BY DEF q, r
<1>3. Orderly(r, folder, doc', cache)
  BY <1>1, <1>2 DEF Orderly, OwnersCached, Found, Leaving
<1>. QED BY <1>1, <1>3, OrderlyStep DEF r

LEMMA FillOrderly ==
  ASSUME SerialInv, IInv', NEW p \in Proc, Turn(p),
         ReadStub(p) \/ ReadFreehand(p) \/ Expand(p) \/ FillFreehand(p)
  PROVE  SerialInv'
<1>. DEFINE q == proc[p]
            t == q.task
<1>1. /\ UNCHANGED <<folder, cache>> /\ q.pc \in {"stub", "expand", "reread", "fill"}
      /\ t \in Task
      /\ q \in Process /\ p \in DOMAIN proc /\ doc \in [Task -> Doc] /\ doc[t] \in Doc
  BY Around DEF ReadStub, ReadFreehand, Expand, FillFreehand, Equipped
<1>2. CASE ReadStub(p) \/ ReadFreehand(p)
  <2>1. /\ proc'[p].pc \in {"expand", "fill", "claim"} /\ proc'[p].who = q.who
        /\ proc'[p].task = q.task /\ proc'[p].force = q.force
    BY <1>1, <1>2 DEF ReadStub, ReadFreehand, Process
  <2>2. \A s : Owned(doc', s) = Owned(doc, s)
    BY <1>2 DEF ReadStub, ReadFreehand
  <2>. QED BY <1>1, <2>1, <2>2, BetweenOrderly
<1>3. CASE Expand(p) \/ FillFreehand(p)
  <2>1. CASE ~MayExpand(doc[t], q.seen)
    BY <1>1, <1>3, <2>1, EndOrderly DEF Expand, FillFreehand
  <2>2. CASE MayExpand(doc[t], q.seen)
    <3>1. /\ doc' = [doc EXCEPT ![t] = NewDoc(FALSE)]
          /\ proc' = [proc EXCEPT ![p].pc = "claim", ![p].seen = Idle.seen]
      BY <1>3, <2>2 DEF Expand, FillFreehand
    <3>2. LiveOwner(NewDoc(FALSE)) = Nobody /\ LiveOwner(doc[t]) = Nobody
      BY <2>2 DEF MayExpand, LiveOwner, NewDoc
    <3>3. \A s : Owned(doc', s) = Owned(doc, s)
      <4>. HIDE DEF t
      <4>. QED BY <1>1, <3>1, <3>2, OwnedAlike
    <3>4. /\ proc'[p].pc = "claim" /\ proc'[p].who = q.who
          /\ proc'[p].task = q.task /\ proc'[p].force = q.force
      BY <1>1, <3>1 DEF Process
    <3>. QED BY <1>1, <3>3, <3>4, BetweenOrderly
  <2>. QED BY <2>1, <2>2
<1>. QED BY <1>2, <1>3

\* A claim adds its task to what the claimant owns, and takes it from others.
LEMMA ClaimOrderly ==
  ASSUME SerialInv, IInv', NEW p \in Proc, Turn(p), Claim(p)
  PROVE  SerialInv'
<1>. DEFINE q == proc[p]
            r == proc'[p]
            t == q.task
<1>1. /\ UNCHANGED <<folder, cache>> /\ q.pc = "claim" /\ t \in Task
      /\ q \in Process /\ q.who \in Session /\ p \in DOMAIN proc
      /\ NumbersApart(folder) /\ Orderly(q, folder, doc, cache) /\ IInv
      /\ doc \in [Task -> Doc] /\ doc[t] \in Doc
      /\ doc[t].status = "in_progress" => doc[t].sessions # <<>>
  BY Around DEF Claim, Equipped, SerialInv, IInv, TypeOK, DocsOK
<1>2. CASE ~MayClaim(doc[t], q.who, q.from)
  BY <1>1, <1>2, EndOrderly DEF Claim
<1>3. CASE MayClaim(doc[t], q.who, q.from)
  <2>1. /\ r.pc = "cache" /\ r.who = q.who /\ r.task = q.task /\ r.force = q.force
        /\ doc' = [doc EXCEPT ![t] = Claimed(doc[t], q.who)]
    BY <1>1, <1>3 DEF Claim, GoTo, Process
  <2>2. LiveOwner(Claimed(doc[t], q.who)) = q.who
    <3>. HIDE DEF q, t
    <3>. QED BY <1>1, ClaimedType DEF LiveOwner
  <2>3. r.task = t /\ LiveOwner(doc'[t]) = q.who
    BY <1>1, <2>1, <2>2
  <2>. HIDE DEF q, r, t
  <2>4. \A s : \A u \in Owned(doc', s) : (u = t /\ s = q.who) \/ (u # t /\ u \in Owned(doc, s))
    BY <1>1, <2>1, <2>2 DEF Owned
  <2>5. Owned(doc, q.who) \subseteq {t}
    BY <1>1 DEF Orderly, Found, Leaving, t
  <2>6. Orderly(r, folder, doc', cache)
    BY <1>1, <2>1, <2>3, <2>4, <2>5 DEF Orderly, OwnersCached, Found, Leaving
  <2>. QED BY <1>1, <2>6, OrderlyStep DEF r
<1>. QED BY <1>2, <1>3

\* The cache is written for the one task the claimant owns.
LEMMA CacheOrderly ==
  ASSUME SerialInv, IInv', NEW p \in Proc, Turn(p), CacheTask(p)
  PROVE  SerialInv'
<1>. DEFINE q == proc[p]
            r == proc'[p]
            t == q.task
<1>1. /\ UNCHANGED <<doc, folder>> /\ q.pc = "cache" /\ t \in Task
      /\ q \in Process /\ q.who \in Session /\ p \in DOMAIN proc
      /\ NumbersApart(folder) /\ Orderly(q, folder, doc, cache) /\ IInv
      /\ folder[t].number = q.number /\ cache \in [Session -> Nat]
      /\ cache' = [cache EXCEPT ![q.who] = q.number]
  BY Around DEF CacheTask, Equipped, Placed, Claiming, SerialInv
<1>2. Owned(doc, q.who) \subseteq {t}
  BY <1>1 DEF Orderly, Found, Leaving
<1>3. \A s \in Session : \A u \in Owned(doc, s) : cache'[s] = folder[u].number
  <2>. HIDE DEF q, t
  <2>. SUFFICES ASSUME NEW s \in Session, NEW u \in Owned(doc, s)
                PROVE  cache'[s] = folder[u].number
    OBVIOUS
  <2>1. CASE s = q.who
    BY <1>1, <1>2, <2>1
  <2>2. CASE s # q.who
    BY <1>1, <2>2 DEF Orderly, OwnersCached
  <2>. QED BY <2>1, <2>2
<1>4. CASE End(p)
  <2>1. r.pc = "idle" /\ ~r.force
    BY <1>1, <1>4, IdleType DEF End, Idle
  <2>. HIDE DEF q, r, t
  <2>2. Orderly(r, folder, doc, cache')
    BY <1>3, <2>1 DEF Orderly, OwnersCached, Found, Leaving
  <2>. QED BY <1>1, <2>2, OrderlyStep DEF r
<1>5. CASE GoTo(p, "release") /\ q.from # q.who
  <2>1. /\ r.pc = "release" /\ r.who = q.who /\ r.task = t /\ r.from = q.from /\ r.force = q.force
    BY <1>1, <1>5 DEF GoTo, Process
  <2>2. LiveOwner(doc[t]) = q.who
    BY <1>1 DEF Orderly, Found, t
  <2>. HIDE DEF q, r, t
  <2>3. Orderly(r, folder, doc, cache')
    BY <1>1, <1>3, <1>5, <2>1, <2>2 DEF Orderly, OwnersCached, Found, Leaving
  <2>. QED BY <1>1, <2>3, OrderlyStep DEF r
<1>. QED BY <1>1, <1>4, <1>5 DEF CacheTask

\* Only the old owner's cache is cleared, and it owns no task of the number.
LEMMA ReleaseOrderly ==
  ASSUME SerialInv, IInv', NEW p \in Proc, Turn(p), ReleaseOld(p)
  PROVE  SerialInv'
<1>. DEFINE q == proc[p]
            r == proc'[p]
            t == q.task
<1>1. /\ UNCHANGED <<doc, folder>> /\ q.pc = "release" /\ t \in Task
      /\ q \in Process /\ q.from \in Session /\ p \in DOMAIN proc
      /\ NumbersApart(folder) /\ Orderly(q, folder, doc, cache) /\ IInv
      /\ folder[t].number = q.number /\ cache \in [Session -> Nat]
      /\ cache' = [cache EXCEPT ![q.from] = IF cache[q.from] = q.number THEN 0 ELSE cache[q.from]]
      /\ proc' = [proc EXCEPT ![p] = Idle]
  BY Around DEF ReleaseOld, Cleared, End, Equipped, Placed, Claiming, SerialInv
<1>2. r.pc = "idle" /\ ~r.force
  BY <1>1, IdleType DEF Idle
<1>3. LiveOwner(doc[t]) = q.who /\ q.from # q.who
  BY <1>1 DEF Orderly, Found
<1>. HIDE DEF q, r, t
<1>4. \A s \in Session : \A u \in Owned(doc, s) : cache[s] = folder[u].number
  BY <1>1 DEF Orderly, OwnersCached
<1>5. \A s \in Session : \A u \in Owned(doc, s) : cache'[s] = folder[u].number
  <2>. SUFFICES ASSUME NEW s \in Session, NEW u \in Owned(doc, s), s = q.from, cache[s] = q.number
                PROVE  FALSE
    BY <1>1, <1>4
  <2>1. u \in Task /\ folder[u].number # 0 /\ LiveOwner(doc[u]) = s
    BY <1>1, OwnedTask DEF Owned
  <2>2. u = t
    BY <1>1, <1>4, <2>1 DEF NumbersApart
  <2>. QED BY <1>3, <2>1, <2>2
<1>6. Orderly(r, folder, doc, cache')
  BY <1>2, <1>5 DEF Orderly, OwnersCached, Found, Leaving
<1>. QED BY <1>1, <1>6, OrderlyStep DEF r

-----------------------------------------------------------------------------
(* pb-tasks work done.                                                     *)

LEMMA ValidateOrderly ==
  ASSUME SerialInv, IInv', NEW p \in Proc, Turn(p), Validate(p)
  PROVE  SerialInv'
<1>. DEFINE q == proc[p]
            r == proc'[p]
<1>1. /\ UNCHANGED <<doc, folder, cache>> /\ q.pc = "validate"
      /\ q \in Process /\ p \in DOMAIN proc
      /\ NumbersApart(folder) /\ Orderly(q, folder, doc, cache)
  BY Around DEF Validate
<1>2. CASE End(p)
  BY <1>1, <1>2, EndOrderly
<1>3. CASE ~End(p)
  <2>0. q.force = FALSE
    BY <1>1 DEF Orderly, Process
  <2>1. PICK t \in Task :
          /\ Confirms(q.number, q.who, t)
          /\ proc' = [proc EXCEPT ![p].pc = "gates", ![p].task = t]
    BY <1>3, <2>0 DEF Validate
  <2>2. q.number # 0 /\ folder[t].number = q.number /\ LiveOwner(doc[t]) = q.who
    BY <1>1, <2>1 DEF Confirms, Resolves, Folders, Process
  <2>3. r.pc = "gates" /\ r.who = q.who /\ r.task = t /\ r.number = q.number /\ r.force = q.force
    BY <1>1, <2>1 DEF Process
  <2>. HIDE DEF q, r
  <2>4. Orderly(r, folder, doc, cache)
    BY <1>1, <2>2, <2>3 DEF Orderly, OwnersCached, Found, Leaving
  <2>. QED BY <1>1, <2>4, OrderlyStep DEF r
<1>. QED BY <1>2, <1>3

LEMMA CheckGatesOrderly ==
  ASSUME SerialInv, IInv', NEW p \in Proc, Turn(p), CheckGates(p)
  PROVE  SerialInv'
<1>. DEFINE q == proc[p]
            r == proc'[p]
<1>1. /\ UNCHANGED <<doc, folder, cache>> /\ q.pc = "gates"
      /\ q \in Process /\ p \in DOMAIN proc
      /\ NumbersApart(folder) /\ Orderly(q, folder, doc, cache)
  BY Around DEF CheckGates
<1>2. CASE End(p)
  BY <1>1, <1>2, EndOrderly
<1>3. CASE ~End(p)
  <2>1. /\ r.pc = "complete" /\ r.who = q.who /\ r.task = q.task /\ r.number = q.number
        /\ r.force = q.force
    BY <1>1, <1>3 DEF CheckGates, GoTo, Process
  <2>. HIDE DEF q, r
  <2>3. Orderly(r, folder, doc, cache)
    BY <1>1, <2>1 DEF Orderly, OwnersCached, Found, Leaving
  <2>. QED BY <1>1, <2>3, OrderlyStep DEF r
<1>. QED BY <1>2, <1>3

LEMMA CompleteOrderly ==
  ASSUME SerialInv, IInv', NEW p \in Proc, Turn(p), Complete(p)
  PROVE  SerialInv'
<1>. DEFINE q == proc[p]
            r == proc'[p]
            t == q.task
<1>1. /\ UNCHANGED <<folder, cache>> /\ q.pc = "complete" /\ t \in Task
      /\ q \in Process /\ q.who \in Session /\ p \in DOMAIN proc
      /\ NumbersApart(folder) /\ Orderly(q, folder, doc, cache)
      /\ doc \in [Task -> Doc] /\ doc[t] \in Doc
  BY Around DEF Complete, Equipped
<1>2. CASE ~MayComplete(doc[t], q.who)
  BY <1>1, <1>2, EndOrderly DEF Complete
<1>3. CASE MayComplete(doc[t], q.who)
  <2>1. /\ r.pc = "clear" /\ r.who = q.who /\ r.task = t /\ r.number = q.number
        /\ r.force = q.force
        /\ doc' = [doc EXCEPT ![t] = Completed(doc[t])]
    BY <1>1, <1>3 DEF Complete, GoTo, Process
  <2>2. folder[t].number = q.number /\ q.number # 0
    BY <1>1 DEF Orderly, Found
  <2>. HIDE DEF q, r, t
  <2>3. \A s \in Session : Owned(doc', s) = Owned(doc, s) \ {t}
    BY <1>1, <2>1, CompletedType, OwnedDone
  <2>4. doc'[t].status = "done"
    BY <1>1, <2>1, CompletedType
  <2>5. Orderly(r, folder, doc', cache)
    BY <1>1, <2>1, <2>2, <2>3, <2>4 DEF Orderly, OwnersCached, Found, Leaving
  <2>. QED BY <1>1, <2>5, OrderlyStep DEF r
<1>. QED BY <1>2, <1>3

\* The cache of a session that finished its task is cleared; it owns no
\* other task of that number.
LEMMA ClearOrderly ==
  ASSUME SerialInv, IInv', NEW p \in Proc, Turn(p), ClearOwn(p)
  PROVE  SerialInv'
<1>. DEFINE q == proc[p]
            r == proc'[p]
            t == q.task
<1>1. /\ UNCHANGED <<doc, folder>> /\ q.pc = "clear" /\ t \in Task
      /\ q \in Process /\ q.who \in Session /\ p \in DOMAIN proc
      /\ NumbersApart(folder) /\ Orderly(q, folder, doc, cache) /\ IInv
      /\ cache \in [Session -> Nat]
      /\ cache' = [cache EXCEPT ![q.who] = IF cache[q.who] = q.number THEN 0 ELSE cache[q.who]]
      /\ proc' = [proc EXCEPT ![p] = Idle]
  BY Around DEF ClearOwn, Cleared, End, Equipped, SerialInv
<1>2. r.pc = "idle" /\ ~r.force
  BY <1>1, IdleType DEF Idle
<1>3. doc[t].status = "done" /\ folder[t].number = q.number
  BY <1>1 DEF Orderly, Found
<1>. HIDE DEF q, r, t
<1>4. \A s \in Session : \A u \in Owned(doc, s) : cache[s] = folder[u].number
  BY <1>1 DEF Orderly, OwnersCached
<1>5. \A s \in Session : \A u \in Owned(doc, s) : cache'[s] = folder[u].number
  <2>. SUFFICES ASSUME NEW s \in Session, NEW u \in Owned(doc, s), s = q.who, cache[s] = q.number
                PROVE  FALSE
    BY <1>1, <1>4
  <2>1. u \in Task /\ folder[u].number # 0 /\ doc[u].status = "in_progress"
    BY <1>1, OwnedTask
  <2>2. u = t
    BY <1>1, <1>3, <1>4, <2>1 DEF NumbersApart
  <2>. QED BY <1>3, <2>1, <2>2
<1>6. Orderly(r, folder, doc, cache')
  BY <1>2, <1>5 DEF Orderly, OwnersCached, Found, Leaving
<1>. QED BY <1>1, <1>6, OrderlyStep DEF r

-----------------------------------------------------------------------------
(* New folders and edits.                                                  *)

\* A new folder gets a number of its own, and is nobody's.
LEMMA MakeFolderOrderly ==
  ASSUME SerialInv, IInv', NEW p \in Proc, Turn(p), MakeFolder(p)
  PROVE  SerialInv'
<1>. DEFINE q == proc[p]
            r == proc'[p]
            name == [number |-> q.number, freehand |-> q.who # Nobody]
<1>1. /\ UNCHANGED cache /\ q.pc = "mkdir"
      /\ q \in Process /\ p \in DOMAIN proc
      /\ NumbersApart(folder) /\ Orderly(q, folder, doc, cache) /\ IInv
      /\ doc \in [Task -> Doc] /\ folder \in FolderType
      /\ q.number > 0 /\ q.seen.status = "pending"
  BY Around DEF MakeFolder, Placed, SerialInv, IInv, TypeOK, FolderType
<1>2. CASE End(p) /\ UNCHANGED <<doc, folder>>
  BY <1>1, <1>2, EndOrderly
<1>3. ASSUME NEW t \in Folders(0), folder' = [folder EXCEPT ![t] = name],
             doc' = [doc EXCEPT ![t] = q.seen],
             IF q.who # Nobody
             THEN proc' = [proc EXCEPT ![p].pc = "reread", ![p].task = t]
             ELSE End(p)
      PROVE  SerialInv'
  <2>1. t \in Task /\ folder[t].number = 0
    BY DEF Folders
  <2>2. LiveOwner(q.seen) = Nobody /\ LiveOwner(doc[t]) = Nobody
    BY <1>1, <2>1 DEF LiveOwner, IInv, Unmade
  <2>3. \/ r.pc = "idle" /\ ~r.force
        \/ r.pc = "reread" /\ r.who = q.who /\ r.task = t /\ r.force = q.force /\ q.who # Nobody
    <3>1. CASE q.who # Nobody
      <4>1. proc' = [proc EXCEPT ![p] = [q EXCEPT !.pc = "reread", !.task = t]]
        BY <1>3, <3>1
      <4>. QED BY <1>1, <3>1, <4>1 DEF Process
    <3>2. CASE q.who = Nobody
      <4>1. r = Idle
        BY <1>1, <1>3, <3>2 DEF End
      <4>. QED BY <4>1, IdleType DEF Idle
    <3>. QED BY <3>1, <3>2
  <2>4. /\ folder'[t].number = q.number
        /\ \A u \in Task : u # t => folder'[u].number = folder[u].number
    BY <1>1, <1>3, <2>1 DEF FolderType
  <2>5. \A s : Owned(doc', s) = Owned(doc, s)
    <3>. HIDE DEF q
    <3>. QED BY <1>1, <1>3, <2>1, <2>2, OwnedAlike
  <2>6. \A u \in Task : folder[u].number < q.number /\ folder[u].number \in Nat
    BY <1>1, Around DEF Orderly, Found
  <2>7. q.number \in Nat
    BY <1>1 DEF Process
  <2>. HIDE DEF q, r, name
  <2>8. NumbersApart(folder')
    BY <1>1, <2>4, <2>6, <2>7 DEF NumbersApart
  <2>9. \A s \in Session : \A u \in Owned(doc, s) : u \in Task /\ u # t
    BY <1>1, <2>1, OwnedTask
  <2>10. OwnersCached(r, folder', doc', cache)
    BY <1>1, <2>4, <2>5, <2>9 DEF Orderly, OwnersCached
  <2>11. q.who # Nobody => Owned(doc, q.who) = {}
    BY <1>1 DEF Orderly, Found
  <2>12. Orderly(r, folder', doc', cache)
    BY <1>1, <2>3, <2>5, <2>10, <2>11 DEF Orderly, Found, Leaving
  <2>. QED BY <1>1, <2>8, <2>12, OrderlyStep DEF r
<1>. QED BY <1>1, <1>2, <1>3 DEF MakeFolder

LEMMA EditOrderly ==
  ASSUME SerialInv, IInv', NEW p \in Proc, Turn(p), SpliceBlock(p) \/ ApplyEdit(p)
  PROVE  SerialInv'
<1>. DEFINE q == proc[p]
            r == proc'[p]
            t == q.task
<1>1. /\ UNCHANGED <<folder, cache>> /\ q.pc \in {"splice", "edit"} /\ t \in Task
      /\ p \in DOMAIN proc /\ proc' = [proc EXCEPT ![p] = Idle]
      /\ NumbersApart(folder) /\ Orderly(q, folder, doc, cache)
      /\ doc \in [Task -> Doc] /\ doc[t] \in Doc
  BY Around DEF SpliceBlock, ApplyEdit, Equipped, End
<1>2. r.pc = "idle" /\ ~r.force
  BY <1>1, IdleType DEF Idle
<1>3. UNCHANGED doc \/ \E n : doc' = [doc EXCEPT ![t] = [doc[t] EXCEPT !.open = n]]
  BY DEF SpliceBlock, ApplyEdit
<1>4. ASSUME NEW n PROVE LiveOwner([doc[t] EXCEPT !.open = n]) = LiveOwner(doc[t])
  BY <1>1 DEF LiveOwner, NewestOf, Doc
<1>. HIDE DEF q, r, t
<1>5. \A s : Owned(doc', s) = Owned(doc, s)
  <2>1. CASE UNCHANGED doc
    BY <2>1
  <2>2. CASE ~UNCHANGED doc
    BY <1>1, <1>3, <1>4, <2>2, OwnedAlike
  <2>. QED BY <2>1, <2>2
<1>6. Orderly(r, folder, doc', cache)
  BY <1>1, <1>2, <1>5 DEF Orderly, OwnersCached, Found, Leaving
<1>. QED BY <1>1, <1>6, OrderlyStep DEF r

\* Nothing came between a Write and its admission.
LEMMA WriteOrderly ==
  ASSUME SerialInv, IInv', NEW p \in Proc, Turn(p), ApplyWrite(p)
  PROVE  SerialInv'
<1>. DEFINE q == proc[p]
            r == proc'[p]
            t == q.task
            d == q.seen
<1>1. /\ UNCHANGED <<folder, cache>> /\ q.pc = "write" /\ t \in Task /\ d \in Doc
      /\ r = Idle /\ doc' = [doc EXCEPT ![t] = d] /\ doc \in [Task -> Doc]
      /\ NumbersApart(folder) /\ Orderly(q, folder, doc, cache)
      /\ d.status = "in_progress" /\ NewestOf(d) = q.who
  BY Around DEF ApplyWrite, Equipped, End, Placed, Process
<1>2. r.pc = "idle" /\ ~r.force
  BY <1>1, IdleType DEF Idle
<1>3. LiveOwner(d) = LiveOwner(doc[t])
  BY <1>1 DEF Orderly, Found, LiveOwner
<1>. HIDE DEF q, r, t, d
<1>4. \A s : Owned(doc', s) = Owned(doc, s)
  BY <1>1, <1>3, OwnedAlike
<1>5. Orderly(r, folder, doc', cache)
  BY <1>1, <1>2, <1>4 DEF Orderly, OwnersCached, Found, Leaving
<1>. QED BY <1>1, <1>5, OrderlyStep DEF r

-----------------------------------------------------------------------------
(* The properties of such runs.                                            *)

LEMMA InitOrderly == ASSUME HInit, orderly PROVE SerialInv /\ InTurn
<1>1. IInv
  BY InitInv DEF HInit
<1>2. NumbersApart(folder)
  BY DEF HInit
<1>3. ASSUME NEW p \in Proc
      PROVE  proc[p].pc = "idle" /\ ~proc[p].force /\ Orderly(proc[p], folder, doc, cache)
  <2>1. proc[p].pc = "idle" /\ ~proc[p].force
    BY IdleType DEF HInit, Init, Idle
  <2>2. \A s \in Session : Owned(doc, s) = {}
    BY <1>1, ConstantsAssumption DEF Owned, LiveOwner, HInit, Init, NewDoc
  <2>. QED BY <2>1, <2>2 DEF Orderly, OwnersCached, Found, Leaving
<1>4. InTurn
  BY <1>3 DEF InTurn, HInit, Init
<1>. QED BY <1>1, <1>2, <1>3, <1>4 DEF SerialInv

\* A command that starts is one process's, which then runs.
LEMMA StartsRunning ==
  ASSUME IInv, NEW p \in Proc, NewTask(p) \/ \E s \in Session : Command(p, s)
  PROVE  /\ proc'[p].pc # "idle"
         /\ \A q \in Proc : q # p => proc'[q] = proc[q]
<1>0. proc \in [Proc -> Process]
  BY DEF IInv, TypeOK
<1>1. CASE NewTask(p)
  BY <1>0, <1>1 DEF NewTask, Start, Idle
<1>2. ASSUME NEW s \in Session, Command(p, s)
      PROVE  /\ proc'[p].pc # "idle"
             /\ \A q \in Proc : q # p => proc'[q] = proc[q]
  <2>1. ASSUME NEW n \in Numbers, NEW from \in Named, Work(p, s, n, from)
        PROVE  /\ proc'[p].pc = "leave"
               /\ \A q \in Proc : q # p => proc'[q] = proc[q]
    BY <1>0, <2>1, ZenonT(30) DEF Work, Start, Idle
  <2>2. CASE WorkDone(p, s)
    BY <1>0, <2>2 DEF WorkDone, Start, Idle
  <2>3. CASE FreehandTask(p, s)
    BY <1>0, <2>3 DEF FreehandTask, Start, Idle
  <2>4. CASE FreehandBlock(p, s)
    BY <1>0, <2>4 DEF FreehandBlock, Start, Idle
  <2>5. CASE AdmitEdit(p, s)
    BY <1>0, <2>5 DEF AdmitEdit, Start, Idle
  <2>6. CASE AdmitWrite(p, s)
    BY <1>0, <2>6 DEF AdmitWrite, Start, Idle
  <2>. QED BY <1>2, <2>1, <2>2, <2>3, <2>4, <2>5, <2>6 DEF Command
<1>. QED BY <1>1, <1>2

\* A command that goes on was running.
LEMMA ContinuesRunning ==
  ASSUME IInv, NEW p \in Proc, Continue(p)
  PROVE  /\ proc[p].pc # "idle"
         /\ \A q \in Proc : q # p => proc'[q] = proc[q]
<1>1. proc[p].pc # "idle"
  BY DEF Continue, Leave, AutoClose, ReadStub, Expand, Claim, CacheTask, ReleaseOld, Validate,
     CheckGates, Complete, ClearOwn, MakeFolder, ReadFreehand, FillFreehand, SpliceBlock,
     ApplyEdit, ApplyWrite
<1>2. proc \in [Proc -> Process]
  BY DEF IInv, TypeOK
<1>. QED BY <1>1, <1>2, OneMoves

LEMMA NextOrderly == ASSUME SerialInv, InTurn, Next, InTurn' PROVE SerialInv'
<1>1. IInv /\ IInv'
  BY NextInv DEF SerialInv
<1>2. PICK p \in Proc : \/ Continue(p) \/ Crash(p) \/ NewTask(p)
                        \/ \E s \in Session : Command(p, s)
  BY DEF Next
<1>3. ~Crash(p)
  BY DEF Crash, InTurn
<1>4. CASE Continue(p)
  <2>1. Turn(p)
    BY <1>1, <1>4, ContinuesRunning DEF Turn, Alone, InTurn
  <2>. QED BY <1>1, <1>4, <2>1, LeaveOrderly, AutoCloseOrderly, FillOrderly, ClaimOrderly,
       CacheOrderly, ReleaseOrderly, ValidateOrderly, CheckGatesOrderly, CompleteOrderly,
       ClearOrderly, MakeFolderOrderly, EditOrderly, WriteOrderly DEF Continue
<1>5. CASE NewTask(p) \/ \E s \in Session : Command(p, s)
  <2>1. Turn(p)
    BY <1>1, <1>5, StartsRunning DEF Turn, Alone, InTurn
  <2>2. Numbers \subseteq Nat
    BY <1>1, NumbersType
  <2>. QED BY <1>1, <1>5, <2>1, <2>2, StartOrderly, CreateOrderly DEF Command
<1>. QED BY <1>2, <1>3, <1>4, <1>5

\* Some process is alone with what runs.
LEMMA SomeoneAlone == ASSUME InTurn PROVE \E p \in Proc : Alone(p)
<1>1. CASE \E p \in Proc : proc[p].pc # "idle"
  BY <1>1 DEF InTurn, Alone
<1>2. CASE \A p \in Proc : proc[p].pc = "idle"
  BY <1>2, ConstantsAssumption DEF Alone
<1>. QED BY <1>1, <1>2

\* An owner is a session, and its task has a folder.
LEMMA OwnerIsSession ==
  ASSUME IInv, NEW t \in Task, LiveOwner(doc[t]) # Nobody
  PROVE  LiveOwner(doc[t]) \in Session /\ folder[t].number # 0
<1>1. /\ doc[t].sessions \in Seq(Session) /\ doc[t].sessions # <<>>
      /\ LiveOwner(doc[t]) = NewestOf(doc[t])
  BY DEF IInv, TypeOK, DocsOK, Doc, LiveOwner
<1>2. LiveOwner(doc[t]) \in Session
  BY <1>1 DEF NewestOf
<1>. QED BY <1>2, OwnedTask DEF Owned

LEMMA OneTaskEach == ASSUME SerialInv, InTurn PROVE FocusedSession
<1>. SUFFICES ASSUME NEW t \in Task, NEW u \in Task, NEW s,
                     LiveOwner(doc[t]) = s, LiveOwner(doc[u]) = s, s # Nobody
              PROVE  t = u
  BY DEF FocusedSession
<1>1. s \in Session /\ folder[t].number # 0
  BY OwnerIsSession DEF SerialInv
<1>2. t \in Owned(doc, s) /\ u \in Owned(doc, s)
  BY DEF Owned
<1>3. PICK p \in Proc : Alone(p)
  BY SomeoneAlone
<1>4. Orderly(proc[p], folder, doc, cache) /\ NumbersApart(folder)
  BY <1>3 DEF SerialInv
<1>5. CASE proc[p].pc = "cache" /\ proc[p].who = s
  BY <1>2, <1>4, <1>5 DEF Orderly, Found, Leaving
<1>6. CASE ~(proc[p].pc = "cache" /\ proc[p].who = s)
  <2>1. cache[s] = folder[t].number /\ cache[s] = folder[u].number
    BY <1>1, <1>2, <1>4, <1>6 DEF Orderly, OwnersCached
  <2>. QED BY <1>1, <1>4, <2>1 DEF NumbersApart
<1>. QED BY <1>5, <1>6

LEMMA OwnersReachTasks == ASSUME SerialInv, InTurn PROVE NeverStranded
<1>. SUFFICES ASSUME NEW t \in Task, NEW s, LiveOwner(doc[t]) = s, s # Nobody, ~Busy(s)
              PROVE  cache[s] = folder[t].number
  BY DEF NeverStranded
<1>1. s \in Session
  BY OwnerIsSession DEF SerialInv
<1>2. PICK p \in Proc : Alone(p)
  BY SomeoneAlone
<1>3. Orderly(proc[p], folder, doc, cache) /\ proc[p].who # s
  BY <1>2 DEF SerialInv, Busy
<1>. QED BY <1>1, <1>3 DEF Orderly, OwnersCached, Owned

\* As long as commands and edits came one after the other, none killed or
\* forced, a session never has two tasks in progress (work without --force
\* leaves the one before), and its cache leads it to the one it has whenever
\* it runs no command.
THEOREM OwnersAlwaysInTurn == HSpec => []OwnersInTurn
<1>. DEFINE J == orderly => SerialInv /\ InTurn
<1>1. HInit => J
  BY InitOrderly
<1>2. J /\ [HNext]_hvars => J'
  <2>. SUFFICES ASSUME J, [HNext]_hvars, orderly' PROVE (SerialInv /\ InTurn)'
    OBVIOUS
  <2>1. CASE UNCHANGED hvars
    <3>1. SerialInv /\ InTurn
      BY <2>1 DEF hvars
    <3>2. IInv'
      BY <2>1, <3>1, NextInv DEF hvars, SerialInv
    <3>. QED BY <2>1, <3>1, <3>2 DEF hvars, vars, SerialInv, InTurn, Alone
  <2>2. CASE HNext
    <3>1. orderly /\ InTurn'
      BY <2>2, Remembering DEF Remember
    <3>2. SerialInv /\ InTurn
      BY <3>1
    <3>. QED BY <2>2, <3>1, <3>2, NextOrderly, Remembering
  <2>. QED BY <2>1, <2>2
<1>3. J => OwnersInTurn
  BY OneTaskEach, OwnersReachTasks DEF OwnersInTurn
<1>. QED BY <1>1, <1>2, <1>3, PTL DEF HSpec
=============================================================================
