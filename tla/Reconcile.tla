----------------------------- MODULE Reconcile -----------------------------
(***************************************************************************)
(* `pb-tasks init`: tasks/reconcile.py and the part of                     *)
(* tasks/legacy_migration.py that feeds it.  An installer inspects what an *)
(* old plugin left, plans one operation per file from the text it reads,   *)
(* checks that nothing has changed since, removes what killed installers   *)
(* left, stages all new texts beside their targets and renames them into   *)
(* place one by one; a fault rolls back what was renamed.  Meanwhile       *)
(* people edit the files, and the installer may be killed.                 *)
(*                                                                         *)
(* A text is abstracted to what the operations tell apart: whether it has  *)
(* a part that people wrote, and what is in the part that is Playbook's.   *)
(* Directories, file modes and symbolic links are left out.                *)
(***************************************************************************)
EXTENDS Naturals, Sequences

CONSTANTS
  Installer,   \* processes
  Kind,        \* Kind[f]: the kind of file f; files are numbered in plan order
  DirOf,       \* DirOf[f]: the directory of f
  Windows,     \* may an edit fall between a check and the rename it is for?
  Interrupts,  \* may Ctrl-C fall between a rename and its being noted?
  MaxEdits,    \* bound on edits by people
  MaxFaults    \* bound on faults and kills together

VARIABLES
  files,    \* files[f]: the text of f
  litter,   \* files beside which a dead installer left a complete temporary
  proc,     \* proc[p]: an installer
  edits,    \* edits so far
  faults    \* faults and kills so far

vars == <<files, litter, proc, edits, faults>>

File == DOMAIN Kind
Kinds == {"managed", "shared", "once", "migrate", "retire"}

\* ours: no part of Playbook's, one of an earlier version, this version's,
\* or one whose hash does not match its marker.
Text == [mine : BOOLEAN, ours : {"none", "old", "new", "edited"}]
Absent == [mine |-> FALSE, ours |-> "none"]

\* What f may hold, by its kind.
TextsOf(f) ==
  {x \in Text : /\ x.mine /\ Kind[f] # "shared" => x.ours = "none"
                /\ Kind[f] = "once" => x.ours \in {"none", "new"}
                /\ Kind[f] = "retire" => x.ours # "new"}

ASSUME ReconcileConstants ==
  /\ Kind \in Seq(Kinds)
  /\ DOMAIN DirOf = File
  /\ Windows \in BOOLEAN
  /\ Interrupts \in BOOLEAN
  /\ MaxEdits \in Nat
  /\ MaxFaults \in Nat

Legacy(f) == Kind[f] \in {"migrate", "retire"}

----------------------------------------------------------------------------
(* The plan.                                                               *)

\* Playbook's part was changed by hand, or a file of Playbook's own name is
\* somebody else's.
Refused(f, x) ==
  \/ x.ours = "edited" /\ Kind[f] # "once"
  \/ x.mine /\ Kind[f] = "managed"

\* What a file should hold: a merge keeps what people wrote.
Desired(f, x) ==
  IF Kind[f] = "retire" THEN Absent
  ELSE [mine |-> x.mine /\ Kind[f] = "shared", ours |-> "new"]

\* The plan changes f holding x: it creates, updates or, to retire, deletes.
Changes(f, x) ==
  /\ ~Refused(f, x)
  /\ \/ Kind[f] \in {"managed", "shared"} /\ x.ours # "new"
     \/ Kind[f] = "once" /\ x = Absent
     \/ Legacy(f) /\ x.ours = "old"

Turn(f, x) == IF Changes(f, x) THEN Desired(f, x) ELSE x

----------------------------------------------------------------------------
(* Installers.                                                             *)

Idle == {"idle"}
Applying == {"stage", "replace", "checked", "published"}
Failing  == {"rollback", "restoring"}
PCs == Idle \cup {"inspected", "planned", "clean", "unstage"} \cup Applying \cup Failing

Outcome == {"none", "running", "refused", "done", "failed", "partial", "killed"}

Proc == [pc : PCs, how : Outcome,
         seen : [File -> Text],     \* texts read by the plan
         todo : SUBSET File,        \* files the present loop has still to do
         staged : SUBSET File,      \* staged texts on disk
         out : SUBSET File,         \* committed: renamed and noted
         stuck : SUBSET File,       \* files that could not be rolled back
         touched : SUBSET File]     \* (history) files edited since it began

\* A process at pc that has done nothing yet.
At0(pc, how, seen, touched) ==
  [pc |-> pc, how |-> how, seen |-> seen, todo |-> {}, staged |-> {},
   out |-> {}, stuck |-> {}, touched |-> touched]

Unread == [f \in File |-> Absent]

Init ==
  /\ files \in {x \in [File -> Text] : \A f \in File : x[f] \in TextsOf(f)}
  /\ litter = {}
  /\ proc = [p \in Installer |-> At0("idle", "none", Unread, {})]
  /\ edits = 0
  /\ faults = 0

At(p, where) == proc[p].pc = where
\* Operations of the plan: those that change a file, and all of them, the
\* unchanged included (an old file has one only if it is to change).
Mutable(p) == {f \in File : Changes(f, proc[p].seen[f])}
Planned(p) == {f \in File : Legacy(f) => f \in Mutable(p)}
First(p, f) == f \in proc[p].todo /\ \A g \in proc[p].todo : f <= g
Last(p, f)  == f \in proc[p].todo /\ \A g \in proc[p].todo : g <= f
AsSeen(p, f) == files[f] = proc[p].seen[f]

\* Fault: a file that the plan deletes is left where it is.
PostimageKeepsRetired(p, f) ==
  IF Kind[f] = "retire" THEN proc[p].seen[f] ELSE Turn(f, proc[p].seen[f])

Postimage(p, f) == Turn(f, proc[p].seen[f])
Renamed(p, f) == files[f] = Postimage(p, f)

Set(p, r) == proc' = [proc EXCEPT ![p] = r]
Ended(p, how) == Set(p, At0("idle", how, Unread, proc[p].touched))

\* Fault: a failure is reported without a rollback.
CaughtOnly(p) == [proc[p] EXCEPT !.pc = "rollback", !.todo = {}]

\* An exception inside _apply_group: undo what is noted as done.
Caught(p) == [proc[p] EXCEPT !.pc = "rollback", !.todo = proc[p].out]

\* A fault or a kill.
Fault == faults < MaxFaults /\ faults' = faults + 1 /\ UNCHANGED edits

\* inspect_legacy_project reads the files of the old plugin only.
Inspect(p) ==
  /\ At(p, "idle")
  /\ IF \E f \in File : Legacy(f) /\ Refused(f, files[f])
       THEN Set(p, At0("idle", "refused", Unread, {}))
       ELSE Set(p, At0("inspected", "running",
                      [f \in File |-> IF Legacy(f) THEN files[f] ELSE Absent], {}))
  /\ UNCHANGED <<files, litter, edits, faults>>

\* plan_reconciliation reads all files: a conflict, or an old file that is
\* no longer the one inspected, ends the command.
Plan(p) ==
  /\ At(p, "inspected")
  /\ IF \E f \in File : \/ Legacy(f) /\ f \in Mutable(p) /\ ~AsSeen(p, f)
                        \/ ~Legacy(f) /\ Refused(f, files[f])
       THEN Ended(p, "refused")
       ELSE Set(p, [proc[p] EXCEPT !.pc = "planned",
                      !.seen = [f \in File |-> IF Legacy(f) THEN proc[p].seen[f] ELSE files[f]]])
  /\ UNCHANGED <<files, litter, edits, faults>>

\* _preflight_apply: every file of the plan must hold what the plan read; a
\* file people own that was there already has no expected digest.
Preflight(p) ==
  /\ At(p, "planned")
  /\ IF \A f \in Planned(p) : AsSeen(p, f) \/ (Kind[f] = "once" /\ f \notin Mutable(p))
       THEN Set(p, [proc[p] EXCEPT !.pc = "clean"])
       ELSE Ended(p, "refused")
  /\ UNCHANGED <<files, litter, edits, faults>>

\* Fault: temporaries are looked for beside changed files only.
SweptOfChanged(p) == {f \in litter : \E g \in Mutable(p) : g = f}

\* Beside the files of the plan, nothing dead installers left stays.  The
\* temporaries of living ones (_pid_alive) are in their staged and never in
\* litter, so nobody removes them.  Left out: a dead owner's process number
\* that some other process has by now, which keeps its temporaries for longer.
Swept(p) == {f \in litter : \E g \in Planned(p) : DirOf[g] = DirOf[f]}

\* _cleanup_stale_temporaries; a plan that changes nothing ends here.
Clean(p) ==
  /\ At(p, "clean")
  /\ litter' = litter \ Swept(p)
  /\ IF Mutable(p) = {}
       THEN Ended(p, "done")
       ELSE Set(p, [proc[p] EXCEPT !.pc = "stage", !.todo = Mutable(p)])
  /\ UNCHANGED <<files, edits, faults>>

\* One file of the staging loop: its preimage is validated, its text kept
\* for a rollback and the new one written beside it.
Stage(p) ==
  /\ At(p, "stage")
  /\ \E f \in File :
       LET rest == proc[p].todo \ {f}
           kept == IF Kind[f] = "retire" THEN {} ELSE {f}
       IN  /\ First(p, f)
           /\ IF AsSeen(p, f)
                THEN Set(p, [proc[p] EXCEPT
                       !.staged = @ \cup kept,
                       !.todo = IF rest = {} THEN Mutable(p) ELSE rest,
                       !.pc = IF rest = {} THEN "replace" ELSE "stage"])
                ELSE Set(p, Caught(p))
  /\ UNCHANGED <<files, litter, edits, faults>>

\* Fault: the preimage is not validated again before the rename.
CheckedOnce(p) ==
  /\ At(p, "replace")
  /\ Set(p, [proc[p] EXCEPT !.pc = "checked"])
  /\ UNCHANGED <<files, litter, edits, faults>>

\* Next file of the replacing loop: its preimage is validated again.
Check(p) ==
  /\ At(p, "replace")
  /\ \E f \in File :
       /\ First(p, f)
       /\ Set(p, IF AsSeen(p, f) THEN [proc[p] EXCEPT !.pc = "checked"] ELSE Caught(p))
  /\ UNCHANGED <<files, litter, edits, faults>>

\* os.replace or unlink.
Publish(p) ==
  /\ At(p, "checked")
  /\ \E f \in File :
       /\ First(p, f)
       /\ files' = [files EXCEPT ![f] = Postimage(p, f)]
       /\ Set(p, [proc[p] EXCEPT !.pc = "published", !.staged = @ \ {f}])
  /\ UNCHANGED <<litter, edits, faults>>

\* committed.append: after the directory is synced.
Commit(p) ==
  /\ At(p, "published")
  /\ \E f \in File :
       LET rest == proc[p].todo \ {f}
       IN  /\ First(p, f)
           /\ Set(p, [proc[p] EXCEPT
                  !.out = @ \cup {f}, !.todo = rest,
                  !.pc = IF rest = {} THEN "unstage" ELSE "replace",
                  !.how = IF rest = {} THEN "done" ELSE "running"])
  /\ UNCHANGED <<files, litter, edits, faults>>

\* Any exception in a step of the two loops, Ctrl-C included.
Trouble(p) ==
  /\ \/ proc[p].pc \in {"stage", "replace", "checked"}
     \/ At(p, "published") /\ Interrupts
  /\ Set(p, Caught(p))
  /\ Fault
  /\ UNCHANGED <<files, litter>>

\* Fault: a file is restored whatever it holds by now.
CheckBackNothing(p) ==
  /\ At(p, "rollback")
  /\ proc[p].todo # {}
  /\ Set(p, [proc[p] EXCEPT !.pc = "restoring"])
  /\ UNCHANGED <<files, litter, edits, faults>>

\* Rollback, last file first: only a file that still holds what was put
\* there is restored.
CheckBack(p) ==
  /\ At(p, "rollback")
  /\ \E f \in File :
       /\ Last(p, f)
       /\ Set(p, IF Renamed(p, f)
                   THEN [proc[p] EXCEPT !.pc = "restoring"]
                   ELSE [proc[p] EXCEPT !.todo = @ \ {f}, !.stuck = @ \cup {f}])
  /\ UNCHANGED <<files, litter, edits, faults>>

Restored(p, f) == [files EXCEPT ![f] = proc[p].seen[f]]
Back(p, f, stuck) ==
  Set(p, [proc[p] EXCEPT !.pc = "rollback", !.todo = @ \ {f}, !.stuck = @ \cup stuck])

\* _restore_file, or unlink of a file that was not there.
Restore(p) ==
  /\ At(p, "restoring")
  /\ \E f \in File : /\ Last(p, f)
                     /\ files' = Restored(p, f)
                     /\ Back(p, f, {})
  /\ UNCHANGED <<litter, edits, faults>>

\* A fault while restoring, before or after the rename, is noted; the rest
\* is rolled back all the same.
RestoreFails(p) ==
  /\ At(p, "restoring")
  /\ \E f \in File : /\ Last(p, f)
                     /\ files' \in {files, Restored(p, f)}
                     /\ Back(p, f, {f})
  /\ Fault
  /\ UNCHANGED litter

\* The rollback is through, and reported as complete or not.
RolledBack(p) ==
  /\ At(p, "rollback")
  /\ proc[p].todo = {}
  /\ Set(p, [proc[p] EXCEPT !.pc = "unstage",
                            !.how = IF proc[p].stuck = {} THEN "failed" ELSE "partial"])
  /\ UNCHANGED <<files, litter, edits, faults>>

\* Fault: the staged texts stay.
UnstageNothing(p) ==
  /\ At(p, "unstage")
  /\ Set(p, [proc[p] EXCEPT !.pc = "idle"])
  /\ UNCHANGED <<files, litter, edits, faults>>

\* The finally clause removes the staged texts that were not renamed.
Unstage(p) ==
  /\ At(p, "unstage")
  /\ Ended(p, proc[p].how)
  /\ UNCHANGED <<files, litter, edits, faults>>

\* A restored text is written beside its file first; an unlink needs none.
Restoring(p, f) == At(p, "restoring") /\ Last(p, f) /\ proc[p].seen[f] # Absent

\* The process is killed: its complete temporaries stay, that of a file
\* being restored among them.
Crash(p) ==
  /\ ~At(p, "idle")
  /\ \E half \in SUBSET {f \in File : Restoring(p, f)} :
       litter' = litter \cup proc[p].staged \cup half
  /\ Ended(p, IF At(p, "unstage") THEN proc[p].how ELSE "killed")
  /\ Fault
  /\ UNCHANGED files

Exposed(f) ==
  \E p \in Installer : \/ At(p, "checked") /\ First(p, f)
                       \/ At(p, "restoring") /\ Last(p, f)

\* Somebody edits, creates or removes a file; nobody writes Playbook's part.
Edit(f) ==
  /\ Windows \/ ~Exposed(f)
  /\ \E x \in TextsOf(f) \ {files[f]} :
       /\ x.ours \in {files[f].ours, "none", "edited"}
       /\ files[f].ours = "none" => x.ours = "none"
       /\ files' = [files EXCEPT ![f] = x]
  /\ edits < MaxEdits /\ edits' = edits + 1
  /\ proc' = [p \in Installer |-> [proc[p] EXCEPT !.touched = @ \cup {f}]]
  /\ UNCHANGED <<litter, faults>>

Step(p) ==
  \/ Inspect(p) \/ Plan(p) \/ Preflight(p) \/ Clean(p)
  \/ Stage(p) \/ Check(p) \/ Publish(p) \/ Commit(p)
  \/ CheckBack(p) \/ Restore(p) \/ RolledBack(p) \/ Unstage(p)

Next ==
  \/ \E p \in Installer : Step(p) \/ Trouble(p) \/ RestoreFails(p) \/ Crash(p)
  \/ \E f \in File : Edit(f)

\* Somebody runs the command until it has nothing left to do.
Fairness == \A p \in Installer : WF_vars(Step(p))

Spec == Init /\ [][Next]_vars
FairSpec == Spec /\ Fairness

----------------------------------------------------------------------------
(* Properties.                                                             *)

\* Every variable has its type; an idle installer has nothing on disk, and
\* what is renamed and noted was planned.
TypeOK ==
  /\ files \in [File -> Text]
  /\ \A f \in File : files[f] \in TextsOf(f)
  /\ litter \subseteq File
  /\ proc \in [Installer -> Proc]
  /\ edits \in 0..MaxEdits
  /\ faults \in 0..MaxFaults
  /\ \A p \in Installer :
       /\ At(p, "idle") => proc[p].staged = {}
       /\ proc[p].out \subseteq Mutable(p)

\* No step of an installer, rollback included, removes what a person wrote
\* or a change a person made to Playbook's part: each rename follows a
\* check of the present text, and a merge keeps the rest of the file.
UserTextKept ==
  [][edits' = edits =>
       \A f \in File : /\ files[f].mine => files'[f].mine
                       /\ files[f].ours = "edited" => files'[f].ours = "edited"]_vars

\* An installation takes effect as a whole or, refused or rolled back, not
\* at all; only one that was killed or says that its rollback is incomplete
\* leaves some of its files.  A file renamed, and by an installer that has not
\* ended or could not restore it, counts as what it held before.
Unsettled(p, f) ==
  /\ proc[p].how = "running"
  /\ Renamed(p, f)
  /\ IF proc[p].pc \in Failing
       THEN f \in proc[p].todo \cup proc[p].stuck
       ELSE f \in proc[p].out \/ (At(p, "published") /\ First(p, f))

Visible == [f \in File |->
  IF \E p \in Installer : Unsettled(p, f)
    THEN proc[CHOOSE p \in Installer : Unsettled(p, f)].seen[f]
    ELSE files[f]]

Abstract == INSTANCE InstallTransaction
              WITH files <- Visible, outcome <- [p \in Installer |-> proc[p].how],
                   touched <- [p \in Installer |-> proc[p].touched]
AllOrNothing == Abstract!Spec

\* The docstring of apply_reconciliation (reconcile.py:1057): "Any caught
\* failure rolls back every already-published operation in the plan".  When
\* an installer ends as failed, with no word of an incomplete rollback, a
\* file nobody else wrote holds what the plan read.
FailureRollsBack ==
  [][\A p \in Installer : proc[p].how = "running" /\ proc'[p].how = "failed" =>
       \A f \in Mutable(p) \ proc[p].touched : AsSeen(p, f)]_vars

\* When nobody interferes any more, running the command again comes to an
\* end: everything is installed, or there is a conflict for people to solve,
\* whatever killed or failed installations left.
Conflict == \E f \in File : Refused(f, files[f])
Installed == \A f \in File : files[f] = Turn(f, files[f])
Converges == <>[](Conflict \/ Installed)

\* What a killed installer left beside a file of every plan goes at the next
\* run that is not refused.
LitterGoes ==
  \A f \in File : Kind[f] \in {"managed", "shared", "once"} =>
    (f \in litter ~> f \notin litter \/ Conflict)
=============================================================================
