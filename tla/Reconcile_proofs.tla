-------------------------- MODULE Reconcile_proofs --------------------------
(***************************************************************************)
(* Proofs about Reconcile, for any files of any kinds and any number of    *)
(* edits, faults and kills.  For any number of installers at once: type    *)
(* correctness, and that no installer removes what a person wrote, as long *)
(* as no edit falls between a check and its rename.  For one installer at  *)
(* a time: that it implements InstallTransaction.                          *)
(***************************************************************************)
EXTENDS Reconcile, TLAPS

Changed(r) == {f \in File : Changes(f, r.seen[f])}

\* What a process has in hand: it commits planned files only, a loop under
\* way has planned files to do, and no text it planned from was a conflict.
Good(r) ==
  /\ r \in Proc
  /\ r.pc = "idle" => r.staged = {}
  /\ r.pc \in {"inspected", "planned", "clean"} => r.out = {}
  /\ r.out \subseteq Changed(r)
  /\ r.pc \in Applying => r.todo \subseteq Changed(r)
  /\ \A f \in File : r.seen[f] \in TextsOf(f) /\ ~Refused(f, r.seen[f])

\* The file a process is about to write.
Target(r, f) ==
  \/ r.pc = "checked" /\ f \in r.todo /\ \A g \in r.todo : f <= g
  \/ r.pc = "restoring" /\ f \in r.todo /\ \A g \in r.todo : g <= f

\* A file about to be written has the people's part the process knows of,
\* unless edits fall between a check and its rename.
Held(r, f, x) ==
  ~Windows /\ Target(r, f) => x.mine = r.seen[f].mine /\ x.ours # "edited"

\* The inductive invariant.
IInv ==
  /\ files \in [File -> Text]
  /\ \A f \in File : files[f] \in TextsOf(f)
  /\ litter \subseteq File
  /\ edits \in 0..MaxEdits
  /\ faults \in 0..MaxFaults
  /\ proc = [p \in Installer |-> proc[p]]
  /\ \A p \in Installer : Good(proc[p])
  /\ \A p \in Installer : \A f \in File : Held(proc[p], f, files[f])

\* No file loses or gains a part by hand.
Mild ==
  \A f \in File :
    /\ files'[f] \in TextsOf(f)
    /\ ~Windows => /\ files'[f].mine = files[f].mine
                   /\ files'[f].ours = "edited" <=> files[f].ours = "edited"

\* What a step of the installer p comes to.
Moves(p, r) ==
  /\ files' \in [File -> Text]
  /\ Mild
  /\ litter' \subseteq File
  /\ edits' = edits
  /\ faults' \in 0..MaxFaults
  /\ Set(p, r)
  /\ Good(r)
  /\ \A f \in File : Held(r, f, files'[f])

-----------------------------------------------------------------------------
(* Texts.                                                                  *)

LEMMA TextFacts ==
  ASSUME NEW f \in File
  PROVE  /\ TextsOf(f) \subseteq Text
         /\ Absent \in TextsOf(f)
         /\ ~Refused(f, Absent)
BY DEF TextsOf, Text, Absent, Refused

\* What an installation makes of a text it may touch keeps the people's part.
LEMMA TurnKeeps ==
  ASSUME NEW f \in File, NEW x \in TextsOf(f), ~Refused(f, x)
  PROVE  /\ Turn(f, x) \in TextsOf(f)
         /\ Turn(f, x).mine = x.mine
         /\ Turn(f, x).ours # "edited"
         /\ x.ours # "edited"
<1>0. Kind[f] \in Kinds
  BY ReconcileConstants DEF File
<1>1. x.ours # "edited"
  BY <1>0 DEF TextsOf, Refused, Text, Kinds
<1>2. CASE ~Changes(f, x)
  BY <1>1, <1>2 DEF Turn
<1>3. CASE Changes(f, x) /\ Kind[f] = "retire"
  BY <1>3 DEF Turn, Changes, Desired, TextsOf, Text, Absent, Refused, Legacy
<1>4. CASE Changes(f, x) /\ Kind[f] = "shared"
  BY <1>4 DEF Turn, Changes, Desired, TextsOf, Text, Absent, Refused, Legacy
<1>5. CASE Changes(f, x) /\ Kind[f] \in {"managed", "once", "migrate"}
  <2>1. x.mine = FALSE /\ x \in Text
    BY <1>5 DEF Changes, TextsOf, Text, Absent, Refused, Legacy
  <2>2. Turn(f, x) = [mine |-> FALSE, ours |-> "new"]
    BY <1>5, <2>1 DEF Turn, Desired
  <2> QED
    <3>1. [mine |-> FALSE, ours |-> "new"] \in TextsOf(f)
      BY <1>5 DEF TextsOf, Text
    <3>2. Turn(f, x) \in TextsOf(f)
      BY <2>2, <3>1
    <3>3. Turn(f, x).mine = FALSE /\ Turn(f, x).ours = "new"
      BY <2>2
    <3> QED
      BY <1>1, <2>1, <3>2, <3>3
<1> QED
  BY <1>0, <1>2, <1>3, <1>4, <1>5 DEF Kinds

LEMMA EndedGood ==
  ASSUME NEW how \in Outcome, NEW t \in SUBSET File
  PROVE  LET r == At0("idle", how, Unread, t)
         IN  Good(r) /\ r.pc = "idle" /\ \A f \in File : ~Target(r, f)
BY TextFacts DEF At0, Unread, Good, Proc, PCs, Idle, Applying, Outcome, Text, Absent, Target

LEMMA InitIInv == Init => IInv
<1> SUFFICES ASSUME Init PROVE IInv
  OBVIOUS
<1> DEFINE r == At0("idle", "none", Unread, {})
<1>1. Good(r) /\ \A f \in File : ~Target(r, f)
  BY EndedGood DEF Outcome
<1> QED
  BY <1>1, ReconcileConstants DEF Init, IInv, Held

LEMMA IInvTypeOK == IInv => TypeOK
BY DEF IInv, TypeOK, Good, Changed, Mutable, At, Proc
-----------------------------------------------------------------------------
(* Steps.                                                                  *)

\* A step that writes no file.
LEMMA QuietMoves ==
  ASSUME IInv, NEW p \in Installer, NEW r,
         Set(p, r), Good(r), \A f \in File : Held(r, f, files[f]),
         files' = files, litter' \subseteq File, edits' = edits, faults' \in 0..MaxFaults
  PROVE  Moves(p, r)
BY DEF IInv, Moves, Mild

\* A step that ends the process.
LEMMA EndsMoves ==
  ASSUME IInv, NEW p \in Installer, NEW how \in Outcome, NEW t \in SUBSET File,
         Set(p, At0("idle", how, Unread, t)),
         files' = files, litter' \subseteq File, edits' = edits, faults' \in 0..MaxFaults
  PROVE  \E r : Moves(p, r)
BY EndedGood, QuietMoves DEF Held

LEMMA InspectMoves ==
  ASSUME IInv, NEW p \in Installer, Inspect(p) PROVE \E r : Moves(p, r)
<1>1. CASE \E f \in File : Legacy(f) /\ Refused(f, files[f])
  BY <1>1, EndsMoves DEF Inspect, Outcome, IInv
<1>2. CASE ~ \E f \in File : Legacy(f) /\ Refused(f, files[f])
  <2> DEFINE r == At0("inspected", "running",
                    [f \in File |-> IF Legacy(f) THEN files[f] ELSE Absent], {})
  <2>1. r \in Proc
    BY TextFacts DEF At0, Proc, PCs, Outcome, IInv
  <2>2. Good(r)
    BY <1>2, <2>1, TextFacts DEF Good, At0, Applying, IInv
  <2>3. \A f \in File : Held(r, f, files[f])
    BY DEF Held, Target, At0
  <2> QED
    BY <1>2, <2>2, <2>3, QuietMoves DEF Inspect, IInv
<1> QED
  BY <1>1, <1>2

LEMMA PlanMoves ==
  ASSUME IInv, NEW p \in Installer, Plan(p) PROVE \E r : Moves(p, r)
<1> DEFINE stop == \E f \in File : \/ Legacy(f) /\ f \in Mutable(p) /\ ~AsSeen(p, f)
                                   \/ ~Legacy(f) /\ Refused(f, files[f])
<1>0. Good(proc[p])
  BY DEF IInv
<1>1. CASE stop
  BY <1>0, <1>1, EndsMoves DEF Plan, Ended, Outcome, IInv, Good, Proc
<1>2. CASE ~stop
  <2> DEFINE seen == [f \in File |-> IF Legacy(f) THEN proc[p].seen[f] ELSE files[f]]
             r == [proc[p] EXCEPT !.pc = "planned", !.seen = seen]
  <2>1. proc[p].pc = "inspected" /\ Set(p, r)
    BY <1>2 DEF Plan, At
  <2>2. seen \in [File -> Text]
    BY <1>0, TextFacts DEF Good, IInv
  <2>3. r \in Proc /\ r.pc = "planned" /\ r.seen = seen /\ r.out = proc[p].out
    BY <1>0, <2>2 DEF Good, Proc, PCs
  <2>4. Good(r)
    BY <1>0, <1>2, <2>1, <2>3, TextFacts, ZenonT(30) DEF Good, IInv, Applying
  <2>5. \A f \in File : Held(r, f, files[f])
    BY <2>3 DEF Held, Target
  <2> QED
    BY <2>1, <2>4, <2>5, QuietMoves DEF Plan, IInv
<1> QED
  BY <1>1, <1>2

\* An exception: the loop is left for the rollback.
LEMMA CaughtMoves ==
  ASSUME IInv, NEW p \in Installer, Set(p, Caught(p)),
         files' = files, litter' = litter, edits' = edits, faults' \in 0..MaxFaults
  PROVE  \E r : Moves(p, r)
<1> DEFINE r == Caught(p)
<1>0. Good(proc[p])
  BY DEF IInv
<1>1. r \in Proc /\ r.pc = "rollback" /\ r.seen = proc[p].seen /\ r.out = proc[p].out
  BY <1>0 DEF Caught, Good, Proc, PCs, Failing
<1>2. Good(r)
  BY <1>0, <1>1 DEF Good, Applying, Changed
<1>3. \A f \in File : Held(r, f, files[f])
  BY <1>1 DEF Held, Target
<1> QED
  BY <1>2, <1>3, QuietMoves DEF IInv

LEMMA PreflightMoves ==
  ASSUME IInv, NEW p \in Installer, Preflight(p) PROVE \E r : Moves(p, r)
<1> DEFINE r == [proc[p] EXCEPT !.pc = "clean"]
<1>0. Good(proc[p])
  BY DEF IInv
<1>1. CASE Ended(p, "refused")
  BY <1>0, <1>1, EndsMoves DEF Preflight, Ended, Outcome, IInv, Good, Proc
<1>2. CASE Set(p, r)
  <2>1. r \in Proc /\ r.pc = "clean" /\ r.seen = proc[p].seen /\ r.out = proc[p].out
    BY <1>0 DEF Good, Proc, PCs
  <2>2. Good(r)
    BY <1>0, <2>1 DEF Good, Applying, Changed, Preflight, At
  <2>3. \A f \in File : Held(r, f, files[f])
    BY <2>1 DEF Held, Target
  <2> QED
    BY <1>2, <2>2, <2>3, QuietMoves DEF Preflight, IInv
<1> QED
  BY <1>1, <1>2 DEF Preflight

LEMMA CleanMoves ==
  ASSUME IInv, NEW p \in Installer, Clean(p) PROVE \E r : Moves(p, r)
<1> DEFINE r == [proc[p] EXCEPT !.pc = "stage", !.todo = Mutable(p)]
<1>0. Good(proc[p]) /\ litter' \subseteq File
  BY DEF IInv, Clean
<1>1. CASE Ended(p, "done")
  BY <1>0, <1>1, EndsMoves DEF Clean, Ended, Outcome, IInv, Good, Proc
<1>2. CASE Set(p, r)
  <2>0. Mutable(p) \in SUBSET File
    BY DEF Mutable
  <2>1. /\ r \in Proc /\ r.pc = "stage" /\ r.seen = proc[p].seen
        /\ r.out = proc[p].out /\ r.todo = Mutable(p)
    BY <1>0, <2>0 DEF Good, Proc, PCs, Applying
  <2>2. Good(r)
    BY <1>0, <2>1 DEF Good, Applying, Changed, Mutable
  <2>3. \A f \in File : Held(r, f, files[f])
    BY <2>1 DEF Held, Target
  <2> QED
    BY <1>0, <1>2, <2>2, <2>3, QuietMoves DEF Clean, IInv
<1> QED
  BY <1>1, <1>2 DEF Clean

LEMMA StageMoves ==
  ASSUME IInv, NEW p \in Installer, Stage(p) PROVE \E r : Moves(p, r)
<1>0. Good(proc[p]) /\ proc[p].pc = "stage"
  BY DEF IInv, Stage, At
<1>1. PICK f \in File :
        LET rest == proc[p].todo \ {f}
            kept == IF Kind[f] = "retire" THEN {} ELSE {f}
        IN  /\ First(p, f)
            /\ IF AsSeen(p, f)
                 THEN Set(p, [proc[p] EXCEPT
                        !.staged = @ \cup kept,
                        !.todo = IF rest = {} THEN Mutable(p) ELSE rest,
                        !.pc = IF rest = {} THEN "replace" ELSE "stage"])
                 ELSE Set(p, Caught(p))
  BY DEF Stage
<1>2. CASE ~AsSeen(p, f)
  BY <1>1, <1>2, CaughtMoves DEF Stage, IInv
<1>3. CASE AsSeen(p, f)
  <2> DEFINE rest == proc[p].todo \ {f}
             kept == IF Kind[f] = "retire" THEN {} ELSE {f}
             todo == IF rest = {} THEN Mutable(p) ELSE rest
             pc == IF rest = {} THEN "replace" ELSE "stage"
             staged == proc[p].staged \cup kept
             r == [proc[p] EXCEPT !.staged = staged, !.todo = todo, !.pc = pc]
  <2>1. Set(p, r)
    BY <1>1, <1>3
  <2>2. todo \subseteq Changed(proc[p]) /\ todo \subseteq File /\ staged \subseteq File
    BY <1>0 DEF Good, Applying, Changed, Mutable, Proc
  <2>3. pc \in {"replace", "stage"}
    OBVIOUS
  <2> HIDE DEF rest, kept, todo, pc, staged
  <2>4. r \in Proc /\ r.pc = pc /\ r.todo = todo /\ r.seen = proc[p].seen /\ r.out = proc[p].out
    BY <1>0, <2>2, <2>3 DEF Good, Proc, PCs, Applying
  <2>5. Good(r)
    BY <1>0, <2>2, <2>3, <2>4 DEF Good, Changed
  <2>6. \A g \in File : Held(r, g, files[g])
    BY <2>3, <2>4 DEF Held, Target
  <2> QED
    BY <2>1, <2>5, <2>6, QuietMoves DEF Stage, IInv
<1> QED
  BY <1>2, <1>3

LEMMA CheckMoves ==
  ASSUME IInv, NEW p \in Installer, Check(p) PROVE \E r : Moves(p, r)
<1>0. Good(proc[p]) /\ proc[p].pc = "replace"
  BY DEF IInv, Check, At
<1>1. PICK f \in File :
        /\ First(p, f)
        /\ Set(p, IF AsSeen(p, f) THEN [proc[p] EXCEPT !.pc = "checked"] ELSE Caught(p))
  BY DEF Check
<1>2. CASE ~AsSeen(p, f)
  BY <1>1, <1>2, CaughtMoves DEF Check, IInv
<1>3. CASE AsSeen(p, f)
  <2> DEFINE r == [proc[p] EXCEPT !.pc = "checked"]
  <2>1. Set(p, r)
    BY <1>1, <1>3
  <2>2. /\ r \in Proc /\ r.pc = "checked" /\ r.todo = proc[p].todo
        /\ r.seen = proc[p].seen /\ r.out = proc[p].out
    BY <1>0 DEF Good, Proc, PCs, Applying
  <2>3. Good(r)
    BY <1>0, <2>2 DEF Good, Changed, Applying
  <2>4. \A g \in File : Target(r, g) => g = f
    BY <1>1, <2>2, ReconcileConstants DEF Target, First, File
  <2>5. files[f].mine = proc[p].seen[f].mine /\ files[f].ours # "edited"
    BY <1>0, <1>3, TurnKeeps DEF AsSeen, Good
  <2>6. \A g \in File : Held(r, g, files[g])
    BY <2>2, <2>4, <2>5 DEF Held
  <2> QED
    BY <2>1, <2>3, <2>6, QuietMoves DEF Check, IInv
<1> QED
  BY <1>2, <1>3

\* A step that writes a text over one with the same part of the people's.
LEMMA WriteMoves ==
  ASSUME IInv, NEW p \in Installer, NEW r, NEW f \in File, NEW x \in TextsOf(f),
         Set(p, r), Good(r), \A g \in File : ~Target(r, g),
         files' = [files EXCEPT ![f] = x],
         x.ours # "edited",
         ~Windows => x.mine = files[f].mine /\ files[f].ours # "edited",
         litter' = litter, edits' = edits, faults' \in 0..MaxFaults
  PROVE  Moves(p, r)
<1>1. x \in Text
  BY TextFacts
<1>2. files' \in [File -> Text]
  BY <1>1 DEF IInv
<1>3. Mild
  BY <1>1 DEF IInv, Mild
<1> QED
  BY <1>2, <1>3 DEF IInv, Moves, Held

LEMMA PublishMoves ==
  ASSUME IInv, NEW p \in Installer, Publish(p) PROVE \E r : Moves(p, r)
<1>0. Good(proc[p]) /\ proc[p].pc = "checked"
  BY DEF IInv, Publish, At
<1>1. PICK f \in File :
        /\ First(p, f)
        /\ files' = [files EXCEPT ![f] = Postimage(p, f)]
        /\ Set(p, [proc[p] EXCEPT !.pc = "published", !.staged = @ \ {f}])
  BY DEF Publish
<1> DEFINE r == [proc[p] EXCEPT !.pc = "published", !.staged = @ \ {f}]
<1>2. /\ r \in Proc /\ r.pc = "published" /\ r.todo = proc[p].todo
      /\ r.seen = proc[p].seen /\ r.out = proc[p].out
  BY <1>0 DEF Good, Proc, PCs, Applying
<1>3. Good(r)
  BY <1>0, <1>2 DEF Good, Changed, Applying
<1>4. \A g \in File : ~Target(r, g)
  BY <1>2 DEF Target
<1>5. Target(proc[p], f)
  BY <1>0, <1>1 DEF Target, First
<1>6. ~Windows => files[f].mine = proc[p].seen[f].mine /\ files[f].ours # "edited"
  BY <1>5 DEF IInv, Held
<1>7. /\ Postimage(p, f) \in TextsOf(f)
      /\ Postimage(p, f).mine = proc[p].seen[f].mine
      /\ Postimage(p, f).ours # "edited"
  BY <1>0, TurnKeeps DEF Postimage, Good
<1> QED
  BY <1>1, <1>3, <1>4, <1>6, <1>7, WriteMoves DEF Publish, IInv

LEMMA CommitMoves ==
  ASSUME IInv, NEW p \in Installer, Commit(p) PROVE \E r : Moves(p, r)
<1>0. Good(proc[p]) /\ proc[p].pc = "published"
  BY DEF IInv, Commit, At
<1>1. PICK f \in File :
        LET rest == proc[p].todo \ {f}
        IN  /\ First(p, f)
            /\ Set(p, [proc[p] EXCEPT
                   !.out = @ \cup {f}, !.todo = rest,
                   !.pc = IF rest = {} THEN "unstage" ELSE "replace",
                   !.how = IF rest = {} THEN "done" ELSE "running"])
  BY DEF Commit
<1> DEFINE rest == proc[p].todo \ {f}
           out == proc[p].out \cup {f}
           pc == IF rest = {} THEN "unstage" ELSE "replace"
           how == IF rest = {} THEN "done" ELSE "running"
           r == [proc[p] EXCEPT !.out = out, !.todo = rest, !.pc = pc, !.how = how]
<1>2. Set(p, r)
  BY <1>1
<1>3. /\ rest \subseteq Changed(proc[p]) /\ rest \subseteq File
      /\ out \subseteq Changed(proc[p]) /\ out \subseteq File
  BY <1>0, <1>1 DEF Good, Applying, Changed, Proc, First
<1>4. pc \in {"unstage", "replace"} /\ how \in {"done", "running"}
  OBVIOUS
<1> HIDE DEF rest, out, pc, how
<1>5. r \in Proc /\ r.pc = pc /\ r.todo = rest /\ r.seen = proc[p].seen /\ r.out = out
  BY <1>0, <1>3, <1>4 DEF Good, Proc, PCs, Applying, Outcome
<1>6. Good(r)
  BY <1>0, <1>3, <1>4, <1>5 DEF Good, Changed
<1>7. \A g \in File : Held(r, g, files[g])
  BY <1>4, <1>5 DEF Held, Target
<1> QED
  BY <1>2, <1>6, <1>7, QuietMoves DEF Commit, IInv

LEMMA TroubleMoves ==
  ASSUME IInv, NEW p \in Installer, Trouble(p) PROVE \E r : Moves(p, r)
<1>1. faults' \in 0..MaxFaults
  BY ReconcileConstants DEF IInv, Trouble, Fault
<1> QED
  BY <1>1, CaughtMoves DEF Trouble, Fault

LEMMA CheckBackMoves ==
  ASSUME IInv, NEW p \in Installer, CheckBack(p) PROVE \E r : Moves(p, r)
<1>0. Good(proc[p]) /\ proc[p].pc = "rollback"
  BY DEF IInv, CheckBack, At
<1>1. PICK f \in File :
        /\ Last(p, f)
        /\ Set(p, IF Renamed(p, f)
                    THEN [proc[p] EXCEPT !.pc = "restoring"]
                    ELSE [proc[p] EXCEPT !.todo = @ \ {f}, !.stuck = @ \cup {f}])
  BY DEF CheckBack
<1>2. CASE Renamed(p, f)
  <2> DEFINE r == [proc[p] EXCEPT !.pc = "restoring"]
  <2>1. Set(p, r)
    BY <1>1, <1>2
  <2>2. /\ r \in Proc /\ r.pc = "restoring" /\ r.todo = proc[p].todo
        /\ r.seen = proc[p].seen /\ r.out = proc[p].out
    BY <1>0 DEF Good, Proc, PCs, Failing
  <2>3. Good(r)
    BY <1>0, <2>2 DEF Good, Changed, Applying
  <2>4. \A g \in File : Target(r, g) => g = f
    BY <1>1, <2>2, ReconcileConstants DEF Target, Last, File
  <2>5. files[f].mine = proc[p].seen[f].mine /\ files[f].ours # "edited"
    BY <1>0, <1>2, TurnKeeps DEF Renamed, Postimage, Good
  <2>6. \A g \in File : Held(r, g, files[g])
    BY <2>2, <2>4, <2>5 DEF Held
  <2> QED
    BY <2>1, <2>3, <2>6, QuietMoves DEF CheckBack, IInv
<1>3. CASE ~Renamed(p, f)
  <2> DEFINE r == [proc[p] EXCEPT !.todo = @ \ {f}, !.stuck = @ \cup {f}]
  <2>1. Set(p, r)
    BY <1>1, <1>3
  <2>2. r \in Proc /\ r.pc = "rollback" /\ r.seen = proc[p].seen /\ r.out = proc[p].out
    BY <1>0 DEF Good, Proc, PCs, Failing
  <2>3. Good(r)
    BY <1>0, <2>2 DEF Good, Changed, Applying
  <2>4. \A g \in File : Held(r, g, files[g])
    BY <2>2 DEF Held, Target
  <2> QED
    BY <2>1, <2>3, <2>4, QuietMoves DEF CheckBack, IInv
<1> QED
  BY <1>2, <1>3

\* The process after one file of its rollback.
LEMMA BackGood ==
  ASSUME IInv, NEW p \in Installer, proc[p].pc = "restoring",
         NEW f \in File, NEW stuck \in SUBSET File
  PROVE  LET r == [proc[p] EXCEPT !.pc = "rollback", !.todo = @ \ {f}, !.stuck = @ \cup stuck]
         IN  Good(r) /\ \A g \in File : ~Target(r, g)
<1> DEFINE r == [proc[p] EXCEPT !.pc = "rollback", !.todo = @ \ {f}, !.stuck = @ \cup stuck]
<1>0. Good(proc[p])
  BY DEF IInv
<1>1. r \in Proc /\ r.pc = "rollback" /\ r.seen = proc[p].seen /\ r.out = proc[p].out
  BY <1>0 DEF Good, Proc, PCs, Failing
<1>2. Good(r)
  BY <1>0, <1>1 DEF Good, Changed, Applying
<1>3. \A g \in File : ~Target(r, g)
  BY <1>1 DEF Target
<1> QED
  BY <1>2, <1>3

\* What a restored file held and holds.
LEMMA RestoredText ==
  ASSUME IInv, NEW p \in Installer, proc[p].pc = "restoring",
         NEW f \in File, Last(p, f)
  PROVE  /\ proc[p].seen[f] \in TextsOf(f)
         /\ proc[p].seen[f].ours # "edited"
         /\ ~Windows => /\ proc[p].seen[f].mine = files[f].mine
                        /\ files[f].ours # "edited"
<1>0. Good(proc[p])
  BY DEF IInv
<1>1. Target(proc[p], f)
  BY DEF Target, Last
<1>2. ~Windows => files[f].mine = proc[p].seen[f].mine /\ files[f].ours # "edited"
  BY <1>1 DEF IInv, Held
<1> QED
  BY <1>0, <1>2, TurnKeeps DEF Good

LEMMA RestoreMoves ==
  ASSUME IInv, NEW p \in Installer, Restore(p) PROVE \E r : Moves(p, r)
<1>0. Good(proc[p]) /\ proc[p].pc = "restoring"
  BY DEF IInv, Restore, At
<1>1. PICK f \in File : /\ Last(p, f)
                        /\ files' = Restored(p, f)
                        /\ Back(p, f, {})
  BY DEF Restore
<1> DEFINE r == [proc[p] EXCEPT !.pc = "rollback", !.todo = @ \ {f}, !.stuck = @ \cup {}]
<1>2. Good(r) /\ \A g \in File : ~Target(r, g)
  BY <1>0, BackGood
<1>3. Set(p, r) /\ files' = [files EXCEPT ![f] = proc[p].seen[f]]
  BY <1>1 DEF Back, Restored
<1>4. litter' = litter /\ edits' = edits /\ faults' \in 0..MaxFaults
  BY DEF Restore, IInv
<1> HIDE DEF r
<1> QED
  BY <1>0, <1>1, <1>2, <1>3, <1>4, RestoredText, WriteMoves

LEMMA RestoreFailsMoves ==
  ASSUME IInv, NEW p \in Installer, RestoreFails(p) PROVE \E r : Moves(p, r)
<1>0. Good(proc[p]) /\ proc[p].pc = "restoring"
  BY DEF IInv, RestoreFails, At
<1>1. PICK f \in File : /\ Last(p, f)
                        /\ files' \in {files, Restored(p, f)}
                        /\ Back(p, f, {f})
  BY DEF RestoreFails
<1> DEFINE r == [proc[p] EXCEPT !.pc = "rollback", !.todo = @ \ {f}, !.stuck = @ \cup {f}]
<1>2. Good(r) /\ \A g \in File : ~Target(r, g)
  BY <1>0, BackGood
<1>3. Set(p, r)
  BY <1>1 DEF Back
<1>4. litter' = litter /\ edits' = edits /\ faults' \in 0..MaxFaults
  BY ReconcileConstants DEF RestoreFails, Fault, IInv
<1> HIDE DEF r
<1>5. CASE files' = files
  BY <1>2, <1>3, <1>4, <1>5, QuietMoves DEF Held, IInv
<1>6. CASE files' = [files EXCEPT ![f] = proc[p].seen[f]]
  BY <1>0, <1>1, <1>2, <1>3, <1>4, <1>6, RestoredText, WriteMoves
<1> QED
  BY <1>1, <1>5, <1>6 DEF Restored

LEMMA RolledBackMoves ==
  ASSUME IInv, NEW p \in Installer, RolledBack(p) PROVE \E r : Moves(p, r)
<1> DEFINE how == IF proc[p].stuck = {} THEN "failed" ELSE "partial"
           r == [proc[p] EXCEPT !.pc = "unstage", !.how = how]
<1>0. Good(proc[p])
  BY DEF IInv
<1>1. how \in {"partial", "failed"}
  OBVIOUS
<1>2. Set(p, r)
  BY DEF RolledBack
<1> HIDE DEF how
<1>3. r \in Proc /\ r.pc = "unstage" /\ r.seen = proc[p].seen /\ r.out = proc[p].out
  BY <1>0, <1>1 DEF Good, Proc, PCs, Outcome
<1>4. Good(r)
  BY <1>0, <1>3 DEF Good, Changed, Applying
<1>5. \A g \in File : Held(r, g, files[g])
  BY <1>3 DEF Held, Target
<1> QED
  BY <1>2, <1>4, <1>5, QuietMoves DEF RolledBack, IInv

LEMMA UnstageMoves ==
  ASSUME IInv, NEW p \in Installer, Unstage(p) PROVE \E r : Moves(p, r)
<1>1. proc[p].how \in Outcome /\ proc[p].touched \in SUBSET File
  BY DEF IInv, Good, Proc
<1> QED
  BY <1>1, EndsMoves DEF Unstage, Ended, IInv

LEMMA CrashMoves ==
  ASSUME IInv, NEW p \in Installer, Crash(p) PROVE \E r : Moves(p, r)
<1> DEFINE how == IF At(p, "unstage") THEN proc[p].how ELSE "killed"
<1>1. how \in Outcome /\ proc[p].touched \in SUBSET File /\ proc[p].staged \in SUBSET File
  BY DEF IInv, Good, Proc, Outcome
<1>2. litter' \subseteq File
  BY <1>1 DEF Crash, IInv
<1>3. edits' = edits /\ faults' \in 0..MaxFaults
  BY ReconcileConstants DEF Crash, Fault, IInv
<1>4. Set(p, At0("idle", how, Unread, proc[p].touched)) /\ files' = files
  BY DEF Crash, Ended
<1> HIDE DEF how
<1> QED
  BY <1>1, <1>2, <1>3, <1>4, EndsMoves

-----------------------------------------------------------------------------
(* The specification.                                                      *)

\* A step of an installer.
Installs == \E p \in Installer : Step(p) \/ Trouble(p) \/ RestoreFails(p) \/ Crash(p)

LEMMA InstallsMove ==
  ASSUME IInv, Installs PROVE \E p \in Installer : \E r : Moves(p, r)
BY InspectMoves, PlanMoves, PreflightMoves, CleanMoves, StageMoves, CheckMoves,
   PublishMoves, CommitMoves, TroubleMoves, CheckBackMoves, RestoreMoves,
   RestoreFailsMoves, RolledBackMoves, UnstageMoves, CrashMoves DEF Installs, Step

\* The other installers still hold the files they are about to write: a step
\* leaves the people's part of every file as it is.
LEMMA MovesIInv ==
  ASSUME IInv, NEW p \in Installer, NEW r, Moves(p, r) PROVE IInv'
<1>1. /\ proc' = [q \in Installer |-> IF q = p THEN r ELSE proc[q]]
      /\ proc' = [q \in Installer |-> proc'[q]]
  BY DEF IInv, Moves, Set
<1>2. \A q \in Installer : Good(proc'[q])
  BY <1>1 DEF IInv, Moves
<1>3. ASSUME NEW q \in Installer, NEW f \in File PROVE Held(proc'[q], f, files'[f])
  <2>1. CASE q = p
    BY <1>1, <2>1 DEF Moves
  <2>2. CASE q # p
    BY <1>1, <2>2 DEF IInv, Moves, Mild, Held
  <2> QED
    BY <2>1, <2>2
<1>4. \A f \in File : files'[f] \in TextsOf(f)
  BY DEF Moves, Mild
<1>5. edits' \in 0..MaxEdits
  BY DEF Moves, IInv
<1>6. /\ files' \in [File -> Text]
      /\ litter' \subseteq File
      /\ faults' \in 0..MaxFaults
  BY DEF Moves
<1> QED
  BY <1>1, <1>2, <1>3, <1>4, <1>5, <1>6 DEF IInv, Good, Held, Target, Changed

\* An edit spares the files about to be written.
LEMMA EditIInv ==
  ASSUME IInv, NEW f \in File, Edit(f) PROVE IInv'
<1>1. PICK x \in TextsOf(f) : files' = [files EXCEPT ![f] = x]
  BY DEF Edit
<1>2. /\ files' \in [File -> Text]
      /\ \A g \in File : files'[g] \in TextsOf(g)
  BY <1>1, TextFacts DEF IInv
<1>3. /\ proc' = [p \in Installer |-> [proc[p] EXCEPT !.touched = @ \cup {f}]]
      /\ proc' = [p \in Installer |-> proc'[p]]
  BY DEF Edit
<1>4. ASSUME NEW p \in Installer
      PROVE  /\ Good(proc'[p])
             /\ proc'[p].pc = proc[p].pc
             /\ proc'[p].todo = proc[p].todo
             /\ proc'[p].seen = proc[p].seen
  <2>0. Good(proc[p])
    BY DEF IInv
  <2>1. proc'[p] = [proc[p] EXCEPT !.touched = @ \cup {f}]
    BY <1>3
  <2>2. /\ proc'[p] \in Proc /\ proc'[p].pc = proc[p].pc
        /\ proc'[p].todo = proc[p].todo /\ proc'[p].seen = proc[p].seen
        /\ proc'[p].staged = proc[p].staged /\ proc'[p].out = proc[p].out
    BY <2>0, <2>1 DEF Good, Proc
  <2> QED
    BY <2>0, <2>2 DEF Good, Changed
<1>5. ASSUME NEW p \in Installer, NEW g \in File PROVE Held(proc'[p], g, files'[g])
  <2>1. Held(proc[p], g, files[g])
    BY DEF IInv
  <2>2. Target(proc'[p], g) <=> Target(proc[p], g)
    BY <1>4 DEF Target
  <2>3. ~Windows => ~Target(proc[p], f)
    BY DEF Edit, Exposed, Target, First, Last, At
  <2>4. CASE g = f
    BY <2>2, <2>3, <2>4 DEF Held
  <2>5. CASE g # f
    BY <1>1, <1>4, <2>1, <2>2, <2>5 DEF Held
  <2> QED
    BY <2>4, <2>5
<1>6. edits' \in 0..MaxEdits /\ litter' \subseteq File /\ faults' \in 0..MaxFaults
  BY ReconcileConstants DEF Edit, IInv
<1> QED
  BY <1>2, <1>3, <1>4, <1>5, <1>6 DEF IInv

LEMMA NextIInv == IInv /\ [Next]_vars => IInv'
<1> SUFFICES ASSUME IInv, [Next]_vars PROVE IInv'
  OBVIOUS
<1>1. CASE Installs
  BY <1>1, InstallsMove, MovesIInv
<1>2. CASE \E f \in File : Edit(f)
  BY <1>2, EditIInv
<1>3. CASE UNCHANGED vars
  BY <1>3 DEF vars, IInv, Good, Changed, Held, Target
<1> QED
  BY <1>1, <1>2, <1>3 DEF Next, Installs

\* The inductive invariant holds in every reachable state.
LEMMA Invariance == Spec => []IInv
BY InitIInv, NextIInv, PTL DEF Spec

\* Files, temporaries and processes keep their shapes; an idle process has
\* nothing on disk and a running one commits only what it planned.
THEOREM TypeCorrect == Spec => []TypeOK
BY Invariance, IInvTypeOK, PTL

\* However many installations run at once, and wherever they fail or are
\* killed, none removes what a person wrote: the one gap is between a check
\* and the rename it is for.
THEOREM TextKept == ASSUME ~Windows PROVE Spec => UserTextKept
<1>1. ASSUME IInv, [Next]_vars
      PROVE  edits' = edits =>
               \A f \in File : /\ files[f].mine => files'[f].mine
                               /\ files[f].ours = "edited" => files'[f].ours = "edited"
  <2>1. CASE Installs
    BY <1>1, <2>1, InstallsMove DEF Moves, Mild
  <2>2. CASE \E f \in File : Edit(f)
    BY <1>1, <2>2 DEF Edit, IInv
  <2>3. CASE UNCHANGED vars
    BY <2>3 DEF vars
  <2> QED
    BY <1>1, <2>1, <2>2, <2>3 DEF Next, Installs
<1>2. IInv /\ [Next]_vars =>
        [edits' = edits =>
          \A f \in File : /\ files[f].mine => files'[f].mine
                          /\ files[f].ours = "edited" => files'[f].ours = "edited"]_vars
  BY <1>1
<1> QED
  BY <1>2, Invariance, PTL DEF Spec, UserTextKept
-----------------------------------------------------------------------------
(* All or nothing, for one installer at a time.                            *)

\* Only one process runs the command, no edit falls between a check and its
\* rename, and no interrupt between a rename and its being noted.
Alone == (\E p : Installer = {p}) /\ ~Windows /\ ~Interrupts

\* Renamed by the loop under way, noted or about to be.
Written(r, f) ==
  f \in r.out \/ (r.pc = "published" /\ f \in r.todo /\ \A g \in r.todo : f <= g)

Replacing == {"replace", "checked", "published"}

\* The files as an installer that runs alone knows them: what nobody else
\* wrote is as it was read or, once renamed, as planned; so is the file it
\* is about to write, whoever wrote it before.
Kept(r, x) ==
  /\ r.how = "running" <=> r.pc \notin {"idle", "unstage"}
  /\ r.pc \in {"inspected", "planned", "clean", "stage"} => r.out = {}
  /\ r.pc \notin Failing \cup {"unstage"} => r.stuck = {}
  /\ r.pc = "inspected" => \A f \in File \ r.touched : Legacy(f) => x[f] = r.seen[f]
  /\ r.pc \in {"planned", "clean"} \cup Applying =>
       \A f \in File \ r.touched :
         x[f] = IF Written(r, f) THEN Turn(f, r.seen[f]) ELSE r.seen[f]
  /\ r.pc \in Replacing => r.out \cup r.todo = Changed(r) /\ r.out \cap r.todo = {}
  /\ \A f \in File : Target(r, f) =>
       x[f] = IF r.pc = "checked" THEN r.seen[f] ELSE Turn(f, r.seen[f])

\* The inductive invariant of such runs.
AloneInv == IInv /\ \A p \in Installer : Kept(proc[p], files)

\* What f counts as, for a process r and files x: Visible with one installer.
Pending(r, f) == IF r.pc \in Failing THEN f \in r.todo \cup r.stuck ELSE Written(r, f)
Sees(r, x, f) ==
  IF r.how = "running" /\ x[f] = Turn(f, r.seen[f]) /\ Pending(r, f) THEN r.seen[f] ELSE x[f]

\* The steps of the transaction, for a process r over files x that becomes s
\* over files y.
Same(r, x, s, y) == \A f \in File : Sees(s, y, f) = Sees(r, x, f)
Some(r, x, s, y) ==
  \A f \in File : Sees(s, y, f) \in {Sees(r, x, f), Turn(f, Sees(r, x, f))}
Stays(r, x, s, y) == s.how = r.how /\ s.touched = r.touched /\ Same(r, x, s, y)
Begins(r, x, s, y) ==
  /\ r.how # "running" /\ s.how \in {"running", "refused"}
  /\ s.touched = {} /\ Same(r, x, s, y)
Commits(r, x, s, y) ==
  /\ r.how = "running" /\ s.how = "done"
  /\ s.touched = r.touched /\ Some(r, x, s, y)
  /\ \A f \in File \ r.touched : Sees(s, y, f) = Turn(f, Sees(r, x, f))
Abandons(r, x, s, y) ==
  /\ r.how = "running" /\ s.how \in {"refused", "failed"}
  /\ s.touched = r.touched /\ Same(r, x, s, y)
Breaks(r, x, s, y) ==
  /\ r.how = "running" /\ s.how \in {"partial", "killed"}
  /\ s.touched = r.touched /\ Some(r, x, s, y)

\* What a step of the installer p comes to.
Follows(p, s) ==
  /\ Set(p, s)
  /\ Kept(s, files')
  /\ \/ Stays(proc[p], files, s, files')   \/ Begins(proc[p], files, s, files')
     \/ Commits(proc[p], files, s, files') \/ Abandons(proc[p], files, s, files')
     \/ Breaks(proc[p], files, s, files')

\* The assumptions of a step: an installer that knows the files.
Knows(p) == p \in Installer /\ Good(proc[p]) /\ Kept(proc[p], files)

\* What an ended process counts and knows: the files as they are.
LEMMA EndedSees ==
  ASSUME NEW how, how # "running", NEW t, NEW y, NEW s, s = At0("idle", how, Unread, t)
  PROVE  Kept(s, y) /\ \A f \in File : Sees(s, y, f) = y[f]
BY DEF At0, Kept, Sees, Failing, Applying, Replacing, Target

\* Before the first rename the files count as they are.
LEMMA EarlySees ==
  ASSUME NEW p, Knows(p), proc[p].pc \in {"inspected", "planned", "clean", "stage"}
  PROVE  \A f \in File : Sees(proc[p], files, f) = files[f]
BY DEF Knows, Kept, Sees, Pending, Written, Failing

LEMMA InspectFollows ==
  ASSUME NEW p, Knows(p), Inspect(p) PROVE \E s : Follows(p, s)
<1>1. proc[p].pc = "idle" /\ proc[p].how # "running" /\ files' = files
  BY DEF Knows, Kept, Inspect, At
<1>2. \A f \in File : Sees(proc[p], files, f) = files[f]
  BY <1>1 DEF Sees
<1>3. CASE \E f \in File : Legacy(f) /\ Refused(f, files[f])
  <2> DEFINE s == At0("idle", "refused", Unread, {})
  <2>1. Set(p, s)
    BY <1>3 DEF Inspect
  <2>a. s = At0("idle", "refused", Unread, {})
    OBVIOUS
  <2> HIDE DEF s
  <2>2. s.how = "refused" /\ s.touched = {}
    BY <2>a DEF At0
  <2>c. Kept(s, files)
    BY <2>a, EndedSees
  <2>b. \A f \in File : Sees(s, files, f) = files[f]
    BY <2>a, EndedSees
  <2> QED
    BY <1>1, <1>2, <2>1, <2>2, <2>b, <2>c DEF Follows, Begins, Same
<1>4. CASE ~ \E f \in File : Legacy(f) /\ Refused(f, files[f])
  <2> DEFINE seen == [f \in File |-> IF Legacy(f) THEN files[f] ELSE Absent]
             s == At0("inspected", "running", seen, {})
  <2>1. Set(p, s)
    BY <1>4 DEF Inspect
  <2>2. /\ s.pc = "inspected" /\ s.how = "running" /\ s.out = {}
        /\ s.stuck = {} /\ s.touched = {} /\ s.seen = seen
    BY DEF At0
  <2>3. \A f \in File : Legacy(f) => seen[f] = files[f]
    OBVIOUS
  <2> HIDE DEF s, seen
  <2>4. Kept(s, files)
    BY <2>2, <2>3 DEF Kept, Failing, Applying, Replacing, Target
  <2>5. \A f \in File : Sees(s, files, f) = files[f]
    BY <2>2 DEF Sees, Pending, Written, Failing
  <2> QED
    BY <1>1, <1>2, <2>1, <2>2, <2>4, <2>5 DEF Follows, Begins, Same
<1> QED
  BY <1>3, <1>4

\* Refused before the first rename.
LEMMA RefusedFollows ==
  ASSUME NEW p, Knows(p), proc[p].pc \in {"inspected", "planned", "clean", "stage"},
         Ended(p, "refused"), files' = files
  PROVE  \E s : Follows(p, s)
<1> DEFINE s == At0("idle", "refused", Unread, proc[p].touched)
<1>1. Set(p, s)
  BY DEF Ended
<1>a. s = At0("idle", "refused", Unread, proc[p].touched)
  OBVIOUS
<1> HIDE DEF s
<1>2. s.how = "refused" /\ s.touched = proc[p].touched
  BY <1>a DEF At0
<1>c. Kept(s, files)
  BY <1>a, EndedSees
<1>b. \A f \in File : Sees(s, files, f) = files[f]
  BY <1>a, EndedSees
<1>3. proc[p].how = "running"
  BY DEF Knows, Kept
<1> QED
  BY <1>1, <1>2, <1>b, <1>c, <1>3, EarlySees DEF Follows, Abandons, Same

LEMMA PlanFollows ==
  ASSUME NEW p, Knows(p), Plan(p) PROVE \E s : Follows(p, s)
<1> DEFINE stop == \E f \in File : \/ Legacy(f) /\ f \in Mutable(p) /\ ~AsSeen(p, f)
                                   \/ ~Legacy(f) /\ Refused(f, files[f])
           seen == [f \in File |-> IF Legacy(f) THEN proc[p].seen[f] ELSE files[f]]
           s == [proc[p] EXCEPT !.pc = "planned", !.seen = seen]
<1>1. proc[p].pc = "inspected" /\ files' = files
  BY DEF Plan, At
<1>2. CASE Ended(p, "refused")
  BY <1>1, <1>2, RefusedFollows
<1>3. CASE Set(p, s)
  <2>1. /\ s.pc = "planned" /\ s.how = proc[p].how /\ s.out = proc[p].out
        /\ s.stuck = proc[p].stuck /\ s.touched = proc[p].touched /\ s.seen = seen
    BY DEF Knows, Good, Proc
  <2>2. \A f \in File \ proc[p].touched : files[f] = seen[f]
    BY <1>1 DEF Knows, Kept
  <2> HIDE DEF s, seen
  <2>3. \A f : ~Written(s, f)
    BY <1>1, <2>1 DEF Written, Knows, Kept
  <2>4. Kept(s, files)
    BY <1>1, <2>1, <2>2, <2>3 DEF Knows, Kept, Failing, Applying, Replacing, Target
  <2>5. \A f \in File : Sees(s, files, f) = files[f]
    BY <2>1, <2>3 DEF Sees, Pending, Failing
  <2> QED
    BY <1>1, <1>3, <2>1, <2>4, <2>5, EarlySees DEF Follows, Stays, Same
<1> QED
  BY <1>2, <1>3 DEF Plan

LEMMA PreflightFollows ==
  ASSUME NEW p, Knows(p), Preflight(p) PROVE \E s : Follows(p, s)
<1> DEFINE s == [proc[p] EXCEPT !.pc = "clean"]
<1>1. proc[p].pc = "planned" /\ files' = files
  BY DEF Preflight, At
<1>2. CASE Ended(p, "refused")
  BY <1>1, <1>2, RefusedFollows
<1>3. CASE Set(p, s)
  <2>1. /\ s.pc = "clean" /\ s.how = proc[p].how /\ s.out = proc[p].out
        /\ s.stuck = proc[p].stuck /\ s.touched = proc[p].touched /\ s.seen = proc[p].seen
    BY DEF Knows, Good, Proc
  <2> HIDE DEF s
  <2>2. \A f : ~Written(s, f) /\ ~Written(proc[p], f)
    BY <1>1, <2>1 DEF Written, Knows, Kept
  <2>3. Kept(s, files)
    BY <1>1, <2>1, <2>2 DEF Knows, Kept, Failing, Applying, Replacing, Target
  <2>4. \A f \in File : Sees(s, files, f) = files[f]
    BY <2>1, <2>2 DEF Sees, Pending, Failing
  <2> QED
    BY <1>1, <1>3, <2>1, <2>3, <2>4, EarlySees DEF Follows, Stays, Same
<1> QED
  BY <1>2, <1>3 DEF Preflight

\* A plan that changes nothing is an installation of all of it.
LEMMA CleanFollows ==
  ASSUME NEW p, Knows(p), Clean(p) PROVE \E s : Follows(p, s)
<1>1. proc[p].pc = "clean" /\ proc[p].how = "running" /\ files' = files
  BY DEF Clean, At, Knows, Kept
<1>2. \A f : ~Written(proc[p], f)
  BY <1>1 DEF Written, Knows, Kept
<1>3. \A f \in File : Sees(proc[p], files, f) = files[f]
  BY <1>1, EarlySees
<1>4. CASE Mutable(p) = {}
  <2> DEFINE s == At0("idle", "done", Unread, proc[p].touched)
  <2>1. Set(p, s)
    BY <1>4 DEF Clean, Ended
  <2>a. s = At0("idle", "done", Unread, proc[p].touched)
    OBVIOUS
  <2> HIDE DEF s
  <2>2. s.how = "done" /\ s.touched = proc[p].touched
    BY <2>a DEF At0
  <2>c. Kept(s, files)
    BY <2>a, EndedSees
  <2>b. \A f \in File : Sees(s, files, f) = files[f]
    BY <2>a, EndedSees
  <2>3. ASSUME NEW f \in File \ proc[p].touched PROVE files[f] = Turn(f, files[f])
    <3>1. files[f] = proc[p].seen[f]
      BY <1>1, <1>2 DEF Knows, Kept, Applying
    <3>2. ~Changes(f, proc[p].seen[f])
      BY <1>4 DEF Mutable
    <3> QED
      BY <3>1, <3>2 DEF Turn
  <2> QED
    BY <1>1, <1>3, <2>1, <2>2, <2>b, <2>c, <2>3 DEF Follows, Commits, Some
<1>5. CASE Mutable(p) # {}
  <2> DEFINE s == [proc[p] EXCEPT !.pc = "stage", !.todo = Mutable(p)]
  <2>1. Set(p, s)
    BY <1>5 DEF Clean
  <2>2. /\ s.pc = "stage" /\ s.how = proc[p].how /\ s.out = proc[p].out
        /\ s.stuck = proc[p].stuck /\ s.touched = proc[p].touched /\ s.seen = proc[p].seen
    BY DEF Knows, Good, Proc
  <2> HIDE DEF s
  <2>3. \A f : ~Written(s, f)
    BY <1>1, <2>2 DEF Written, Knows, Kept
  <2>4. Kept(s, files)
    BY <1>1, <1>2, <2>2, <2>3 DEF Knows, Kept, Failing, Applying, Replacing, Target
  <2>5. \A f \in File : Sees(s, files, f) = files[f]
    BY <2>2, <2>3 DEF Sees, Pending, Failing
  <2> QED
    BY <1>1, <1>3, <2>1, <2>2, <2>4, <2>5 DEF Follows, Stays, Same
<1> QED
  BY <1>4, <1>5

\* An exception in a loop, with no file renamed and not noted: what is to be
\* rolled back is what was to be committed.
LEMMA CaughtFollows ==
  ASSUME NEW p, Knows(p), Set(p, Caught(p)), files' = files,
         proc[p].pc \in {"stage", "replace", "checked"}
  PROVE  \E s : Follows(p, s)
<1> DEFINE s == Caught(p)
<1>1. /\ s.pc = "rollback" /\ s.how = proc[p].how /\ s.out = proc[p].out
      /\ s.stuck = proc[p].stuck /\ s.touched = proc[p].touched
      /\ s.seen = proc[p].seen /\ s.todo = proc[p].out
  BY DEF Knows, Good, Proc, Caught
<1>2. Set(p, s)
  OBVIOUS
<1> HIDE DEF s
<1>3. proc[p].how = "running" /\ proc[p].stuck = {}
  BY DEF Knows, Kept, Failing
<1>4. Kept(s, files)
  BY <1>1, <1>3 DEF Knows, Kept, Failing, Applying, Replacing, Target
<1>5. \A f : Pending(s, f) <=> Pending(proc[p], f)
  BY <1>1, <1>3 DEF Pending, Written, Failing
<1>6. Same(proc[p], files, s, files)
  BY <1>1, <1>5 DEF Same, Sees
<1> QED
  BY <1>1, <1>2, <1>4, <1>6 DEF Follows, Stays

LEMMA StageFollows ==
  ASSUME NEW p, Knows(p), Stage(p) PROVE \E s : Follows(p, s)
<1>0. proc[p].pc = "stage" /\ files' = files
  BY DEF Stage, At
<1>1. PICK f \in File :
        LET rest == proc[p].todo \ {f}
            kept == IF Kind[f] = "retire" THEN {} ELSE {f}
        IN  /\ First(p, f)
            /\ IF AsSeen(p, f)
                 THEN Set(p, [proc[p] EXCEPT
                        !.staged = @ \cup kept,
                        !.todo = IF rest = {} THEN Mutable(p) ELSE rest,
                        !.pc = IF rest = {} THEN "replace" ELSE "stage"])
                 ELSE Set(p, Caught(p))
  BY DEF Stage
<1>2. CASE ~AsSeen(p, f)
  BY <1>0, <1>1, <1>2, CaughtFollows
<1>3. CASE AsSeen(p, f)
  <2> DEFINE rest == proc[p].todo \ {f}
             kept == IF Kind[f] = "retire" THEN {} ELSE {f}
             todo == IF rest = {} THEN Mutable(p) ELSE rest
             pc == IF rest = {} THEN "replace" ELSE "stage"
             staged == proc[p].staged \cup kept
             s == [proc[p] EXCEPT !.staged = staged, !.todo = todo, !.pc = pc]
  <2>1. Set(p, s)
    BY <1>1, <1>3
  <2>2. /\ pc \in {"replace", "stage"}
        /\ pc = "replace" => todo = Changed(proc[p])
    BY DEF Changed, Mutable
  <2> HIDE DEF rest, kept, todo, pc, staged
  <2>3. /\ s.pc = pc /\ s.how = proc[p].how /\ s.out = proc[p].out /\ s.todo = todo
        /\ s.stuck = proc[p].stuck /\ s.touched = proc[p].touched /\ s.seen = proc[p].seen
    BY DEF Knows, Good, Proc
  <2> HIDE DEF s
  <2>4. \A g : ~Written(s, g) /\ ~Written(proc[p], g)
    BY <1>0, <2>2, <2>3 DEF Written, Knows, Kept
  <2>5. Kept(s, files)
    BY <1>0, <2>2, <2>3, <2>4 DEF Knows, Kept, Failing, Applying, Replacing, Target, Changed
  <2>6. \A g \in File : Sees(s, files, g) = files[g]
    BY <2>2, <2>3, <2>4 DEF Sees, Pending, Failing
  <2> QED
    BY <1>0, <2>1, <2>3, <2>5, <2>6, EarlySees DEF Follows, Stays, Same
<1> QED
  BY <1>2, <1>3

LEMMA CheckFollows ==
  ASSUME NEW p, Knows(p), Check(p) PROVE \E s : Follows(p, s)
<1>0. proc[p].pc = "replace" /\ files' = files
  BY DEF Check, At
<1>1. PICK f \in File :
        /\ First(p, f)
        /\ Set(p, IF AsSeen(p, f) THEN [proc[p] EXCEPT !.pc = "checked"] ELSE Caught(p))
  BY DEF Check
<1>2. CASE ~AsSeen(p, f)
  BY <1>0, <1>1, <1>2, CaughtFollows
<1>3. CASE AsSeen(p, f)
  <2> DEFINE s == [proc[p] EXCEPT !.pc = "checked"]
  <2>1. Set(p, s)
    BY <1>1, <1>3
  <2>2. /\ s.pc = "checked" /\ s.how = proc[p].how /\ s.out = proc[p].out
        /\ s.todo = proc[p].todo
        /\ s.stuck = proc[p].stuck /\ s.touched = proc[p].touched /\ s.seen = proc[p].seen
    BY DEF Knows, Good, Proc
  <2> HIDE DEF s
  <2>3. \A g \in File : Target(s, g) => g = f
    BY <1>1, <2>2, ReconcileConstants DEF Target, First, File
  <2>4. \A g : Written(s, g) <=> Written(proc[p], g)
    BY <1>0, <2>2 DEF Written
  <2>5. Kept(s, files)
    BY <1>0, <1>3, <2>2, <2>3, <2>4
       DEF Knows, Kept, Failing, Applying, Replacing, AsSeen, Changed
  <2>6. Same(proc[p], files, s, files)
    BY <1>0, <2>2, <2>4 DEF Same, Sees, Pending, Failing
  <2> QED
    BY <1>0, <2>1, <2>2, <2>5, <2>6 DEF Follows, Stays
<1> QED
  BY <1>2, <1>3

\* A file put in place, or not yet there, counts as it was read.
LEMMA PublishFollows ==
  ASSUME NEW p, Knows(p), files \in [File -> Text], Publish(p) PROVE \E s : Follows(p, s)
<1>0. proc[p].pc = "checked"
  BY DEF Publish, At
<1>1. PICK f \in File :
        /\ First(p, f)
        /\ files' = [files EXCEPT ![f] = Postimage(p, f)]
        /\ Set(p, [proc[p] EXCEPT !.pc = "published", !.staged = @ \ {f}])
  BY DEF Publish
<1> DEFINE s == [proc[p] EXCEPT !.pc = "published", !.staged = @ \ {f}]
<1>2. Set(p, s)
  BY <1>1
<1>3. /\ s.pc = "published" /\ s.how = proc[p].how /\ s.out = proc[p].out
      /\ s.todo = proc[p].todo
      /\ s.stuck = proc[p].stuck /\ s.touched = proc[p].touched /\ s.seen = proc[p].seen
  BY DEF Knows, Good, Proc
<1> HIDE DEF s
<1>4. /\ files'[f] = Turn(f, proc[p].seen[f])
      /\ \A g \in File : g # f => files'[g] = files[g]
  BY <1>1 DEF Postimage
<1>5. Target(proc[p], f)
  BY <1>0, <1>1 DEF Target, First
<1>6. files[f] = proc[p].seen[f]
  BY <1>0, <1>5 DEF Knows, Kept
<1>7. /\ Written(s, f) /\ ~Written(proc[p], f)
      /\ \A g \in File : g # f => (Written(s, g) <=> Written(proc[p], g))
  <2>1. f \in proc[p].todo /\ \A g \in proc[p].todo : f <= g
    BY <1>1 DEF First
  <2>2. \A g \in proc[p].todo : (\A h \in proc[p].todo : g <= h) => g = f
    BY <2>1, ReconcileConstants DEF Knows, Good, Proc, File
  <2>3. f \notin proc[p].out
    BY <1>0, <2>1 DEF Knows, Kept, Replacing
  <2> QED
    BY <1>0, <1>3, <2>1, <2>2, <2>3 DEF Written
<1>8. Kept(s, files')
  <2>1. \A g \in File \ s.touched :
          files'[g] = IF Written(s, g) THEN Turn(g, s.seen[g]) ELSE s.seen[g]
    BY <1>0, <1>3, <1>4, <1>7 DEF Knows, Kept, Applying
  <2>2. \A g \in File : ~Target(s, g)
    BY <1>3 DEF Target
  <2>3. s.how = "running" /\ s.stuck = {}
    BY <1>0, <1>3 DEF Knows, Kept, Failing
  <2>4. s.out \cup s.todo = Changed(s) /\ s.out \cap s.todo = {}
    BY <1>0, <1>3 DEF Knows, Kept, Replacing, Changed
  <2> QED
    BY <1>3, <2>1, <2>2, <2>3, <2>4 DEF Kept, Failing, Applying, Replacing
<1>9. Same(proc[p], files, s, files')
  <2>0. s.how = "running" /\ Pending(s, f)
    BY <1>0, <1>3, <1>7 DEF Knows, Kept, Pending, Failing
  <2>1. Sees(s, files', f) = proc[p].seen[f] /\ Sees(proc[p], files, f) = proc[p].seen[f]
    BY <1>3, <1>4, <1>6, <2>0 DEF Sees
  <2>2. \A g \in File : g # f => Sees(s, files', g) = Sees(proc[p], files, g)
    BY <1>0, <1>3, <1>4, <1>7 DEF Sees, Pending, Failing
  <2> QED
    BY <2>1, <2>2 DEF Same
<1> QED
  BY <1>2, <1>3, <1>8, <1>9 DEF Follows, Stays

\* With the last file noted, all of them count as installed.
LEMMA CommitFollows ==
  ASSUME NEW p, Knows(p), Commit(p) PROVE \E s : Follows(p, s)
<1>0. proc[p].pc = "published" /\ proc[p].how = "running" /\ files' = files
  BY DEF Commit, At, Knows, Kept
<1>1. PICK f \in File :
        LET rest == proc[p].todo \ {f}
        IN  /\ First(p, f)
            /\ Set(p, [proc[p] EXCEPT
                   !.out = @ \cup {f}, !.todo = rest,
                   !.pc = IF rest = {} THEN "unstage" ELSE "replace",
                   !.how = IF rest = {} THEN "done" ELSE "running"])
  BY DEF Commit
<1> DEFINE rest == proc[p].todo \ {f}
           out == proc[p].out \cup {f}
           pc == IF rest = {} THEN "unstage" ELSE "replace"
           how == IF rest = {} THEN "done" ELSE "running"
           s == [proc[p] EXCEPT !.out = out, !.todo = rest, !.pc = pc, !.how = how]
<1>2. Set(p, s)
  BY <1>1
<1>3. /\ s.pc = pc /\ s.how = how /\ s.out = out /\ s.todo = rest
      /\ s.stuck = proc[p].stuck /\ s.touched = proc[p].touched /\ s.seen = proc[p].seen
  BY DEF Knows, Good, Proc
<1> HIDE DEF s
<1>4. f \in proc[p].todo /\ \A g \in proc[p].todo : f <= g
  BY <1>1 DEF First
<1>5. /\ proc[p].out \cup proc[p].todo = Changed(proc[p])
      /\ proc[p].out \cap proc[p].todo = {}
  BY <1>0 DEF Knows, Kept, Replacing
<1>6. \A g \in File : Written(proc[p], g) <=> g \in out
  <2>1. \A g \in proc[p].todo : (\A h \in proc[p].todo : g <= h) => g = f
    BY <1>4, ReconcileConstants DEF Knows, Good, Proc, File
  <2> QED
    BY <1>0, <1>4, <2>1 DEF Written
<1>7. \A g \in File \ proc[p].touched :
        files[g] = IF g \in out THEN Turn(g, proc[p].seen[g]) ELSE proc[p].seen[g]
  BY <1>0, <1>6 DEF Knows, Kept, Applying
<1>8. \A g \in File : Sees(proc[p], files, g) =
        IF files[g] = Turn(g, proc[p].seen[g]) /\ g \in out THEN proc[p].seen[g] ELSE files[g]
  BY <1>0, <1>6 DEF Sees, Pending, Failing
<1>9. proc[p].stuck = {}
  BY <1>0 DEF Knows, Kept, Failing
<1>10. CASE rest = {}
  <2>1. pc = "unstage" /\ how = "done" /\ out = Changed(proc[p])
    BY <1>4, <1>5, <1>10
  <2> HIDE DEF rest, out, pc, how
  <2>2. \A g \in File : Sees(s, files, g) = files[g]
    BY <1>3, <2>1 DEF Sees
  <2>3. \A g \in File \ proc[p].touched : files[g] = Turn(g, Sees(proc[p], files, g))
    <3>1. \A g \in File : g \notin out => Turn(g, proc[p].seen[g]) = proc[p].seen[g]
      BY <2>1 DEF Changed, Turn
    <3> QED
      BY <1>7, <1>8, <3>1
  <2>4. Some(proc[p], files, s, files)
    BY <1>8, <2>2 DEF Some
  <2>5. Kept(s, files)
    BY <1>3, <2>1 DEF Kept, Failing, Applying, Replacing, Target
  <2> QED
    BY <1>0, <1>2, <1>3, <2>1, <2>2, <2>3, <2>4, <2>5 DEF Follows, Commits
<1>11. CASE rest # {}
  <2>1. pc = "replace" /\ how = "running"
    BY <1>11
  <2>2. out \cup rest = Changed(proc[p]) /\ out \cap rest = {}
    BY <1>4, <1>5
  <2> HIDE DEF rest, out, pc, how
  <2>3. \A g \in File : Written(s, g) <=> g \in out
    BY <1>3, <2>1 DEF Written
  <2>4. Kept(s, files)
    BY <1>3, <1>7, <1>9, <2>1, <2>2, <2>3 DEF Kept, Failing, Applying, Replacing, Target, Changed
  <2>5. Same(proc[p], files, s, files)
    BY <1>3, <1>8, <2>1, <2>3 DEF Same, Sees, Pending, Failing
  <2> QED
    BY <1>0, <1>2, <1>3, <2>1, <2>4, <2>5 DEF Follows, Stays
<1> QED
  BY <1>10, <1>11

LEMMA CheckBackFollows ==
  ASSUME NEW p, Knows(p), CheckBack(p) PROVE \E s : Follows(p, s)
<1>0. proc[p].pc = "rollback" /\ files' = files
  BY DEF CheckBack, At
<1>1. PICK f \in File :
        /\ Last(p, f)
        /\ Set(p, IF Renamed(p, f)
                    THEN [proc[p] EXCEPT !.pc = "restoring"]
                    ELSE [proc[p] EXCEPT !.todo = @ \ {f}, !.stuck = @ \cup {f}])
  BY DEF CheckBack
<1>2. CASE Renamed(p, f)
  <2> DEFINE s == [proc[p] EXCEPT !.pc = "restoring"]
  <2>1. Set(p, s)
    BY <1>1, <1>2
  <2>2. /\ s.pc = "restoring" /\ s.how = proc[p].how /\ s.todo = proc[p].todo
        /\ s.stuck = proc[p].stuck /\ s.touched = proc[p].touched /\ s.seen = proc[p].seen
    BY DEF Knows, Good, Proc
  <2> HIDE DEF s
  <2>3. \A g \in File : Target(s, g) => g = f
    BY <1>1, <2>2, ReconcileConstants DEF Target, Last, File
  <2>4. Kept(s, files)
    BY <1>0, <1>2, <2>2, <2>3
       DEF Knows, Kept, Failing, Applying, Replacing, Renamed, Postimage
  <2>5. Same(proc[p], files, s, files)
    BY <1>0, <2>2 DEF Same, Sees, Pending, Failing
  <2> QED
    BY <1>0, <2>1, <2>2, <2>4, <2>5 DEF Follows, Stays
<1>3. CASE ~Renamed(p, f)
  <2> DEFINE todo == proc[p].todo \ {f}
             stuck == proc[p].stuck \cup {f}
             s == [proc[p] EXCEPT !.todo = todo, !.stuck = stuck]
  <2>1. Set(p, s)
    BY <1>1, <1>3
  <2>2. /\ s.pc = "rollback" /\ s.how = proc[p].how /\ s.todo = todo
        /\ s.stuck = stuck /\ s.touched = proc[p].touched /\ s.seen = proc[p].seen
    BY <1>0 DEF Knows, Good, Proc
  <2>3. todo \cup stuck = proc[p].todo \cup proc[p].stuck
    BY <1>1 DEF Last
  <2> HIDE DEF s, todo, stuck
  <2>4. Kept(s, files)
    BY <1>0, <2>2 DEF Knows, Kept, Failing, Applying, Replacing, Target
  <2>5. Same(proc[p], files, s, files)
    BY <1>0, <2>2, <2>3 DEF Same, Sees, Pending, Failing
  <2> QED
    BY <1>0, <2>1, <2>2, <2>4, <2>5 DEF Follows, Stays
<1> QED
  BY <1>2, <1>3

\* A file renamed and about to be restored counts as it was read, and so it
\* does once it is restored, or given up as it is.
LEMMA BackFollows ==
  ASSUME NEW p, Knows(p), files \in [File -> Text], proc[p].pc = "restoring",
         NEW f \in File, Last(p, f), NEW gone \in {{}, {f}}, Back(p, f, gone),
         \/ files' = Restored(p, f)
         \/ files' = files /\ gone = {f}
  PROVE  \E s : Follows(p, s)
<1> DEFINE todo == proc[p].todo \ {f}
           stuck == proc[p].stuck \cup gone
           s == [proc[p] EXCEPT !.pc = "rollback", !.todo = todo, !.stuck = stuck]
<1>1. Set(p, s)
  BY DEF Back
<1>2. /\ s.pc = "rollback" /\ s.how = proc[p].how /\ s.todo = todo
      /\ s.stuck = stuck /\ s.touched = proc[p].touched /\ s.seen = proc[p].seen
  BY DEF Knows, Good, Proc
<1>3. /\ f \in proc[p].todo
      /\ \A g \in File : g # f =>
           (g \in todo \cup stuck <=> g \in proc[p].todo \cup proc[p].stuck)
      /\ gone = {f} => f \in stuck
  BY DEF Last
<1> HIDE DEF s, todo, stuck
<1>4. proc[p].how = "running"
  BY DEF Knows, Kept
<1>5. files[f] = Turn(f, proc[p].seen[f])
  <2>1. Target(proc[p], f)
    BY DEF Target, Last
  <2> QED
    BY <2>1 DEF Knows, Kept
<1>6. Kept(s, files')
  BY <1>2, <1>4 DEF Kept, Failing, Applying, Replacing, Target
<1>7. \A g \in File : g # f => files'[g] = files[g]
  BY DEF Restored
<1>8. Sees(proc[p], files, f) = proc[p].seen[f]
  BY <1>3, <1>4, <1>5 DEF Sees, Pending, Failing
<1>9. Sees(s, files', f) = proc[p].seen[f]
  <2>1. CASE files' = Restored(p, f)
    BY <1>2, <2>1 DEF Restored, Sees
  <2>2. CASE files' = files /\ gone = {f}
    BY <1>2, <1>3, <1>4, <1>5, <2>2 DEF Sees, Pending, Failing
  <2> QED
    BY <2>1, <2>2
<1>10. \A g \in File : g # f => Sees(s, files', g) = Sees(proc[p], files, g)
  BY <1>2, <1>3, <1>7 DEF Sees, Pending, Failing
<1>11. Same(proc[p], files, s, files')
  BY <1>8, <1>9, <1>10 DEF Same
<1> QED
  BY <1>1, <1>2, <1>6, <1>11 DEF Follows, Stays

LEMMA RestoresFollow ==
  ASSUME NEW p, Knows(p), files \in [File -> Text], Restore(p) \/ RestoreFails(p)
  PROVE  \E s : Follows(p, s)
<1>1. CASE Restore(p)
  <2>1. PICK f \in File : Last(p, f) /\ files' = Restored(p, f) /\ Back(p, f, {})
    BY <1>1 DEF Restore
  <2> QED
    BY <1>1, <2>1, BackFollows DEF Restore, At
<1>2. CASE RestoreFails(p)
  <2>1. PICK f \in File : /\ Last(p, f)
                          /\ files' \in {files, Restored(p, f)}
                          /\ Back(p, f, {f})
    BY <1>2 DEF RestoreFails
  <2> QED
    BY <1>2, <2>1, BackFollows DEF RestoreFails, At
<1> QED
  BY <1>1, <1>2

\* A rollback that restored every file leaves the files as they counted.
LEMMA RolledBackFollows ==
  ASSUME NEW p, Knows(p), RolledBack(p) PROVE \E s : Follows(p, s)
<1>0. /\ proc[p].pc = "rollback" /\ proc[p].how = "running"
      /\ proc[p].todo = {} /\ files' = files
  BY DEF RolledBack, At, Knows, Kept
<1> DEFINE how == IF proc[p].stuck = {} THEN "failed" ELSE "partial"
           s == [proc[p] EXCEPT !.pc = "unstage", !.how = how]
<1>1. Set(p, s)
  BY DEF RolledBack
<1>2. s.pc = "unstage" /\ s.how = how /\ s.touched = proc[p].touched /\ s.stuck = proc[p].stuck
  BY DEF Knows, Good, Proc
<1>3. \A g \in File : Sees(proc[p], files, g) =
        IF files[g] = Turn(g, proc[p].seen[g]) /\ g \in proc[p].stuck
          THEN proc[p].seen[g] ELSE files[g]
  BY <1>0 DEF Sees, Pending, Failing
<1>4. how \in {"failed", "partial"} /\ (how = "failed" => proc[p].stuck = {})
  OBVIOUS
<1> HIDE DEF s, how
<1>5. Kept(s, files)
  BY <1>2, <1>4 DEF Kept, Failing, Applying, Replacing, Target
<1>6. \A g \in File : Sees(s, files, g) = files[g]
  BY <1>2, <1>4 DEF Sees
<1>7. CASE how = "failed"
  <2>1. Same(proc[p], files, s, files)
    BY <1>3, <1>4, <1>6, <1>7 DEF Same
  <2> QED
    BY <1>0, <1>1, <1>2, <1>5, <1>7, <2>1 DEF Follows, Abandons
<1>8. CASE how = "partial"
  <2>1. Some(proc[p], files, s, files)
    BY <1>3, <1>6 DEF Some
  <2> QED
    BY <1>0, <1>1, <1>2, <1>5, <1>8, <2>1 DEF Follows, Breaks
<1> QED
  BY <1>4, <1>7, <1>8

\* A process that is killed leaves the files it renamed, or had ended.
LEMMA LeavesFollow ==
  ASSUME NEW p, Knows(p), Unstage(p) \/ Crash(p) PROVE \E s : Follows(p, s)
<1> DEFINE how == IF At(p, "unstage") THEN proc[p].how ELSE "killed"
           t == proc[p].touched
           s == At0("idle", how, Unread, t)
<1>0. Set(p, s) /\ files' = files /\ proc[p].pc # "idle"
  BY DEF Unstage, Crash, Ended, At
<1>1. how # "running"
  BY DEF At, Knows, Kept
<1>a. s = At0("idle", how, Unread, t)
  OBVIOUS
<1>2. s.how = how /\ s.touched = t
  BY DEF At0
<1>3. /\ proc[p].pc = "unstage" => how = proc[p].how /\ proc[p].how # "running"
      /\ proc[p].pc # "unstage" => how = "killed" /\ proc[p].how = "running"
  BY <1>0 DEF At, Knows, Kept
<1>4. t = proc[p].touched
  OBVIOUS
<1> HIDE DEF s, how, t
<1>5. Kept(s, files)
  BY <1>1, <1>a, EndedSees
<1>6. \A g \in File : Sees(s, files, g) = files[g]
  BY <1>1, <1>a, EndedSees
<1>7. CASE proc[p].pc = "unstage"
  <2>1. Same(proc[p], files, s, files)
    BY <1>3, <1>6, <1>7 DEF Same, Sees
  <2> QED
    BY <1>0, <1>2, <1>3, <1>4, <1>5, <1>7, <2>1 DEF Follows, Stays
<1>8. CASE proc[p].pc # "unstage"
  <2>1. Some(proc[p], files, s, files)
    BY <1>6 DEF Some, Sees
  <2> QED
    BY <1>0, <1>2, <1>3, <1>4, <1>5, <1>8, <2>1 DEF Follows, Breaks
<1> QED
  BY <1>7, <1>8

\* A step of an installer that knows the files keeps that knowledge, and is a
\* step of the transaction or none.
LEMMA StepFollows ==
  ASSUME ~Interrupts, NEW p, Knows(p), files \in [File -> Text],
         Step(p) \/ Trouble(p) \/ RestoreFails(p) \/ Crash(p)
  PROVE  \E s : Follows(p, s)
<1>1. CASE Trouble(p)
  BY <1>1, CaughtFollows DEF Trouble
<1> QED
  BY <1>1, InspectFollows, PlanFollows, PreflightFollows, CleanFollows, StageFollows,
     CheckFollows, PublishFollows, CommitFollows, CheckBackFollows, RestoresFollow,
     RolledBackFollows, LeavesFollow DEF Step

\* With one installer, the files of the transaction are what they count as.
LEMMA VisibleSees ==
  ASSUME NEW p, Installer = {p}
  PROVE  /\ Visible = [f \in File |-> Sees(proc[p], files, f)]
         /\ Visible' = [f \in File |-> Sees(proc'[p], files', f)]
<1>1. ASSUME NEW f \in File PROVE Visible[f] = Sees(proc[p], files, f)
  <2>1. Unsettled(p, f) <=> /\ proc[p].how = "running"
                            /\ files[f] = Turn(f, proc[p].seen[f])
                            /\ Pending(proc[p], f)
    BY DEF Unsettled, Pending, Written, Renamed, Postimage, At, First
  <2> QED
    BY <2>1 DEF Visible, Sees
<1>2. ASSUME NEW f \in File PROVE Visible'[f] = Sees(proc'[p], files', f)
  <2>1. Unsettled(p, f)' <=> /\ proc'[p].how = "running"
                             /\ files'[f] = Turn(f, proc'[p].seen[f])
                             /\ Pending(proc'[p], f)
    BY DEF Unsettled, Pending, Written, Renamed, Postimage, At, First
  <2> QED
    BY <2>1 DEF Visible, Sees
<1> QED
  BY <1>1, <1>2 DEF Visible

LEMMA FollowsMaps ==
  ASSUME NEW p, Installer = {p}, IInv, NEW s, Follows(p, s), edits' = edits
  PROVE  /\ proc'[p] = s
         /\ Abstract!Next \/ UNCHANGED Abstract!vars
<1>0. p \in Installer
  OBVIOUS
<1>1. proc = [q \in Installer |-> proc[q]]
  BY DEF IInv
<1>2. proc'[p] = s /\ proc' = [q \in Installer |-> proc'[q]]
  BY <1>1 DEF Follows, Set
<1> DEFINE how == [q \in Installer |-> proc[q].how]
           touched == [q \in Installer |-> proc[q].touched]
<1>3. how' = [how EXCEPT ![p] = s.how] /\ how[p] = proc[p].how
  BY <1>2
<1>4. touched' = [touched EXCEPT ![p] = s.touched] /\ touched[p] = proc[p].touched
  BY <1>2
<1>5. s.touched = proc[p].touched => touched' = touched
  BY <1>2
<1>6. s.how = proc[p].how => how' = how
  BY <1>2
<1>7. /\ Visible = [f \in File |-> Sees(proc[p], files, f)]
      /\ Visible' = [f \in File |-> Sees(s, files', f)]
  BY <1>2, VisibleSees
<1>8. Same(proc[p], files, s, files') => Visible' = Visible
  BY <1>7 DEF Same
<1>9. Some(proc[p], files, s, files') => Abstract!Installs
  BY <1>7 DEF Some, Abstract!Installs
<1>10. CASE Stays(proc[p], files, s, files')
  BY <1>2, <1>5, <1>6, <1>8, <1>10 DEF Stays, Abstract!vars
<1>11. CASE Begins(proc[p], files, s, files')
  <2>1. Abstract!Begin(p)
    BY <1>3, <1>4, <1>8, <1>11 DEF Begins, Abstract!Begin, Abstract!End
  <2> QED
    BY <1>0, <1>2, <2>1 DEF Abstract!Next
<1>12. CASE Commits(proc[p], files, s, files')
  <2>1. \A f \in File \ touched[p] : Visible'[f] = Turn(f, Visible[f])
    BY <1>4, <1>7, <1>12 DEF Commits
  <2>2. Abstract!Commit(p)
    BY <1>3, <1>4, <1>5, <1>9, <1>12, <2>1 DEF Commits, Abstract!Commit, Abstract!End
  <2> QED
    BY <1>0, <1>2, <2>2 DEF Abstract!Next
<1>13. CASE Abandons(proc[p], files, s, files')
  <2>1. Abstract!Abandon(p)
    BY <1>3, <1>5, <1>8, <1>13 DEF Abandons, Abstract!Abandon, Abstract!End
  <2> QED
    BY <1>0, <1>2, <2>1 DEF Abstract!Next
<1>14. CASE Breaks(proc[p], files, s, files')
  <2>1. Abstract!Break(p)
    BY <1>3, <1>5, <1>9, <1>14 DEF Breaks, Abstract!Break, Abstract!End
  <2> QED
    BY <1>0, <1>2, <2>1 DEF Abstract!Next
<1> QED
  BY <1>2, <1>10, <1>11, <1>12, <1>13, <1>14 DEF Follows

\* What people write spares the file about to be written, and is a write of
\* the transaction: to a file renamed and not committed, of what it counts
\* as or of the new text.
LEMMA EditFollows ==
  ASSUME NEW p, Installer = {p}, ~Windows, IInv, Knows(p), NEW f \in File, Edit(f)
  PROVE  Kept(proc'[p], files') /\ Abstract!Next
<1>1. PICK x \in TextsOf(f) : files' = [files EXCEPT ![f] = x]
  BY DEF Edit
<1>2. files'[f] = x /\ x \in Text /\ \A g \in File : g # f => files'[g] = files[g]
  BY <1>1, TextFacts DEF IInv
<1>3. proc' = [q \in Installer |-> [proc[q] EXCEPT !.touched = @ \cup {f}]]
  BY DEF Edit
<1> DEFINE r == proc[p]
           s == proc'[p]
<1>4. /\ s.pc = r.pc /\ s.how = r.how /\ s.seen = r.seen /\ s.todo = r.todo
      /\ s.out = r.out /\ s.stuck = r.stuck /\ s.touched = r.touched \cup {f}
  BY <1>3 DEF Knows, Good, Proc
<1>5. ~Target(r, f)
  BY DEF Edit, Exposed, Target, First, Last, At
<1>6. r.seen[f] \in Text
  BY TextFacts DEF Knows, Good
<1>7. Kept(r, files)
  BY DEF Knows
<1> HIDE DEF r, s
<1>8. /\ \A g : Target(s, g) <=> Target(r, g)
      /\ \A g : Written(s, g) <=> Written(r, g)
      /\ Changed(s) = Changed(r)
  BY <1>4 DEF Target, Written, Changed
<1>9. Kept(s, files')
  BY <1>2, <1>4, <1>5, <1>7, <1>8 DEF Kept
<1>10. /\ Sees(s, files', f) \in {x, r.seen[f]}
       /\ \A g \in File : g # f => Sees(s, files', g) = Sees(r, files, g)
  BY <1>2, <1>4, <1>8 DEF Sees, Pending
<1>11. /\ Visible = [g \in File |-> Sees(r, files, g)]
       /\ Visible' = [g \in File |-> Sees(s, files', g)]
  BY VisibleSees DEF r, s
<1>12. Visible' = [Visible EXCEPT ![f] = Sees(s, files', f)]
  BY <1>10, <1>11
<1>13. Sees(s, files', f) \in Text
  BY <1>2, <1>6, <1>10
<1>14. /\ [q \in Installer |-> proc[q].how]' = [q \in Installer |-> proc[q].how]
       /\ [q \in Installer |-> proc[q].touched]' =
            [q \in Installer |-> [o \in Installer |-> proc[o].touched][q] \cup {f}]
  BY <1>4 DEF r, s
<1>15. Abstract!Write(f)
  BY <1>12, <1>13, <1>14 DEF Abstract!Write, Edit
<1> QED
  BY <1>9, <1>15 DEF Abstract!Next, s

LEMMA AloneNext ==
  ASSUME Alone, AloneInv, [Next]_vars
  PROVE  AloneInv' /\ [Abstract!Next]_Abstract!vars
<1>1. PICK p : Installer = {p}
  BY DEF Alone
<1>2. IInv' /\ IInv /\ files \in [File -> Text]
  BY NextIInv DEF AloneInv, IInv
<1>3. Knows(p)
  BY <1>1 DEF AloneInv, IInv, Knows
<1>4. CASE Step(p) \/ Trouble(p) \/ RestoreFails(p) \/ Crash(p)
  <2>1. PICK s : Follows(p, s)
    BY <1>2, <1>3, <1>4, StepFollows DEF Alone
  <2>2. edits' = edits
    BY <1>1, <1>2, <1>4, InstallsMove DEF Installs, Moves
  <2>3. proc'[p] = s /\ (Abstract!Next \/ UNCHANGED Abstract!vars)
    BY <1>1, <1>2, <2>1, <2>2, FollowsMaps
  <2>4. Kept(proc'[p], files')
    BY <2>1, <2>3 DEF Follows
  <2> QED
    BY <1>1, <1>2, <2>3, <2>4
       DEF AloneInv, Kept, Written, Target, Changed
<1>5. CASE \E f \in File : Edit(f)
  <2>1. Kept(proc'[p], files') /\ Abstract!Next
    BY <1>1, <1>2, <1>3, <1>5, EditFollows DEF Alone
  <2> QED
    BY <1>1, <1>2, <2>1
       DEF AloneInv, Kept, Written, Target, Changed
<1>6. CASE UNCHANGED vars
  <2>1. UNCHANGED Abstract!vars
    BY <1>6 DEF vars, Abstract!vars, Visible, Unsettled, Renamed, Postimage, At, First
  <2>2. Kept(proc'[p], files')
    BY <1>3, <1>6 DEF vars, Knows
  <2> QED
    BY <1>1, <1>2, <2>1, <2>2
       DEF AloneInv, Kept, Written, Target, Changed
<1> QED
  BY <1>1, <1>4, <1>5, <1>6 DEF Next

LEMMA AloneInit ==
  ASSUME Alone, Init PROVE AloneInv /\ Abstract!Init
<1>1. PICK p : Installer = {p}
  BY DEF Alone
<1>2. IInv
  BY InitIInv
<1>3. proc[p] = At0("idle", "none", Unread, {}) /\ files \in [File -> Text] /\ edits = 0
  BY <1>1 DEF Init
<1>4. Kept(proc[p], files) /\ \A f \in File : Sees(proc[p], files, f) = files[f]
  BY <1>3 DEF At0, Kept, Sees, Failing, Applying, Replacing, Target
<1>5. Visible = files
  BY <1>1, <1>3, <1>4, VisibleSees
<1>6. /\ [q \in Installer |-> proc[q].how] = [q \in Installer |-> "none"]
      /\ [q \in Installer |-> proc[q].touched] = [q \in Installer |-> {}]
  BY <1>1, <1>3 DEF At0
<1> QED
  BY <1>1, <1>2, <1>3, <1>4, <1>5, <1>6 DEF AloneInv, Abstract!Init

\* One installer at a time takes effect as a whole or not at all, wherever it
\* fails or is killed and whatever people write meanwhile; only one that was
\* killed, or that reports an incomplete rollback, leaves some of its files.
THEOREM WholeOrNothing == ASSUME Alone PROVE Spec => AllOrNothing
<1>1. Init => AloneInv /\ Abstract!Init
  BY AloneInit
<1>2. AloneInv /\ [Next]_vars => AloneInv' /\ [Abstract!Next]_Abstract!vars
  BY AloneNext
<1> QED
  BY <1>1, <1>2, PTL DEF Spec, AllOrNothing, Abstract!Spec
=============================================================================
