------------------------------ MODULE MCParts ------------------------------
(* Small instances of the components that meet the others only in files: a *)
(* behaviour is one of one component, named by part, and the variables of  *)
(* the others keep their initial values.                                   *)
EXTENDS TmuxRun, CodexLoop, ChatLog, MergeTasks, GateEdits, SessionNames, HookFiles,
        JudgeRuns, TLC

CONSTANTS l1, l2, m1, e1, t1, t2, t3, c1, a1, a2, h1, u1, j1, j2, j3

VARIABLE part

TwoLoops == {l1, l2}

OneMessage == {m1}
OneEvent == {e1}

ThreeTasks == {t1, t2, t3}
OneCache == {c1}
InACircle == (t1 :> t2) @@ (t2 :> t3) @@ (t3 :> t1)
OneCircled == {t3}
\* Of two digits and of three.
FourNumbers == 98 .. 101
TargetNumbers == {{98}, {98, 99}, {98, 99, 100}}

TwoGates == <<"a", "b">>

TwoConvos == {a1, a2}
OneShell == {h1}

OneHook == {u1}

ThreeJudges == {j1, j2, j3}
TwoLabels == (j1 :> "x") @@ (j2 :> "x") @@ (j3 :> "y")

vars == <<part, runVars, loopVars, chatVars, mergeVars, gateVars, nameVars, hookVars, judgeVars>>

\* The parts that do not move keep one of their initial states.
ChatRests == ChatInit /\ log = <<>>
MergeRests == MergeInit /\ target = {98} /\ folder[t2] = 99 /\ folder[t3] = 100 /\ slug[t3] = t3
              /\ cache = [s \in OneCache |-> 0]
GateRests == GateInit /\ ~doc.board
HooksRest == HooksInit /\ prov = "claude" /\ entries = <<>>
JudgesRest == JudgeInit /\ use = "panel" /\ revlog = "none"

Init ==
    /\ TmuxInit /\ LoopInit /\ NamesInit
    /\ part \in {"tmux", "codex", "names", "chat", "merge", "gates", "hooks", "judges"}
    /\ IF part = "chat" THEN ChatInit ELSE ChatRests
    /\ IF part = "merge" THEN MergeInit ELSE MergeRests
    /\ IF part = "gates" THEN GateInit ELSE GateRests
    /\ IF part = "hooks" THEN HooksInit ELSE HooksRest
    /\ IF part = "judges" THEN JudgeInit ELSE JudgesRest

Next ==
    /\ UNCHANGED part
    /\ \/ /\ part = "tmux" /\ TmuxNext
          /\ UNCHANGED <<loopVars, chatVars, mergeVars, gateVars, nameVars, hookVars, judgeVars>>
       \/ /\ part = "codex" /\ LoopNext
          /\ UNCHANGED <<runVars, chatVars, mergeVars, gateVars, nameVars, hookVars, judgeVars>>
       \/ /\ part = "chat" /\ ChatNext
          /\ UNCHANGED <<runVars, loopVars, mergeVars, gateVars, nameVars, hookVars, judgeVars>>
       \/ /\ part = "merge" /\ MergeNext
          /\ UNCHANGED <<runVars, loopVars, chatVars, gateVars, nameVars, hookVars, judgeVars>>
       \/ /\ part = "gates" /\ GateNext
          /\ UNCHANGED <<runVars, loopVars, chatVars, mergeVars, nameVars, hookVars, judgeVars>>
       \/ /\ part = "names" /\ NamesNext
          /\ UNCHANGED <<runVars, loopVars, chatVars, mergeVars, gateVars, hookVars, judgeVars>>
       \/ /\ part = "hooks" /\ HooksNext
          /\ UNCHANGED <<runVars, loopVars, chatVars, mergeVars, gateVars, nameVars, judgeVars>>
       \/ /\ part = "judges" /\ JudgeNext
          /\ UNCHANGED <<runVars, loopVars, chatVars, mergeVars, gateVars, nameVars, hookVars>>

Spec == Init /\ [][Next]_vars /\ TmuxFairness /\ LoopFairness /\ JudgeFairness

TypeOK ==
    /\ TmuxTypeOK /\ LoopTypeOK /\ ChatTypeOK
    /\ MergeTypeOK /\ GateTypeOK /\ NamesTypeOK /\ HookTypeOK
    /\ JudgeTypeOK

\* What a reader is told of a finished run is what the run did: the status of
\* a tmux run, and the reviews of judges.
AnswersSound == OutcomeSound /\ ReviewsHonest

\* What waits for an answer, in tmux runs, in reminder loops, and for judges,
\* gets one.
WaitsEnd == SignalSettles /\ LoopEnds /\ JudgesEnd
=============================================================================
