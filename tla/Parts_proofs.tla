---------------------------- MODULE Parts_proofs ----------------------------
(***************************************************************************)
(* Proofs about tmux runs, reminder loops and reviews, for any number of   *)
(* kills, starts and judges, and about the composition of all parts: each  *)
(* behaviour of MCParts is one of every part, so what is proved of a part  *)
(* holds there.                                                            *)
(***************************************************************************)
EXTENDS MCParts, Texts_proofs, SessionNames_proofs, MergeTasks_proofs, TLAPS

---------------------------------------------------------------------------
(* Tmux runs: type correctness, and that a command that reads the run      *)
(* directory may rely on what it finds there.                              *)

Over == {"exited", "killed"}

\* Where the runner has no agent yet, or has closed its group.
Quiet == {"none", "environment", "handshake", "spawn", "publish", "exited"}

\* The inductive invariant: OutcomeSound rests on the runner publishing when
\* the group is closed and ending with it, and on a dead pane being the pane
\* of a runner that is over.
TmuxInv ==
    /\ TmuxTypeOK
    /\ starter \in {"reserve", "session"} => runner = "none" /\ session = "none"
    /\ runner \in Quiet => agent = {}
    /\ result \in OwnResult => runner = "exited"
    /\ session = "dead" => runner \in Over
    /\ reader \in {"dead", "lost"} => runner \in Over
    /\ reader = "lost" => result \notin OwnResult

USE FaultAssumption
    DEF TmuxInv, TmuxTypeOK, Results, OwnResult, NoResult, Alive, Unguarded, Guarded, Setting,
        Over, Quiet, files, tmux, procs

\* What a signal to the runner leaves: it goes on, or had no handlers yet.
Signalled ==
    /\ runner' = IF runner \in Unguarded THEN "killed" ELSE runner
    /\ agent' \subseteq agent /\ asked' \in BOOLEAN

LEMMA SignalLeaves == ASSUME TmuxInv PROVE SignalRunner => Signalled
<1> SUFFICES ASSUME SignalRunner PROVE Signalled
  OBVIOUS
<1> USE DEF Signalled
<1>1. CASE runner \in Unguarded
  BY <1>1 DEF SignalRunner, SignalGroup
<1>2. CASE runner \in Guarded /\ ~asked
  <2>1. asked' = TRUE /\ SignalGroup /\ runner' = runner
    BY <1>2 DEF SignalRunner
  <2>2. asked' \in BOOLEAN
    BY <2>1, Zenon
  <2>3. QED
    BY <1>2, <2>1, <2>2 DEF SignalGroup
<1>3. CASE runner \notin Unguarded /\ ~(runner \in Guarded /\ ~asked)
  BY <1>3 DEF SignalRunner
<1>4. QED
  BY <1>1, <1>2, <1>3

\* What closing the session leaves.
Closed == session' = "none" /\ hooked' = hooked /\ died' = died /\ Signalled

Kept == UNCHANGED <<session, hooked, died, runner, agent, asked>>

LEMMA KillLeaves == ASSUME TmuxInv PROVE KillSession => Closed
  BY SignalLeaves DEF KillSession, Closed

\* A step of start_run keeps the invariant.
LEMMA KeepsStartStep == ASSUME TmuxInv, StartStep PROVE TmuxInv'
<1>1. CASE Reserve
  BY <1>1 DEF Reserve
<1>2. CASE NewSession
  BY <1>2 DEF NewSession
<1>3. CASE SetOptions
  BY <1>3 DEF SetOptions, Setting
<1>4. CASE WritePane
  BY <1>4 DEF WritePane
<1>5. CASE SetHook
  BY <1>5 DEF SetHook
<1>6. CASE TouchConfigured
  BY <1>6 DEF TouchConfigured
<1>7. CASE SetupFails
  <2>1. starter' = "refused" /\ PublishOnce("start") /\ UNCHANGED <<meta, flags, stopper, reader>>
    BY <1>7 DEF SetupFails
  <2>2. faults' \in 0 .. MaxFaults
    BY <1>7 DEF SetupFails, Fault
  <2>3. Kept \/ Closed
    BY <1>7, KillLeaves DEF SetupFails, Kept
  <2>4. CASE Kept
    BY <2>1, <2>2, <2>4 DEF PublishOnce, Kept
  <2>5. CASE Closed
    BY <2>1, <2>2, <2>5 DEF PublishOnce, Closed, Signalled
  <2>6. QED
    BY <2>3, <2>4, <2>5
<1>8. CASE SeeReady
  BY <1>8 DEF SeeReady
<1>9. CASE SeeResult
  BY <1>9 DEF SeeResult
<1>10. CASE GiveUpStart
  BY <1>10 DEF GiveUpStart, PublishOnce
<1>11. QED
  BY <1>1, <1>2, <1>3, <1>4, <1>5, <1>6, <1>7, <1>8, <1>9, <1>10 DEF StartStep

\* A step of the runner keeps the invariant.
LEMMA KeepsRunnerStep == ASSUME TmuxInv, RunnerStep PROVE TmuxInv'
<1>1. CASE TakeEnvironment
  BY <1>1 DEF TakeEnvironment
<1>2. CASE SeeConfigured
  BY <1>2 DEF SeeConfigured
<1>3. CASE HandshakeTimesOut
  BY <1>3 DEF HandshakeTimesOut, PublishOnce, PaneEnds
<1>4. CASE Spawn
  BY <1>4 DEF Spawn
<1>5. CASE ExecAgent
  BY <1>5 DEF ExecAgent
<1>6. CASE ExecFails
  BY <1>6 DEF ExecFails, PublishOnce, PaneEnds
<1>7. CASE SetHandlers
  BY <1>7 DEF SetHandlers
<1>8. CASE WriteRunning
  BY <1>8 DEF WriteRunning
<1>9. CASE TouchReady
  BY <1>9 DEF TouchReady
<1>10. CASE KillGroup
  BY <1>10 DEF KillGroup
<1>11. CASE SeeExit
  BY <1>11 DEF SeeExit
<1>12. CASE CloseGroup
  BY <1>12 DEF CloseGroup
<1>13. CASE Publish
  BY <1>13 DEF Publish, PublishOnce, PaneEnds
<1>14. QED
  BY <1>1, <1>2, <1>3, <1>4, <1>5, <1>6, <1>7, <1>8, <1>9, <1>10, <1>11, <1>12, <1>13 DEF RunnerStep

\* A step of stop_run keeps the invariant.
LEMMA KeepsStopStep == ASSUME TmuxInv, StopStep PROVE TmuxInv'
<1>1. CASE StopEnded
  <2>1. stopper' \in {"refused", "done"} /\ UNCHANGED <<meta, flags, result, starter, reader, faults>>
    BY <1>1 DEF StopEnded
  <2>2. Kept \/ Closed
    BY <1>1, KillLeaves DEF StopEnded, Kept
  <2>3. CASE Kept
    BY <2>1, <2>3 DEF Kept
  <2>4. CASE Closed
    BY <2>1, <2>4 DEF Closed, Signalled
  <2>5. QED
    BY <2>2, <2>3, <2>4
<1>2. CASE FindRunner
  BY <1>2 DEF FindRunner, Authentic
<1>3. CASE RequestStop
  <2>1. /\ stopper' = "wait" /\ flags' = flags \cup {"request"}
        /\ UNCHANGED <<meta, result, starter, reader, faults>>
    BY <1>3 DEF RequestStop
  <2>2. Signalled
    BY <1>3, SignalLeaves DEF RequestStop
  <2>3. CASE runner \in Unguarded
    <3>1. PaneEnds
      BY <1>3, <2>3 DEF RequestStop
    <3>2. QED
      BY <2>1, <2>2, <2>3, <3>1 DEF PaneEnds, Signalled
  <2>4. CASE runner \notin Unguarded
    <3>1. UNCHANGED <<session, hooked, died>>
      BY <1>3, <2>4 DEF RequestStop
    <3>2. QED
      BY <2>1, <2>2, <2>4, <3>1 DEF Signalled
  <2>5. QED
    BY <2>3, <2>4
<1>4. CASE StopAnswered
  <2>1. stopper' = "done" /\ UNCHANGED <<meta, flags, result, starter, reader, faults>>
    BY <1>4 DEF StopAnswered
  <2>2. Kept \/ Closed
    BY <1>4, KillLeaves DEF StopAnswered, Kept
  <2>3. CASE Kept
    BY <2>1, <2>3 DEF Kept
  <2>4. CASE Closed
    BY <2>1, <2>4 DEF Closed, Signalled
  <2>5. QED
    BY <2>2, <2>3, <2>4
<1>5. CASE StopUnanswered
  BY <1>5 DEF StopUnanswered
<1>6. QED
  BY <1>1, <1>2, <1>3, <1>4, <1>5 DEF StopStep

\* A step of status_run keeps the invariant.
LEMMA KeepsReadStep == ASSUME TmuxInv, ReadStep PROVE TmuxInv'
<1>1. CASE ReadResult
  BY <1>1 DEF ReadResult
<1>2. CASE ReadPane
  BY <1>2 DEF ReadPane
<1>3. CASE JudgeDead
  BY <1>3 DEF JudgeDead
<1>4. CASE JudgeGone
  BY <1>4 DEF JudgeGone
<1>5. CASE JudgeAlone
  BY <1>5 DEF JudgeAlone, Authentic
<1>6. QED
  BY <1>1, <1>2, <1>3, <1>4, <1>5 DEF ReadStep

\* A step of the agent's group keeps the invariant.
LEMMA KeepsAgentStep == ASSUME TmuxInv, AgentStep PROVE TmuxInv'
<1>1. CASE Fork
  BY <1>1 DEF Fork
<1>2. CASE LeaderEnds
  BY <1>2 DEF LeaderEnds
<1>3. CASE HelperEnds
  BY <1>3 DEF HelperEnds
<1>4. QED
  BY <1>1, <1>2, <1>3 DEF AgentStep

\* A step of kills and the loss of tmux keeps the invariant.
LEMMA KeepsFaultStep == ASSUME TmuxInv, FaultStep PROVE TmuxInv'
<1>1. CASE StarterKilled
  BY <1>1 DEF StarterKilled, Fault, Setting
<1>2. CASE RunnerKilled
  BY <1>2 DEF RunnerKilled, Fault, Alive, Unguarded, Guarded, SignalGroup, PaneEnds
<1>3. CASE TmuxLost
  <2>1. UNCHANGED <<meta, flags, result, starter, stopper, reader>> /\ Closed
    BY <1>3, KillLeaves DEF TmuxLost
  <2>2. faults' \in 0 .. MaxFaults
    BY <1>3 DEF TmuxLost, Fault
  <2>3. QED
    BY <2>1, <2>2 DEF Closed, Signalled
<1>4. QED
  BY <1>1, <1>2, <1>3 DEF FaultStep

\* The hook of a dead pane keeps the invariant.
LEMMA KeepsPaneExit == ASSUME TmuxInv, PaneExit PROVE TmuxInv'
<1>1. died' \in BOOLEAN
  <2>1. died' = FALSE
    BY DEF PaneExit
  <2>2. QED
    BY <2>1, Zenon
<1>2. QED
  BY <1>1 DEF PaneExit, PublishOnce

LEMMA TmuxInvHolds == TmuxSpec => []TmuxInv
<1>1. TmuxInit => TmuxInv
  <2>1. SUFFICES ASSUME TmuxInit PROVE TmuxInv
    OBVIOUS
  <2>2. hooked = FALSE /\ died = FALSE /\ asked = FALSE
    BY <2>1 DEF TmuxInit
  <2>3. hooked \in BOOLEAN /\ died \in BOOLEAN /\ asked \in BOOLEAN
    BY <2>2, Zenon
  <2>4. QED
    BY <2>1, <2>3 DEF TmuxInit
<1>2. TmuxInv /\ [TmuxNext]_runVars => TmuxInv'
  <2>1. SUFFICES ASSUME TmuxInv, [TmuxNext]_runVars PROVE TmuxInv'
    OBVIOUS
  <2>2. CASE UNCHANGED runVars
    BY <2>1, <2>2 DEF runVars
  <2>3. CASE TmuxNext
    <3> HIDE DEF TmuxInv
    <3>1. QED
      BY <2>1, <2>3, KeepsStartStep, KeepsRunnerStep, KeepsPaneExit, KeepsStopStep, KeepsReadStep,
         KeepsAgentStep, KeepsFaultStep DEF TmuxNext
  <2>4. QED
    BY <2>1, <2>2, <2>3
<1>3. QED
  BY <1>1, <1>2, PTL DEF TmuxSpec

\* Every variable of a run keeps its type (the files, processes and tmux
\* states tmux_agent.py tells apart).
THEOREM TmuxTypes == TmuxSpec => []TmuxTypeOK
<1>1. TmuxInv => TmuxTypeOK
  OBVIOUS
<1>2. QED
  BY <1>1, TmuxInvHolds, PTL

\* A result of the runner's own means that the agent's group is closed, and
\* a run called lost has none and gets none, however many of its processes
\* are killed and whenever tmux goes (_runner_main, status_run).
THEOREM OutcomeIsSound == TmuxSpec => []OutcomeSound
<1>1. TmuxInv => OutcomeSound
  BY DEF OutcomeSound, ResultMeansOver, LostMeansUnpublished
<1>2. QED
  BY <1>1, TmuxInvHolds, PTL

HIDE FaultAssumption
     DEF TmuxInv, TmuxTypeOK, Results, OwnResult, NoResult, Alive, Unguarded, Guarded, Setting,
         Over, Quiet, files, tmux, procs

---------------------------------------------------------------------------
(* Reminder loops: type correctness, and that starts which overlap never   *)
(* replace every loop.                                                     *)

\* Nothing but its own start knows of a loop whose state is not written.
Unknown(l) ==
    /\ state[l] = "none" /\ worker[l] = "none" /\ l \notin stops /\ stopping # l
    /\ \A m \in Loop : l \notin listed[m]

\* What the promise is made for: no start failed, nothing was lost or
\* stopped, and the window is open.
Undisturbed ==
    /\ \A l \in Loop : start[l] \notin {"failed", "killed"}
    /\ window = "open" /\ losses = 0 /\ stopped = {}

\* A start that nobody replaces: of those under way or answered, the one that
\* listed the running loops last.
Lasting(l) ==
    /\ start[l] \in {"replace", "spawn", "watch", "ok"}
    /\ l \notin stops /\ (\A m \in Loop : l \notin listed[m])
    /\ worker[l] \in Working \cup {"none"}
    /\ start[l] \in {"watch", "ok"} => worker[l] \in Working

\* The inductive invariant.
LoopInv ==
    /\ LoopTypeOK
    /\ \A l \in Loop : start[l] \in {"idle", "replace"} => Unknown(l)
    /\ \A l \in Loop : start[l] = "spawn" => worker[l] = "none"
    /\ Undisturbed /\ (\E l \in Loop : start[l] # "idle") => \E l \in Loop : Lasting(l)

USE DEF Working

---------------------------------------------------------------------------

LEMMA LoopTypesKept ==
    ASSUME LoopTypeOK, [LoopNext]_loopVars PROVE LoopTypeOK'
<1> USE LoopAssumption DEF LoopTypeOK
<1>1. ASSUME NEW l \in Loop, ListRunning(l) \/ ReplaceOne(l) \/ WriteState(l) \/ SpawnWorker(l)
      PROVE LoopTypeOK'
  BY <1>1 DEF ListRunning, ReplaceOne, WriteState, SpawnWorker, StartAt
<1>2. ASSUME NEW l \in Loop, SeeRunning(l) \/ WatchTimesOut(l) \/ FindLoop(l) \/ TouchStop(l)
      PROVE LoopTypeOK'
  BY <1>2 DEF SeeRunning, WatchTimesOut, FindLoop, TouchStop, StartAt
<1>3. ASSUME NEW l \in Loop, WorkerStep(l) PROVE LoopTypeOK'
  BY <1>3 DEF WorkerStep, Begin, Look, Due, Sent, Finish, Unlink, WorkerAt
<1>4. ASSUME NEW l \in Loop, SpawnFails(l) \/ StartKilled(l) \/ WorkerKilled(l) PROVE LoopTypeOK'
  BY <1>4 DEF SpawnFails, StartKilled, WorkerKilled, StartAt, WorkerAt, Loss
<1>5. CASE CloseWindow \/ ReuseNumber
  BY <1>5 DEF CloseWindow, ReuseNumber
<1>6. CASE UNCHANGED loopVars
  BY <1>6 DEF loopVars
<1>7. QED
  BY <1>1, <1>2, <1>3, <1>4, <1>5, <1>6 DEF LoopNext

\* A disturbance is never undone.
LEMMA OnceDisturbed ==
    ASSUME LoopTypeOK, [LoopNext]_loopVars, Undisturbed' PROVE Undisturbed
<1> USE LoopAssumption DEF LoopTypeOK, Undisturbed
<1>1. ASSUME NEW l \in Loop, ListRunning(l) \/ ReplaceOne(l) \/ WriteState(l) \/ SpawnWorker(l)
      PROVE Undisturbed
  BY <1>1 DEF ListRunning, ReplaceOne, WriteState, SpawnWorker, StartAt
<1>2. ASSUME NEW l \in Loop, SeeRunning(l) \/ WatchTimesOut(l) \/ FindLoop(l) \/ TouchStop(l)
      PROVE Undisturbed
  BY <1>2 DEF SeeRunning, WatchTimesOut, FindLoop, TouchStop, StartAt
<1>3. ASSUME NEW l \in Loop, WorkerStep(l) PROVE Undisturbed
  BY <1>3 DEF WorkerStep, Begin, Look, Due, Sent, Finish, Unlink, WorkerAt
<1>4. ASSUME NEW l \in Loop, SpawnFails(l) \/ StartKilled(l) \/ WorkerKilled(l) PROVE Undisturbed
  BY <1>4 DEF SpawnFails, StartKilled, WorkerKilled, StartAt, WorkerAt, Loss
<1>5. CASE CloseWindow \/ ReuseNumber
  BY <1>5 DEF CloseWindow, ReuseNumber
<1>6. CASE UNCHANGED loopVars
  BY <1>6 DEF loopVars
<1>7. QED
  BY <1>1, <1>2, <1>3, <1>4, <1>5, <1>6 DEF LoopNext

\* Only a loop whose state is written is listed, found or told to stop.
LEMMA UnknownKept ==
    ASSUME LoopInv, [LoopNext]_loopVars, NEW k \in Loop, start'[k] \in {"idle", "replace"}
    PROVE  Unknown(k)'
<1> USE DEF LoopInv, LoopTypeOK, Unknown
<1>1. ASSUME NEW l \in Loop, ListRunning(l) PROVE Unknown(k)'
  BY <1>1 DEF ListRunning, StartAt
<1>2. ASSUME NEW l \in Loop, ReplaceOne(l) PROVE Unknown(k)'
  BY <1>2 DEF ReplaceOne
<1>3. ASSUME NEW l \in Loop, WriteState(l) \/ SpawnWorker(l) \/ SeeRunning(l) \/ WatchTimesOut(l)
      PROVE Unknown(k)'
  BY <1>3 DEF WriteState, SpawnWorker, SeeRunning, WatchTimesOut, StartAt
<1>4. ASSUME NEW l \in Loop, FindLoop(l) \/ TouchStop(l) PROVE Unknown(k)'
  BY <1>4, LoopAssumption DEF FindLoop, TouchStop
<1>5. ASSUME NEW l \in Loop, WorkerStep(l) PROVE Unknown(k)'
  BY <1>5 DEF WorkerStep, Begin, Look, Due, Sent, Finish, Unlink, WorkerAt
<1>6. ASSUME NEW l \in Loop, SpawnFails(l) \/ StartKilled(l) \/ WorkerKilled(l) PROVE Unknown(k)'
  BY <1>6 DEF SpawnFails, StartKilled, WorkerKilled, StartAt, WorkerAt
<1>7. CASE CloseWindow \/ ReuseNumber
  BY <1>7 DEF CloseWindow, ReuseNumber
<1>8. CASE UNCHANGED loopVars
  BY <1>8 DEF loopVars
<1>9. QED
  BY <1>1, <1>2, <1>3, <1>4, <1>5, <1>6, <1>7, <1>8 DEF LoopNext

LEMMA NoWorkerYet ==
    ASSUME LoopInv, [LoopNext]_loopVars, NEW k \in Loop, start'[k] = "spawn"
    PROVE  worker'[k] = "none"
<1> USE DEF LoopInv, LoopTypeOK
<1>1. ASSUME NEW l \in Loop, ListRunning(l) \/ ReplaceOne(l) \/ SpawnWorker(l) \/ SeeRunning(l) \/ WatchTimesOut(l)
      PROVE worker'[k] = "none"
  BY <1>1 DEF ListRunning, ReplaceOne, SpawnWorker, SeeRunning, WatchTimesOut, StartAt
<1>2. ASSUME NEW l \in Loop, WriteState(l) PROVE worker'[k] = "none"
  BY <1>2 DEF WriteState, StartAt, Unknown
<1>3. ASSUME NEW l \in Loop, WorkerStep(l) \/ FindLoop(l) \/ TouchStop(l) PROVE worker'[k] = "none"
  BY <1>3 DEF WorkerStep, Begin, Look, Due, Sent, Finish, Unlink, WorkerAt, FindLoop, TouchStop
<1>4. ASSUME NEW l \in Loop, SpawnFails(l) \/ StartKilled(l) \/ WorkerKilled(l) PROVE worker'[k] = "none"
  BY <1>4 DEF SpawnFails, StartKilled, WorkerKilled, StartAt, WorkerAt
<1>5. CASE CloseWindow \/ ReuseNumber
  BY <1>5 DEF CloseWindow, ReuseNumber
<1>6. CASE UNCHANGED loopVars
  BY <1>6 DEF loopVars
<1>7. QED
  BY <1>1, <1>2, <1>3, <1>4, <1>5, <1>6 DEF LoopNext

\* The last lister stays the last until another start lists.
LEMMA LastKept ==
    ASSUME LoopInv, [LoopNext]_loopVars, Undisturbed', \E l \in Loop : start'[l] # "idle"
    PROVE  \E l \in Loop : Lasting(l)'
<1> USE DEF LoopTypeOK, Lasting
<1>1. LoopTypeOK /\ LoopTypeOK' /\ Undisturbed
  BY LoopTypesKept, OnceDisturbed DEF LoopInv
<1>2. ASSUME NEW l \in Loop, ListRunning(l) PROVE Lasting(l)'
  <2>1. Unknown(l) /\ start'[l] = "replace" /\ UNCHANGED <<stops, worker>>
        /\ listed' = [listed EXCEPT ![l] = {m \in Loop : state[m] \in {"starting", "running"}}]
    BY <1>1, <1>2 DEF ListRunning, StartAt, LoopInv
  <2>2. \A m \in Loop : l \notin listed'[m]
    BY <1>1, <2>1 DEF Unknown
  <2>3. QED
    BY <2>1, <2>2 DEF Unknown
<1>3. CASE \A l \in Loop : ~ListRunning(l)
  <2>1. \E l \in Loop : start[l] # "idle"
    <3>1. ASSUME NEW l \in Loop, ReplaceOne(l) \/ WriteState(l) \/ SpawnWorker(l) \/ SeeRunning(l) \/ WatchTimesOut(l)
          PROVE \E m \in Loop : start[m] # "idle"
      BY <3>1 DEF ReplaceOne, WriteState, SpawnWorker, SeeRunning, WatchTimesOut, StartAt
    <3>2. ASSUME NEW l \in Loop, WorkerStep(l) \/ FindLoop(l) \/ TouchStop(l) PROVE start' = start
      BY <3>2 DEF WorkerStep, Begin, Look, Due, Sent, Finish, Unlink, FindLoop, TouchStop
    <3>3. ASSUME NEW l \in Loop, SpawnFails(l) \/ StartKilled(l) \/ WorkerKilled(l)
          PROVE start' = start \/ \E m \in Loop : start[m] # "idle"
      BY <3>3 DEF SpawnFails, StartKilled, WorkerKilled, StartAt
    <3>4. CASE CloseWindow \/ ReuseNumber \/ UNCHANGED loopVars
      BY <3>4 DEF CloseWindow, ReuseNumber, loopVars
    <3>5. QED
      BY <1>3, <3>1, <3>2, <3>3, <3>4 DEF LoopNext
  <2>2. PICK k \in Loop : Lasting(k)
    BY <1>1, <2>1 DEF LoopInv
  <2>3. ASSUME NEW l \in Loop, ReplaceOne(l) PROVE Lasting(k)'
    BY <1>1, <2>2, <2>3 DEF ReplaceOne
  <2>4. ASSUME NEW l \in Loop, WriteState(l) \/ SeeRunning(l) PROVE Lasting(k)'
    BY <1>1, <2>2, <2>4 DEF WriteState, SeeRunning, StartAt
  <2>5. ASSUME NEW l \in Loop, SpawnWorker(l) PROVE Lasting(k)'
    BY <1>1, <2>2, <2>5 DEF SpawnWorker, StartAt
  <2>6. ASSUME NEW l \in Loop, WatchTimesOut(l) \/ SpawnFails(l) \/ StartKilled(l) PROVE FALSE
    BY <1>1, <2>6 DEF WatchTimesOut, SpawnFails, StartKilled, StartAt, Undisturbed
  <2>7. ASSUME NEW l \in Loop, WorkerStep(l) PROVE Lasting(k)'
    <3>1. l = k => ~Finish(l) /\ ~Unlink(l)
      BY <1>1, <2>2 DEF Finish, Unlink, WorkerAt, StopSeen, OwnerGone, Undisturbed
    <3>2. CASE Begin(l) \/ Look(l) \/ Due(l) \/ Sent(l)
      BY <1>1, <2>2, <3>2 DEF Begin, Look, Due, Sent, WorkerAt
    <3>3. CASE Finish(l) \/ Unlink(l)
      BY <1>1, <2>2, <3>1, <3>3 DEF Finish, Unlink, WorkerAt
    <3>4. QED
      BY <2>7, <3>2, <3>3 DEF WorkerStep
  <2>8. ASSUME NEW l \in Loop, FindLoop(l) PROVE Lasting(k)'
    BY <1>1, <2>2, <2>8 DEF FindLoop
  <2>9. ASSUME NEW l \in Loop, TouchStop(l) PROVE FALSE
    BY <1>1, <2>9 DEF TouchStop, Undisturbed
  <2>10. ASSUME NEW l \in Loop, WorkerKilled(l) PROVE FALSE
    <3>1. losses = 0 /\ losses' = 0 /\ losses' = losses + 1
      BY <1>1, <2>10 DEF WorkerKilled, Loss, Undisturbed
    <3>2. QED
      BY <3>1
  <2>11. CASE CloseWindow \/ ReuseNumber
    BY <1>1, <2>11 DEF CloseWindow, ReuseNumber, Undisturbed
  <2>12. CASE UNCHANGED loopVars
    BY <1>1, <2>2, <2>12 DEF loopVars
  <2>13. QED
    BY <1>3, <2>3, <2>4, <2>5, <2>6, <2>7, <2>8, <2>9, <2>10, <2>11, <2>12 DEF LoopNext
<1>4. QED
  BY <1>2, <1>3

LEMMA LoopInvHolds == LoopSpec => []LoopInv
<1>1. LoopInit => LoopInv
  BY LoopAssumption DEF LoopInit, LoopInv, LoopTypeOK, Unknown
<1>2. LoopInv /\ [LoopNext]_loopVars => LoopInv'
  <2> SUFFICES ASSUME LoopInv, [LoopNext]_loopVars PROVE LoopInv'
    OBVIOUS
  <2>1. LoopTypeOK'
    BY LoopTypesKept DEF LoopInv
  <2>2. \A l \in Loop : start'[l] \in {"idle", "replace"} => Unknown(l)'
    BY UnknownKept
  <2>3. \A l \in Loop : start'[l] = "spawn" => worker'[l] = "none"
    BY NoWorkerYet
  <2>4. Undisturbed' /\ (\E l \in Loop : start'[l] # "idle") => \E l \in Loop : Lasting(l)'
    BY LastKept
  <2>5. QED
    BY <2>1, <2>2, <2>3, <2>4 DEF LoopInv
<1>3. QED
  BY <1>1, <1>2, PTL DEF LoopSpec

\* Every variable of a loop keeps its type (the states of its file, its start
\* and its worker).
THEOREM LoopTypes == LoopSpec => []LoopTypeOK
<1>1. LoopInv => LoopTypeOK
  BY DEF LoopInv
<1>2. QED
  BY <1>1, LoopInvHolds, PTL

\* However many starts overlap on a thread, when all have answered a loop is
\* left that nobody told to stop, as long as nothing failed (start, which
\* lists the running loops before it writes its own state).
THEOREM ReminderAlwaysSurvives == LoopSpec => []ReminderSurvives
<1>1. LoopInv => ReminderSurvives
  <2> SUFFICES ASSUME LoopInv,
                      \A l \in Loop : start[l] \in {"idle", "ok"}, \E l \in Loop : start[l] = "ok",
                      window = "open" /\ losses = 0 /\ stopped = {}
               PROVE \E l \in Loop : Remind(l)
    BY DEF ReminderSurvives
  <2>1. PICK l \in Loop : Lasting(l)
    BY DEF LoopInv, Undisturbed
  <2>2. start[l] = "ok"
    BY <2>1 DEF Lasting
  <2>3. QED
    BY <2>1, <2>2 DEF Lasting, Remind
<1>2. QED
  BY <1>1, LoopInvHolds, PTL

HIDE DEF Working

---------------------------------------------------------------------------
(* Reviews: one that is shown is one that was given, by a judge or by the  *)
(* reviewer.                                                               *)

Seats == [at : {"free", "running", "answered", "collected"},
          tells : Silent \cup {"none", "review"},
          did : {"none", "text", "silent", "killed", "absent"}]

Reviews == [at : {"idle", "running", "ended", "told"}, run : {"none", "first", "second"},
            codex : BOOLEAN, out : BOOLEAN, ok : BOOLEAN, was : Logs,
            told : {"none", "saved", "kept", "nothing"}]

\* The collected judges of a label.
Heard(l) == {j \in seats : LabelOf[j] = l /\ seat[j].at = "collected"}

AllCollected == \A j \in seats : seat[j].at = "collected"

\* A panel: what has been said is what a judge that was heard tells.
PanelInv ==
    /\ seats \subseteq Judge /\ seat \in [Judge -> Seats] /\ said \in Blocks
    /\ panel \in {"idle", "refused"} => \A j \in Judge : seat[j].at = "free"
    /\ panel = "idle" => seats = {}
    /\ \A j \in Judge : seat[j].at # "free" => j \in seats
    /\ \A j \in Judge : seat[j].at \in {"answered", "collected"} =>
         /\ seat[j].tells \in Silent \cup {"review"}
         /\ seat[j].tells = "review" <=> seat[j].did = "text"
    /\ \A l \in Label :
         IF Heard(l) = {} THEN said[l] = "none" ELSE \E j \in Heard(l) : said[l] = seat[j].tells

\* Its paper.
PaperInv ==
    /\ panel \in {"idle", "refused", "judging"} => paper.at \in {"none", "earlier"}
    /\ paper.at \in {"cut", "whole"} \/ panel \in {"writing", "done"} => AllCollected
    /\ panel = "done" => paper.says = said /\ paper.failed = {l \in Label : JudgeFailed(said[l])}

\* A review: what its log holds at every point of a run.
ReviewInv ==
    /\ review \in Reviews /\ revlog \in Logs
    /\ review.at \in {"running", "ended", "told"} => review.run # "none"
    /\ review.at = "running" => revlog = review.was
    /\ review.at = "ended" =>
         IF review.codex /\ review.ok THEN revlog = (IF review.out THEN review.run ELSE "empty")
         ELSE revlog = review.was
    /\ ReviewKept

---------------------------------------------------------------------------
(* The panel                                                               *)

LEMMA PanelInit == JudgeInit => PanelInv /\ PaperInv
  BY DEF JudgeInit, PanelInv, PaperInv, Seats, Blocks, Heard, AllCollected

\* Steps of one judge's thread: nobody else's seat changes, and nothing is heard.
LEMMA SeatKeeps ==
    ASSUME PanelInv, PaperInv, NEW j \in Judge, NEW r \in Seats,
           panel = "judging", j \in seats, seat[j].at # "collected", r.at \in {"running", "answered"},
           r.at = "answered" => /\ r.tells \in Silent \cup {"review"}
                                /\ r.tells = "review" <=> r.did = "text",
           seat' = [seat EXCEPT ![j] = r], UNCHANGED <<seats, said, panel, paper>>
    PROVE  PanelInv' /\ PaperInv'
<1>1. \A k \in Judge : seat'[k] = IF k = j THEN r ELSE seat[k]
  BY DEF PanelInv
<1>2. \A l \in Label : Heard(l)' = Heard(l)
  BY <1>1 DEF Heard, PanelInv
<1>3. \A l \in Label : \A k \in Heard(l) : seat'[k].tells = seat[k].tells
  BY <1>1 DEF Heard, PanelInv
<1>4. \A l \in Label :
         IF Heard(l)' = {} THEN said'[l] = "none" ELSE \E k \in Heard(l)' : said'[l] = seat'[k].tells
  BY <1>2, <1>3 DEF PanelInv
<1>5. PanelInv'
  BY <1>1, <1>4 DEF PanelInv
<1>6. PaperInv'
  BY DEF PaperInv
<1>7. QED
  BY <1>5, <1>6

LEMMA CollectKeeps ==
    ASSUME PanelInv, PaperInv, NEW j \in Judge, Collect(j) PROVE PanelInv' /\ PaperInv'
<1> DEFINE r == [seat[j] EXCEPT !.at = "collected"]
<1>1. /\ panel = "judging" /\ seat[j].at = "answered" /\ seat[j] \in Seats /\ j \in seats
      /\ said' = [said EXCEPT ![LabelOf[j]] = seat[j].tells] /\ seat' = [seat EXCEPT ![j] = r]
      /\ UNCHANGED <<seats, panel, paper>>
  BY DEF Collect, PanelInv
<1>2. r \in Seats /\ r.at = "collected" /\ r.tells = seat[j].tells /\ r.did = seat[j].did
  BY <1>1 DEF Seats
<1> HIDE DEF r
<1>3. \A k \in Judge : seat'[k] = IF k = j THEN r ELSE seat[k]
  BY <1>1 DEF PanelInv
<1>4. LabelOf[j] \in Label /\ said \in [Label -> Silent \cup {"none", "review"}]
  BY DEF Label, PanelInv, Blocks
<1>5. said' \in Blocks
  BY <1>1, <1>4 DEF Blocks, PanelInv
<1>6. ASSUME NEW l \in Label
      PROVE IF Heard(l)' = {} THEN said'[l] = "none" ELSE \E k \in Heard(l)' : said'[l] = seat'[k].tells
  <2>1. CASE l = LabelOf[j]
    <3>1. j \in Heard(l)'
      BY <1>1, <1>2, <1>3, <2>1 DEF Heard
    <3>2. said'[l] = seat'[j].tells
      BY <1>1, <1>2, <1>3, <1>4, <2>1
    <3>3. QED
      BY <3>1, <3>2
  <2>2. CASE l # LabelOf[j]
    <3>1. Heard(l)' = Heard(l) /\ said'[l] = said[l]
      BY <1>1, <1>3, <1>4, <2>2 DEF Heard, PanelInv
    <3>2. \A k \in Heard(l) : seat'[k].tells = seat[k].tells
      BY <1>2, <1>3 DEF Heard, PanelInv
    <3>3. QED
      BY <3>1, <3>2 DEF PanelInv
  <2>3. QED
    BY <2>1, <2>2
<1>7. PanelInv'
  BY <1>1, <1>2, <1>3, <1>5, <1>6 DEF PanelInv
<1>8. PaperInv'
  BY <1>1 DEF PaperInv
<1>9. QED
  BY <1>7, <1>8

LEMMA SeatJudgesKeeps == ASSUME PanelInv, PaperInv, SeatJudges PROVE PanelInv' /\ PaperInv'
<1>1. /\ panel = "idle" /\ seats' \subseteq Judge /\ panel' \in {"refused", "judging"}
      /\ UNCHANGED <<seat, said, paper>>
  BY DEF SeatJudges
<1>2. \A l \in Label : Heard(l) = {} /\ Heard(l)' = {}
  BY <1>1 DEF Heard, PanelInv
<1>3. PanelInv'
  BY <1>1, <1>2 DEF PanelInv
<1>4. PaperInv'
  BY <1>1 DEF PaperInv
<1>5. QED
  BY <1>3, <1>4

LEMMA PanelStepKeeps ==
    ASSUME PanelInv, PaperInv, [JudgeNext]_judgeVars PROVE PanelInv' /\ PaperInv'
<1>1. CASE UNCHANGED panelVars
  BY <1>1 DEF panelVars, PanelInv, PaperInv, Heard, AllCollected
<1>2. ASSUME NEW j \in Judge, StartJudge(j) PROVE PanelInv' /\ PaperInv'
  <2> DEFINE r == [seat[j] EXCEPT !.at = "running"]
  <2>1. /\ panel = "judging" /\ j \in seats /\ seat[j].at = "free" /\ seat[j] \in Seats
        /\ seat' = [seat EXCEPT ![j] = r] /\ UNCHANGED <<seats, said, panel, paper>>
    BY <1>2 DEF StartJudge, PanelInv
  <2>2. r \in Seats /\ r.at = "running"
    BY <2>1 DEF Seats
  <2> HIDE DEF r
  <2>3. QED
    BY <2>1, <2>2, SeatKeeps
<1>3. ASSUME NEW j \in Judge, NEW tells \in Silent \cup {"review"}, NEW did \in {"text", "silent", "killed", "absent"},
             Answered(j, tells, did), tells = "review" <=> did = "text",
             panel = "judging", j \in seats, seat[j].at # "collected", UNCHANGED <<seats, said, panel, paper>>
      PROVE PanelInv' /\ PaperInv'
  <2> DEFINE r == [at |-> "answered", tells |-> tells, did |-> did]
  <2>1. r \in Seats /\ r.at = "answered" /\ r.tells = tells /\ r.did = did
    BY DEF Seats
  <2>2. seat' = [seat EXCEPT ![j] = r]
    BY <1>3 DEF Answered
  <2> HIDE DEF r
  <2>3. QED
    BY <1>3, <2>1, <2>2, SeatKeeps
<1>4. ASSUME NEW j \in Judge, ProgramMissing(j) PROVE PanelInv' /\ PaperInv'
  BY <1>3, <1>4 DEF ProgramMissing, Silent
<1>5. ASSUME NEW j \in Judge, AnswerJudge(j) PROVE PanelInv' /\ PaperInv'
  <2>1. PICK text \in BOOLEAN, ok \in BOOLEAN : Answered(j, Rendered(text, ok), IF text THEN "text" ELSE "silent")
    BY <1>5 DEF AnswerJudge
  <2>2. /\ panel = "judging" /\ j \in seats /\ seat[j].at # "collected"
        /\ UNCHANGED <<seats, said, panel, paper>>
    BY <1>5 DEF AnswerJudge, PanelInv
  <2>3. /\ Rendered(text, ok) \in Silent \cup {"review"}
        /\ Rendered(text, ok) = "review" <=> (IF text THEN "text" ELSE "silent") = "text"
        /\ (IF text THEN "text" ELSE "silent") \in {"text", "silent", "killed", "absent"}
    BY DEF Rendered, Silent
  <2>4. QED
    BY <1>3, <2>1, <2>2, <2>3
<1>6. ASSUME NEW j \in Judge, JudgeTimesOut(j) PROVE PanelInv' /\ PaperInv'
  BY <1>3, <1>6 DEF JudgeTimesOut, Silent, PanelInv
<1>7. CASE OpenPaper
  BY <1>7 DEF OpenPaper, PanelInv, PaperInv, Heard, AllCollected
<1>8. CASE WritePaper
  BY <1>8 DEF WritePaper, PanelInv, PaperInv, Heard, AllCollected
<1>9. CASE PanelKilled
  BY <1>9 DEF PanelKilled, PanelInv, PaperInv, Heard, AllCollected
<1>10. CASE WatchdogKills \/ EndOfOutput \/ Waited \/ StartReview \/ ReviewerEnds \/ SaveReview \/ OpenStream
            \/ FeedPrompt \/ AgentFinishes \/ LeftoversEnd \/ ReaderQuits
  BY <1>1, <1>10 DEF WatchdogKills, EndOfOutput, Waited, StartReview, ReviewerEnds, SaveReview, OpenStream,
                     FeedPrompt, AgentFinishes, LeftoversEnd, ReaderQuits
<1>11. CASE UNCHANGED judgeVars
  BY <1>1, <1>11 DEF judgeVars
<1>12. QED
  BY <1>2, <1>4, <1>5, <1>6, <1>7, <1>8, <1>9, <1>10, <1>11, CollectKeeps, SeatJudgesKeeps
     DEF JudgeNext, JudgeSteps

---------------------------------------------------------------------------
(* The reviews                                                             *)

LEMMA ReviewInit == JudgeInit => ReviewInv
  BY DEF JudgeInit, ReviewInv, Reviews, Logs, ReviewKept

LEMMA StartReviewKeeps == ASSUME ReviewInv, StartReview PROVE ReviewInv'
<1> DEFINE run == IF review.run = "none" THEN "first" ELSE "second"
<1>1. review' = [review EXCEPT !.at = "running", !.was = revlog, !.told = "none", !.run = run]
      /\ revlog' = revlog
  BY DEF StartReview
<1>2. run \in {"first", "second"}
  OBVIOUS
<1> HIDE DEF run
<1>3. QED
  BY <1>1, <1>2 DEF ReviewInv, Reviews, ReviewKept

LEMMA ReviewerEndsKeeps == ASSUME ReviewInv, ReviewerEnds PROVE ReviewInv'
<1>1. PICK text \in BOOLEAN, ok \in BOOLEAN :
         /\ review' = [review EXCEPT !.at = "ended", !.out = text, !.ok = ok]
         /\ revlog' = IF ~review.codex \/ ~ok THEN revlog ELSE IF text THEN review.run ELSE "empty"
  BY DEF ReviewerEnds
<1>2. review.at = "running" /\ review \in Reviews /\ revlog = review.was /\ revlog \in Logs /\ review.run # "none"
  BY DEF ReviewerEnds, ReviewInv
<1>3. /\ review' \in Reviews /\ review'.at = "ended" /\ review'.out = text /\ review'.ok = ok
      /\ review'.codex = review.codex /\ review'.run = review.run /\ review'.was = review.was
  BY <1>1, <1>2 DEF Reviews
<1>4. revlog' \in Logs
  BY <1>1, <1>2 DEF Reviews, Logs
<1>5. IF review'.codex /\ review'.ok THEN revlog' = (IF review'.out THEN review'.run ELSE "empty")
      ELSE revlog' = review'.was
  BY <1>1, <1>2, <1>3
<1>6. QED
  BY <1>2, <1>3, <1>4, <1>5 DEF ReviewInv, ReviewKept

LEMMA SaveReviewKeeps == ASSUME ReviewInv, SaveReview PROVE ReviewInv'
<1>1. /\ review.at = "ended" /\ review \in Reviews /\ revlog \in Logs /\ review.run # "none"
      /\ IF review.codex /\ review.ok THEN revlog = (IF review.out THEN review.run ELSE "empty")
         ELSE revlog = review.was
  BY DEF SaveReview, ReviewInv
<1>2. ReviewText \in Logs
  BY <1>1 DEF ReviewText, Reviews, Logs
<1>3. CASE ~review.ok /\ ReviewText = "empty"
  <2> DEFINE told == IF revlog = "none" THEN "nothing" ELSE "kept"
  <2>1. review' = [review EXCEPT !.at = "told", !.told = told] /\ revlog' = revlog
    BY <1>3 DEF SaveReview
  <2>2. told \in {"nothing", "kept"} /\ (told = "kept" => revlog # "none")
    OBVIOUS
  <2> HIDE DEF told
  <2>3. /\ review' \in Reviews /\ review'.at = "told" /\ review'.told = told /\ review'.was = review.was
        /\ review'.run = review.run /\ review'.ok = review.ok /\ review'.out = review.out
    BY <1>1, <2>1, <2>2 DEF Reviews
  <2>4. QED
    BY <1>1, <1>3, <2>1, <2>2, <2>3 DEF ReviewInv, ReviewKept
<1>4. CASE ~(~review.ok /\ ReviewText = "empty")
  <2>1. review' = [review EXCEPT !.at = "told", !.told = "saved"] /\ revlog' = ReviewText
    BY <1>4 DEF SaveReview
  <2>2. /\ review' \in Reviews /\ review'.at = "told" /\ review'.told = "saved" /\ review'.was = review.was
        /\ review'.run = review.run /\ review'.ok = review.ok /\ review'.out = review.out
        /\ review'.codex = review.codex
    BY <1>1, <2>1 DEF Reviews
  <2>3. (~review.codex \/ review.ok) => ReviewText = IF review.out THEN review.run ELSE "empty"
    BY <1>1 DEF ReviewText, Reviews
  <2>4. ~review.ok /\ ~review.out => ReviewText = review.was
    BY <1>1, <1>4 DEF ReviewText
  <2>5. QED
    BY <1>1, <1>2, <2>1, <2>2, <2>3, <2>4 DEF ReviewInv, ReviewKept
<1>5. QED
  BY <1>3, <1>4

LEMMA ReviewStepKeeps == ASSUME ReviewInv, [JudgeNext]_judgeVars PROVE ReviewInv'
<1>1. CASE UNCHANGED <<review, revlog>>
  BY <1>1 DEF ReviewInv, ReviewKept
<1>2. ASSUME NEW j \in Judge,
             StartJudge(j) \/ ProgramMissing(j) \/ AnswerJudge(j) \/ JudgeTimesOut(j) \/ Collect(j)
      PROVE UNCHANGED <<review, revlog>>
  BY <1>2 DEF StartJudge, ProgramMissing, AnswerJudge, JudgeTimesOut, Collect
<1>3. CASE SeatJudges \/ OpenPaper \/ WritePaper \/ PanelKilled \/ WatchdogKills \/ EndOfOutput \/ Waited
           \/ OpenStream \/ FeedPrompt \/ AgentFinishes \/ LeftoversEnd \/ ReaderQuits
  BY <1>1, <1>3 DEF SeatJudges, OpenPaper, WritePaper, PanelKilled, WatchdogKills, EndOfOutput, Waited,
                    OpenStream, FeedPrompt, AgentFinishes, LeftoversEnd, ReaderQuits
<1>4. CASE UNCHANGED judgeVars
  BY <1>1, <1>4 DEF judgeVars
<1>5. QED
  BY <1>1, <1>2, <1>3, <1>4, StartReviewKeeps, ReviewerEndsKeeps, SaveReviewKeeps DEF JudgeNext, JudgeSteps

---------------------------------------------------------------------------

JudgeInv == PanelInv /\ PaperInv /\ ReviewInv

LEMMA JudgeInvHolds == JudgeSpec => []JudgeInv
<1>1. JudgeInit => JudgeInv
  BY PanelInit, ReviewInit DEF JudgeInv
<1>2. JudgeInv /\ [JudgeNext]_judgeVars => JudgeInv'
  BY PanelStepKeeps, ReviewStepKeeps DEF JudgeInv
<1>3. QED
  BY <1>1, <1>2, PTL DEF JudgeSpec

\* The block a panel writes for a label is what one of its judges of that
\* label told, and marked failed exactly if that judge said nothing; a saved
\* review is the present run's, and a silent failure leaves the earlier one,
\* for any number of judges and labels (panel-review, plan-review and
\* impl-review in tasks/cli.py).
THEOREM ReviewsAreHonest == JudgeSpec => []ReviewsHonest
<1>1. JudgeInv => ReviewsHonest
  <2> SUFFICES ASSUME JudgeInv PROVE PanelHonest
    BY DEF JudgeInv, ReviewInv, ReviewsHonest
  <2>1. paper.at \in {"cut", "whole"} => \A j \in seats : seat[j].at = "collected"
    BY DEF JudgeInv, PaperInv, AllCollected
  <2>2. ASSUME panel = "done", NEW l \in Label
        PROVE IF \A j \in seats : LabelOf[j] # l THEN paper.says[l] = "none" /\ l \notin paper.failed
              ELSE \E j \in seats :
                     /\ LabelOf[j] = l /\ paper.says[l] = seat[j].tells
                     /\ l \in paper.failed <=> seat[j].did # "text"
    <3>1. AllCollected /\ paper.says[l] = said[l] /\ (l \in paper.failed <=> said[l] \in Silent)
      BY <2>2 DEF JudgeInv, PaperInv, JudgeFailed
    <3>2. CASE \A j \in seats : LabelOf[j] # l
      BY <3>1, <3>2 DEF JudgeInv, PanelInv, Heard, Silent
    <3>3. CASE \E j \in seats : LabelOf[j] = l
      <4>1. PICK j \in Heard(l) : said[l] = seat[j].tells
        BY <3>1, <3>3 DEF JudgeInv, PanelInv, Heard, AllCollected
      <4>2. j \in seats /\ LabelOf[j] = l /\ j \in Judge /\ seat[j].at = "collected"
        BY <4>1 DEF Heard, JudgeInv, PanelInv
      <4>3. seat[j].tells \in Silent <=> seat[j].did # "text"
        BY <4>2 DEF JudgeInv, PanelInv, Silent
      <4>4. QED
        BY <3>1, <3>3, <4>1, <4>2, <4>3
    <3>4. QED
      BY <3>2, <3>3
  <2>3. QED
    BY <2>1, <2>2 DEF PanelHonest
<1>2. QED
  BY <1>1, JudgeInvHolds, PTL

---------------------------------------------------------------------------
(* Type correctness of the reviews                                         *)

Readers == [at : {"idle", "feeding", "reading", "waiting", "ended", "raised"},
            fed : BOOLEAN, quit : BOOLEAN,
            dog : {"off", "set", "fired", "cancelled"},
            process : {"none", "alive", "gone"}, holder : {"none", "alive", "gone"}]

JudgeRest ==
    /\ use \in {"panel", "review", "stream"} /\ paper \in Papers
    /\ panel \in {"idle", "refused", "judging", "writing", "done", "killed"}
    /\ stream \in Readers

LEMMA JudgeRestInit == JudgeInit => JudgeRest
<1> SUFFICES ASSUME JudgeInit PROVE JudgeRest
  OBVIOUS
<1>1. stream \in Readers
  BY DEF JudgeInit, Readers
<1>2. QED
  BY <1>1 DEF JudgeInit, JudgeRest, Papers

LEMMA JudgeRestKept == ASSUME JudgeInv, JudgeRest, [JudgeNext]_judgeVars PROVE JudgeRest'
<1>1. CASE WritePaper
  <2>1. said \in Blocks
    BY DEF JudgeInv, PanelInv
  <2>2. paper' \in Papers
    BY <1>1, <2>1 DEF WritePaper, Papers
  <2>3. QED
    BY <1>1, <2>2 DEF WritePaper, JudgeRest
<1>2. ASSUME NEW j \in Judge,
             StartJudge(j) \/ JudgeTimesOut(j) \/ Collect(j) \/ ProgramMissing(j) \/ AnswerJudge(j)
      PROVE  JudgeRest'
  BY <1>2 DEF StartJudge, JudgeTimesOut, Collect, ProgramMissing, AnswerJudge, JudgeRest
<1>3. CASE SeatJudges \/ OpenPaper \/ PanelKilled
  BY <1>3 DEF SeatJudges, OpenPaper, PanelKilled, JudgeRest, Papers
<1>4. CASE StartReview \/ ReviewerEnds \/ SaveReview
  BY <1>4 DEF StartReview, ReviewerEnds, SaveReview, panelVars, JudgeRest
<1>5. CASE \/ OpenStream \/ FeedPrompt \/ WatchdogKills \/ AgentFinishes \/ LeftoversEnd
          \/ EndOfOutput \/ ReaderQuits \/ Waited
  <2>1. UNCHANGED <<use, panelVars>>
    BY <1>5 DEF OpenStream, FeedPrompt, WatchdogKills, AgentFinishes, LeftoversEnd, EndOfOutput, ReaderQuits,
               Waited
  <2>2. stream \in Readers
    BY DEF JudgeRest
  <2>3. stream' \in Readers
    <3>1. CASE OpenStream
      BY <2>2, <3>1 DEF OpenStream, Streams, Readers
    <3>2. CASE FeedPrompt
      BY <2>2, <3>2 DEF FeedPrompt, Readers
    <3>3. CASE WatchdogKills
      BY <2>2, <3>3, ZenonT(30) DEF WatchdogKills, Survives, Readers
    <3>4. CASE AgentFinishes
      BY <2>2, <3>4, ZenonT(30) DEF AgentFinishes, Survives, Readers
    <3>6. CASE LeftoversEnd \/ Waited
      BY <2>2, <3>6 DEF LeftoversEnd, Waited, Readers
    <3>5. CASE EndOfOutput \/ ReaderQuits
      BY <2>2, <3>5 DEF EndOfOutput, ReaderQuits, ToWaiting, Readers
    <3>7. QED
      BY <1>5, <3>1, <3>2, <3>3, <3>4, <3>5, <3>6
  <2>4. QED
    BY <2>1, <2>3 DEF JudgeRest, panelVars
<1>6. CASE UNCHANGED judgeVars
  BY <1>6 DEF judgeVars, panelVars, JudgeRest
<1>7. QED
  BY <1>1, <1>2, <1>3, <1>4, <1>5, <1>6 DEF JudgeNext, JudgeSteps

\* The variables of the reviews have their types.
THEOREM JudgeTypes == JudgeSpec => []JudgeTypeOK
<1>1. JudgeInv /\ JudgeRest /\ [JudgeNext]_judgeVars => JudgeRest'
  BY JudgeRestKept
<1>2. JudgeInv /\ JudgeRest => JudgeTypeOK
  BY DEF JudgeInv, PanelInv, ReviewInv, JudgeRest, JudgeTypeOK, Seats, Reviews, Readers
<1>3. QED
  BY <1>1, <1>2, JudgeRestInit, JudgeInvHolds, PTL DEF JudgeSpec

---------------------------------------------------------------------------
(* All parts together                                                      *)

\* Every state of the composition starts, and every step goes on, as each
\* part does alone.
LEMMA PartsStart ==
    Init => /\ TmuxInit /\ LoopInit /\ ChatInit /\ MergeInit /\ GateInit
            /\ NamesInit /\ HooksInit /\ JudgeInit
  BY DEF Init, ChatRests, MergeRests, GateRests, HooksRest, JudgesRest

LEMMA PartsStep ==
    [Next]_vars => /\ [TmuxNext]_runVars /\ [LoopNext]_loopVars /\ [ChatNext]_chatVars
                   /\ [MergeNext]_mergeVars /\ [GateNext]_gateVars /\ [NamesNext]_nameVars
                   /\ [HooksNext]_hookVars /\ [JudgeNext]_judgeVars
  BY DEF Next, vars

\* Each behaviour of the composition is one of every part.
THEOREM PartsCompose ==
    Spec => /\ TmuxSpec /\ LoopSpec /\ ChatSpec /\ MergeSpec
            /\ GateSpec /\ NamesSpec /\ HooksSpec /\ JudgeSpec
  BY PartsStart, PartsStep, PTL
     DEF Spec, TmuxSpec, LoopSpec, ChatSpec, MergeSpec, GateSpec, NamesSpec, HooksSpec, JudgeSpec

\* The variables of all parts keep their types.
THEOREM PartsTypes == Spec => []TypeOK
<1>1. Spec => /\ []TmuxTypeOK /\ []LoopTypeOK /\ []ChatTypeOK /\ []MergeTypeOK
              /\ []GateTypeOK /\ []NamesTypeOK /\ []HookTypeOK /\ []JudgeTypeOK
  BY PartsCompose, TmuxTypes, LoopTypes, ChatTypes, MergeTypes, GateTypes, NamesTypes, HookTypes,
     JudgeTypes, PTL
<1>2. TypeOK <=> /\ TmuxTypeOK /\ LoopTypeOK /\ ChatTypeOK /\ MergeTypeOK
                 /\ GateTypeOK /\ NamesTypeOK /\ HookTypeOK /\ JudgeTypeOK
  BY DEF TypeOK
<1>3. QED
  BY <1>1, <1>2, PTL

\* What a reader is told of a finished tmux run is what the run did, and a
\* review that is shown is one that was given, in the composition.
THEOREM AnswersAlwaysSound == Spec => []AnswersSound
<1>1. Spec => []OutcomeSound /\ []ReviewsHonest
  BY PartsCompose, OutcomeIsSound, ReviewsAreHonest, PTL
<1>2. OutcomeSound /\ ReviewsHonest => AnswersSound
  BY DEF AnswersSound
<1>3. QED
  BY <1>1, <1>2, PTL

\* What is proved of a part holds in the composition.
THEOREM PartsHold ==
    Spec => [](/\ ReminderSurvives /\ EntriesOnceInOrder /\ MergeSound
               /\ EditsInOrder /\ NamesHold /\ HooksSettle)
  BY PartsCompose, ReminderAlwaysSurvives, EntriesAlwaysInOrder, MergeAlwaysSound, EditsAlwaysInOrder,
     NamesAlwaysHold, HooksAlwaysSettle, PTL
=============================================================================
