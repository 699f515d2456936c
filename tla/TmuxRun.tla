------------------------------ MODULE TmuxRun ------------------------------
(***************************************************************************)
(* One run of pb-tmux-agent (tmux_agent.py): the command that starts it,   *)
(* the runner in the tmux pane, the agent's process group, the hook tmux   *)
(* runs when the pane dies, a command that stops it and one that reads its *)
(* status.  They share nothing but the files of the run directory, the     *)
(* tmux session and signals.                                               *)
(*                                                                         *)
(*   meta      what meta.json says: nothing, "starting", "paned" (with the *)
(*             pane's identity), "running" or "finishing"                  *)
(*   flags     which of the files environment, configured, ready and       *)
(*             request (stop.request.json) exist                           *)
(*   result    result.json: who ended the run, and how                     *)
(*   session   the tmux session: none, bare (before its options are set),  *)
(*             live, or kept with a dead pane                              *)
(*   hooked    the pane-died hook is set                                   *)
(*   died      the hook has been fired and has not written yet             *)
(*   starter, runner, stopper, reader    where each is in its code         *)
(*   agent     the living members of the agent's process group             *)
(*   asked     the runner's handler has seen its first signal              *)
(*                                                                         *)
(* A run directory is never removed, so one run is all there is to a name. *)
(* A group is taken to be gone once it was sent SIGKILL.                   *)
(***************************************************************************)
EXTENDS Naturals

CONSTANT MaxFaults

ASSUME FaultAssumption == MaxFaults \in Nat

VARIABLES meta, flags, result, session, hooked, died,
          starter, runner, stopper, reader, agent, asked, faults

files == <<meta, flags, result>>
tmux  == <<session, hooked, died>>
procs == <<starter, runner, stopper, reader>>
runVars == <<meta, flags, result, session, hooked, died, starter, runner, stopper, reader, agent, asked, faults>>

NoResult == "none"
\* Results the runner publishes after it has closed the agent's group.
OwnResult == {"completed", "failed", "stopped"}
Results == OwnResult \cup {NoResult, "start", "runner"}

\* Before the runner has replaced the default action of the signals.
Unguarded == {"environment", "handshake", "spawn", "exec", "handlers"}
Guarded   == {"stable", "ready", "monitor", "close", "publish"}
Alive     == Unguarded \cup Guarded

Setting == {"session", "options", "pane", "hook"}

TmuxTypeOK ==
    /\ meta \in {"none", "starting", "paned", "running", "finishing"}
    /\ flags \subseteq {"environment", "configured", "ready", "request"}
    /\ result \in Results
    /\ session \in {"none", "bare", "live", "dead"}
    /\ hooked \in BOOLEAN /\ died \in BOOLEAN /\ asked \in BOOLEAN
    /\ starter \in Setting \cup {"reserve", "configured", "wait", "running", "ended", "refused", "killed"}
    /\ runner \in Alive \cup {"none", "exited", "killed"}
    /\ stopper \in {"look", "request", "wait", "done", "refused"}
    /\ reader \in {"result", "pane", "gone", "alone", "dead", "finished", "lost", "missing", "other"}
    /\ agent \subseteq {"leader", "helper"}
    /\ faults \in 0 .. MaxFaults

TmuxInit ==
    /\ meta = "none" /\ flags = {} /\ result = NoResult
    /\ session = "none" /\ hooked = FALSE /\ died = FALSE
    /\ starter = "reserve" /\ runner = "none" /\ stopper = "look" /\ reader = "result"
    /\ agent = {} /\ asked = FALSE /\ faults = 0

---------------------------------------------------------------------------
(* Parts of the steps.                                                     *)

\* publish_json_once: a link, so the first result stays.
PublishOnce(r) == result' = IF result = NoResult THEN r ELSE result

\* A signal to the group ends whichever members do not ignore it.
SignalGroup == agent' \in SUBSET agent

\* The pane's process is gone: tmux keeps the dead pane of a session whose
\* options are set and fires the hook; the terminal hangs up on the agent.
PaneEnds ==
    /\ session' = IF session = "live" THEN "dead"
                  ELSE IF session = "bare" THEN "none" ELSE session
    /\ died' = (died \/ (session = "live" /\ hooked))
    /\ UNCHANGED hooked

\* What a SIGTERM or SIGHUP does to the runner: before its handlers are set
\* it dies, afterwards it notes the first one and passes it on.
SignalRunner ==
    IF runner \in Unguarded
      THEN runner' = "killed" /\ SignalGroup /\ UNCHANGED asked
      ELSE IF runner \in Guarded /\ ~asked
        THEN asked' = TRUE /\ SignalGroup /\ UNCHANGED runner
        ELSE UNCHANGED <<runner, agent, asked>>

KillSession == session' = "none" /\ SignalRunner /\ UNCHANGED <<hooked, died>>

Fault == faults < MaxFaults /\ faults' = faults + 1

---------------------------------------------------------------------------
(* start_run                                                               *)

\* The directory is the reservation; the log and the environment follow.
Reserve ==
    /\ starter = "reserve"
    /\ starter' = "session" /\ meta' = "starting" /\ flags' = flags \cup {"environment"}
    /\ UNCHANGED <<result, tmux, runner, stopper, reader, agent, asked, faults>>

NewSession ==
    /\ starter = "session"
    /\ starter' = "options" /\ session' = "bare" /\ runner' = "environment"
    /\ UNCHANGED <<files, hooked, died, stopper, reader, agent, asked, faults>>

\* Ownership marks, remain-on-exit and the log pipe.
SetOptions ==
    /\ starter = "options" /\ session = "bare"
    /\ starter' = "pane" /\ session' = "live"
    /\ UNCHANGED <<files, hooked, died, runner, stopper, reader, agent, asked, faults>>

WritePane ==
    /\ starter = "pane" /\ session # "none"
    /\ starter' = "hook" /\ meta' = "paned"
    /\ UNCHANGED <<flags, result, tmux, runner, stopper, reader, agent, asked, faults>>

SetHook ==
    /\ starter = "hook" /\ session # "none"
    /\ starter' = "configured" /\ hooked' = TRUE
    /\ UNCHANGED <<files, session, died, runner, stopper, reader, agent, asked, faults>>

TouchConfigured ==
    /\ starter = "configured"
    /\ starter' = "wait" /\ flags' = flags \cup {"configured"}
    /\ UNCHANGED <<meta, result, tmux, runner, stopper, reader, agent, asked, faults>>

\* tmux refuses one of these steps, or the session is gone: what was made
\* is closed again and the start ends with a result of its own.
SetupFails ==
    /\ starter \in Setting
    /\ \/ session = "none" /\ starter # "session" /\ UNCHANGED faults
       \/ Fault
    /\ starter' = "refused" /\ PublishOnce("start")
    /\ IF starter = "session" THEN UNCHANGED <<tmux, runner, agent, asked>> ELSE KillSession
    /\ UNCHANGED <<meta, flags, stopper, reader>>

\* Ready, by the file and by the metadata, in a session that is still there.
SeeReady ==
    /\ starter = "wait" /\ "ready" \in flags /\ meta = "running" /\ session # "none"
    /\ starter' = "running"
    /\ UNCHANGED <<files, tmux, runner, stopper, reader, agent, asked, faults>>

\* The run ended before it was seen ready.
SeeResult ==
    /\ starter = "wait" /\ "ready" \notin flags /\ result # NoResult
    /\ starter' = IF result \in OwnResult THEN "ended" ELSE "refused"
    /\ UNCHANGED <<files, tmux, runner, stopper, reader, agent, asked, faults>>

\* 30 seconds without either, or a session that is gone when it is ready:
\* the start is refused, and the session and the runner are left.
GiveUpStart ==
    /\ starter = "wait"
    /\ IF "ready" \in flags THEN session = "none" ELSE result = NoResult
    /\ starter' = "refused" /\ PublishOnce("start")
    /\ UNCHANGED <<meta, flags, tmux, runner, stopper, reader, agent, asked, faults>>

---------------------------------------------------------------------------
(* The runner, _runner_main                                                *)

TakeEnvironment ==
    /\ runner = "environment"
    /\ runner' = "handshake" /\ flags' = flags \ {"environment"}
    /\ UNCHANGED <<meta, result, tmux, starter, stopper, reader, agent, asked, faults>>

SeeConfigured ==
    /\ runner = "handshake" /\ "configured" \in flags
    /\ runner' = "spawn"
    /\ UNCHANGED <<files, tmux, starter, stopper, reader, agent, asked, faults>>

\* 30 seconds without tmux.configured.
HandshakeTimesOut ==
    /\ runner = "handshake" /\ "configured" \notin flags
    /\ runner' = "exited" /\ PublishOnce("start") /\ PaneEnds
    /\ UNCHANGED <<meta, flags, starter, stopper, reader, agent, asked, faults>>

\* The shim, in a group of its own, waits for the byte that starts it.
Spawn ==
    /\ runner = "spawn"
    /\ runner' = "exec" /\ agent' = {"leader"}
    /\ UNCHANGED <<files, tmux, starter, stopper, reader, asked, faults>>

\* The status pipe closes without an error, also when the shim is gone.
ExecAgent ==
    /\ runner = "exec"
    /\ runner' = "handlers"
    /\ UNCHANGED <<files, tmux, starter, stopper, reader, agent, asked, faults>>

\* No executable, no terminal, or no answer: the group is killed first.
ExecFails ==
    /\ runner = "exec"
    /\ agent' = {} /\ runner' = "exited" /\ PublishOnce("start") /\ PaneEnds
    /\ UNCHANGED <<meta, flags, starter, stopper, reader, asked, faults>>

SetHandlers ==
    /\ runner = "handlers"
    /\ runner' = "stable"
    /\ UNCHANGED <<files, tmux, starter, stopper, reader, agent, asked, faults>>

\* The identities of the runner and its group, and whether it still runs.
WriteRunning ==
    /\ runner = "stable"
    /\ meta' = IF "leader" \in agent /\ ~asked THEN "running" ELSE "finishing"
    /\ runner' = "ready"
    /\ UNCHANGED <<flags, result, tmux, starter, stopper, reader, agent, asked, faults>>

TouchReady ==
    /\ runner = "ready"
    /\ flags' = IF meta = "running" /\ "leader" \in agent /\ ~asked
                  THEN flags \cup {"ready"} ELSE flags
    /\ runner' = "monitor"
    /\ UNCHANGED <<meta, result, tmux, starter, stopper, reader, agent, asked, faults>>

\* The grace after a signal has passed.
KillGroup ==
    /\ runner = "monitor" /\ asked /\ "leader" \in agent
    /\ agent' = {}
    /\ UNCHANGED <<files, tmux, procs, asked, faults>>

SeeExit ==
    /\ runner = "monitor" /\ "leader" \notin agent
    /\ runner' = "close"
    /\ UNCHANGED <<files, tmux, starter, stopper, reader, agent, asked, faults>>

\* _terminate_process_group: SIGTERM, a grace, SIGKILL.
CloseGroup ==
    /\ runner = "close"
    /\ agent' = {} /\ runner' = "publish"
    /\ UNCHANGED <<files, tmux, starter, stopper, reader, asked, faults>>

Publish ==
    /\ runner = "publish"
    /\ \E r \in {IF "request" \in flags THEN "stopped" ELSE "completed", "failed"} : PublishOnce(r)
    /\ runner' = "exited" /\ PaneEnds
    /\ UNCHANGED <<meta, flags, starter, stopper, reader, agent, asked, faults>>

\* _pane_exit_main, for the pane the metadata names.
PaneExit ==
    /\ died
    /\ died' = FALSE /\ PublishOnce("runner")
    /\ UNCHANGED <<meta, flags, session, hooked, procs, agent, asked, faults>>

---------------------------------------------------------------------------
(* stop_run                                                                *)

\* _owned_runner_without_tmux: the metadata identifies it and it is alive.
Authentic == meta \in {"running", "finishing"} /\ runner \in Alive

\* A result is there: what tmux keeps of the run is closed, except the
\* evidence of a runner that died without a word.
StopEnded ==
    /\ stopper = "look" /\ result # NoResult
    /\ IF result = "runner" \/ session = "none"
         THEN stopper' = (IF result = "runner" THEN "refused" ELSE "done")
              /\ UNCHANGED <<tmux, runner, agent, asked>>
         ELSE stopper' = "done" /\ KillSession
    /\ UNCHANGED <<files, starter, reader, faults>>

\* The live runner is found, through its pane or without tmux.
FindRunner ==
    /\ stopper = "look" /\ result = NoResult
    /\ IF session = "none" THEN Authentic ELSE session = "live" /\ meta # "starting"
    /\ stopper' = "request"
    /\ UNCHANGED <<files, tmux, starter, runner, reader, agent, asked, faults>>

RequestStop ==
    /\ stopper = "request"
    /\ stopper' = "wait" /\ flags' = flags \cup {"request"}
    /\ SignalRunner
    /\ IF runner \in Unguarded THEN PaneEnds ELSE UNCHANGED tmux
    /\ UNCHANGED <<meta, result, starter, reader, faults>>

StopAnswered ==
    /\ stopper = "wait" /\ result # NoResult
    /\ stopper' = "done"
    /\ IF session = "none" THEN UNCHANGED <<tmux, runner, agent, asked>> ELSE KillSession
    /\ UNCHANGED <<files, starter, reader, faults>>

\* No result in the grace and three seconds.
StopUnanswered ==
    /\ stopper = "wait" /\ result = NoResult
    /\ stopper' = "refused"
    /\ UNCHANGED <<files, tmux, starter, runner, reader, agent, asked, faults>>

---------------------------------------------------------------------------
(* status_run, as wait_run repeats it                                      *)

ReadResult ==
    /\ reader = "result" /\ meta # "none"
    /\ reader' = IF result = NoResult THEN "pane" ELSE "finished"
    /\ UNCHANGED <<files, tmux, starter, runner, stopper, agent, asked, faults>>

ReadPane ==
    /\ reader = "pane"
    /\ reader' = IF session = "none" THEN "gone" ELSE IF session = "dead" THEN "dead" ELSE "other"
    /\ UNCHANGED <<files, tmux, starter, runner, stopper, agent, asked, faults>>

\* Fault: the result is not read again once the pane was seen dead.
JudgeDeadByPane ==
    /\ reader = "dead"
    /\ reader' = "lost"
    /\ UNCHANGED <<files, tmux, starter, runner, stopper, agent, asked, faults>>

\* The pane is dead: the result is read once more, and without one the run
\* is lost, two seconds after the pane died.
JudgeDead ==
    /\ reader = "dead"
    /\ reader' \in IF result # NoResult THEN {"finished"} ELSE {"lost", "other"}
    /\ UNCHANGED <<files, tmux, starter, runner, stopper, agent, asked, faults>>

\* No session: the result is read once more,
JudgeGone ==
    /\ reader = "gone"
    /\ reader' = IF result # NoResult THEN "finished" ELSE "alone"
    /\ UNCHANGED <<files, tmux, starter, runner, stopper, agent, asked, faults>>

\* and then the runner is looked for: without it, too, the run is lost.
JudgeAlone ==
    /\ reader = "alone"
    /\ reader' = IF Authentic THEN "other" ELSE "missing"
    /\ UNCHANGED <<files, tmux, starter, runner, stopper, agent, asked, faults>>

---------------------------------------------------------------------------
(* The agent, tmux and faults                                              *)

\* The leader starts a helper in its group.
Fork ==
    /\ agent = {"leader"} /\ runner # "exec"
    /\ agent' = {"leader", "helper"}
    /\ UNCHANGED <<files, tmux, procs, asked, faults>>

LeaderEnds ==
    /\ "leader" \in agent
    /\ agent' = agent \ {"leader"}
    /\ UNCHANGED <<files, tmux, procs, asked, faults>>

HelperEnds ==
    /\ "helper" \in agent
    /\ agent' = agent \ {"helper"}
    /\ UNCHANGED <<files, tmux, procs, asked, faults>>

StarterKilled ==
    /\ Fault /\ starter \in Setting \cup {"configured", "wait"}
    /\ starter' = "killed"
    /\ UNCHANGED <<files, tmux, runner, stopper, reader, agent, asked>>

RunnerKilled ==
    /\ Fault /\ runner \in Alive
    /\ runner' = "killed" /\ SignalGroup /\ PaneEnds
    /\ UNCHANGED <<files, starter, stopper, reader, asked>>

\* The tmux server ends, and its terminals hang up.
TmuxLost ==
    /\ Fault /\ session # "none"
    /\ KillSession
    /\ UNCHANGED <<files, starter, stopper, reader>>

StartStep ==
    \/ Reserve \/ NewSession \/ SetOptions \/ WritePane \/ SetHook \/ TouchConfigured
    \/ SetupFails \/ SeeReady \/ SeeResult \/ GiveUpStart

RunnerStep ==
    \/ TakeEnvironment \/ SeeConfigured \/ HandshakeTimesOut \/ Spawn \/ ExecAgent
    \/ ExecFails \/ SetHandlers \/ WriteRunning \/ TouchReady \/ KillGroup \/ SeeExit
    \/ CloseGroup \/ Publish

StopStep == StopEnded \/ FindRunner \/ RequestStop \/ StopAnswered \/ StopUnanswered
ReadStep == ReadResult \/ ReadPane \/ JudgeDead \/ JudgeGone \/ JudgeAlone
AgentStep == Fork \/ LeaderEnds \/ HelperEnds
FaultStep == StarterKilled \/ RunnerKilled \/ TmuxLost

TmuxNext == StartStep \/ RunnerStep \/ PaneExit \/ StopStep \/ ReadStep \/ AgentStep \/ FaultStep

\* The runner is a process of its own and is always scheduled again.
TmuxFairness == WF_runVars(RunnerStep)

TmuxSpec == TmuxInit /\ [][TmuxNext]_runVars /\ TmuxFairness

---------------------------------------------------------------------------

\* A result the runner published means that the agent's group is closed, as
\* every later command takes for granted (_runner_main closes the group
\* before publish_json_once, and nothing signals the group afterwards).
ResultMeansOver == result \in OwnResult => agent = {}

\* A run seen with a dead pane is called lost only while no result is
\* there, and none of the runner's own can come (status_run reads it again
\* after the pane, since the runner publishes before it ends).
LostMeansUnpublished == reader = "lost" => result \notin OwnResult

\* What a command that reads the run directory may take for granted.
OutcomeSound == ResultMeansOver /\ LostMeansUnpublished

\* A signal the runner's handler has seen closes the agent's group and comes
\* to a result, whatever the agent ignores, unless the runner is killed.
SignalSettles == asked ~> (runner = "killed" \/ (result # NoResult /\ agent = {}))
=============================================================================
