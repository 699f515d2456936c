------------------------------ MODULE ArenaRun ------------------------------
(* pb-arena: coordinators execute a frozen campaign, run after run. A run   *)
(* types the messages of a script into a worker started in tmux, waits for  *)
(* each to be acknowledged, then collects evidence, checks and judgments.   *)
(* Everything a run did is in its event log; a coordinator that was killed  *)
(* is continued from it. Any step may fail, be interrupted or be the last.  *)
EXTENDS Integers, Sequences, FiniteSets

CONSTANTS
    Coord,             \* executions of the campaign, each a process
    Run, Assignments,  \* the runs, and their frozen order
    NumEvents,         \* messages of the script
    OnTimeout,         \* what the script says of each that is not answered
    AfterExit,         \* messages to be delivered when the worker has ended
    Checks, Judges,    \* sequences of their identifiers
    MaxInterventions,
    MaxTroubles, MaxPrints, \* bounds of an instance
    Nobody

ASSUME ArenaAssumption ==
    /\ Assignments \in Seq(Run) /\ Nobody \notin Coord
    /\ \A r \in Run : \E i \in DOMAIN Assignments : Assignments[i] = r
    /\ NumEvents \in Nat \ {0} /\ MaxInterventions \in Nat \ {0}
    /\ OnTimeout \in [1..NumEvents -> {"fail", "skip", "stop"}]
    /\ AfterExit \subseteq 2..NumEvents
    /\ Checks \in Seq(STRING) /\ Judges \in Seq(STRING) /\ Judges # <<>>
    /\ {MaxTroubles, MaxPrints} \subseteq Nat

VARIABLES
    store,     \* the directory of each run
    flock,     \* who holds its owner.lock: one writer, or readers
    worker,    \* its worker in tmux
    coord,     \* the coordinators
    report,    \* report.json is there
    troubles   \* what went wrong so far

vars == <<store, flock, worker, coord, report, troubles>>

-----------------------------------------------------------------------------
(* The event log, and what a coordinator reads from it.                     *)

\* of: the artifact an event records, by its directory, whom it is about and
\* what it is; msg: the message it is about; mark: how much the worker had
\* printed when a message was sent.
Settling == {"delivery_acknowledged", "script_event_skipped"}
Ending   == {"controller_stopped", "controller_failed"}
EventType ==
    Settling \cup Ending \cup
    {"run_reserved", "recovery_recorded", "case_prepared", "variant_prepared", "worker_started",
     "delivery_requested", "delivery_sent", "wall_timeout", "artifact_recorded", "check_started",
     "check_completed", "judge_started", "judge_completed", "run_finished", "run_error", "run_resumed"}

Subject == {""} \cup {Checks[k] : k \in DOMAIN Checks} \cup {Judges[k] : k \in DOMAIN Judges}
Name == {"", "worker", "checks", "judges"} \X Subject
        \X {"", "terminal.log", "tmux-result.json", "workspace.diff", "stdout", "json",
            "raw.stdout", "result.json", "summary.json"}
Event == [type : EventType, of : Name, msg : 0..NumEvents, mark : Nat]
Ev(type) == [type |-> type, of |-> <<"", "", "">>, msg |-> 0, mark |-> 0]
EvMsg(type, i) == [Ev(type) EXCEPT !.msg = i]
EvOf(type, name) == [Ev(type) EXCEPT !.of = name]

Count(log, types) == Cardinality({k \in DOMAIN log : log[k].type \in types})

\* The replay of the log: which message is next, whether it was asked to be
\* sent, whether it was sent, and whether the controller has ended.
NextMsg(log) == Count(log, Settling) + 1
Asked(log) == Count(log, {"delivery_requested"}) >= NextMsg(log)
Sent(log) == Count(log, {"delivery_sent"}) >= NextMsg(log)
Terminal(log) == Count(log, Ending) > 0
Mark(log) ==
    LET sends == {k \in DOMAIN log : log[k].type = "delivery_sent"}
    IN IF Sent(log) THEN log[CHOOSE k \in sends : \A j \in sends : j <= k].mark ELSE 0

Finished(log) == Count(log, {"run_finished"})

\* No error came before the run was finished.
ErrorsAfterEnd(log) ==
    \A k \in DOMAIN log : log[k].type = "run_error" => \E j \in 1 .. k : log[j].type = "run_finished"

Recorded(log) == {log[k].of : k \in {j \in DOMAIN log : log[j].type = "artifact_recorded"}}

\* What the store verifies: a whole log, and exactly the artifacts it names.
Chained(s) == s.log # <<>> /\ ~s.torn
Intact(s) == Chained(s) /\ s.files = Recorded(s.log)

\* The snapshot beside the log is of the log's last event.
SnapshotCurrent(s) == s.snap.at = Len(s.log)

\* Only a run that has collected nothing yet may be continued, and only if
\* its private directory was kept.
Collected == {"run_error", "artifact_recorded", "check_started", "judge_started", "run_finished"}
Resumable(s) ==
    /\ Count(s.log, Collected) = 0
    /\ Count(s.log, {"recovery_recorded"}) = 1
    /\ s.private = "ready"

\* The evidence of a run, in the order it is written: artifacts, each with the
\* event that records it, and events of their own.
Artifact(dir, id, what) == EvOf("artifact_recorded", <<dir, id, what>>)
CheckEvidence(id) == <<Ev("check_started"), Artifact("checks", id, "stdout"),
                       Artifact("checks", id, "json"), Ev("check_completed")>>
JudgeEvidence(id) == <<Ev("judge_started"), Artifact("judges", id, "raw.stdout"),
                       Artifact("judges", id, "result.json"), Ev("judge_completed")>>
Summary == <<"judges", "", "summary.json">>
Plan ==
    <<Artifact("worker", "", "terminal.log"), Artifact("worker", "", "tmux-result.json"),
      Artifact("worker", "", "workspace.diff")>>
      \o [k \in 1 .. 4 * Len(Checks) |-> CheckEvidence(Checks[(k + 3) \div 4])[1 + ((k - 1) % 4)]]
      \o <<Artifact("checks", "", "summary.json")>>
      \o [k \in 1 .. 4 * Len(Judges) |-> JudgeEvidence(Judges[(k + 3) \div 4])[1 + ((k - 1) % 4)]]
      \o <<EvOf("artifact_recorded", Summary)>>

IsFile(ev) == ev.type = "artifact_recorded"
Evidence == {Plan[k].of : k \in {j \in DOMAIN Plan : IsFile(Plan[j])}}

-----------------------------------------------------------------------------
Gone == {"completed", "failed", "stopped", "lost"}   \* terminal worker states

\* What a snapshot says of a run; none before the first.
State == {"none", "reserved", "preparing", "controlling", "delivering", "awaiting_ack", "stopping",
          "collecting", "completed", "failed"}

NoWorker == [state |-> "absent", got |-> <<>>, out |-> <<>>, loose |-> FALSE]
NoStore  == [made |-> FALSE, lockfile |-> FALSE, log |-> <<>>, torn |-> FALSE,
             snap |-> [at |-> 0, state |-> "none"], files |-> {}, private |-> "none"]
Idle     == [pc |-> "idle", at |-> 1, ev |-> Ev("none"), state |-> "none", then |-> "idle",
             seen |-> "absent", read |-> 0, step |-> 1, fresh |-> FALSE, mine |-> FALSE, exit |-> "halt"]
Done     == [Idle EXCEPT !.pc = "done"]

Init ==
    /\ store = [r \in Run |-> NoStore]
    /\ flock = [r \in Run |-> [writer |-> Nobody, readers |-> {}]]
    /\ worker = [r \in Run |-> NoWorker]
    /\ coord = [p \in Coord |-> Idle]
    /\ report = FALSE
    /\ troubles = 0

Here(p) == Assignments[coord[p].at]   \* the run a coordinator is at
Log(p) == store[Here(p)].log
At(p, pc) == coord[p].pc = pc
Go(p, pc) == coord' = [coord EXCEPT ![p].pc = pc]

\* An event is appended in two steps: the log, then the snapshot.
Appending(c, ev, state, then) == [c EXCEPT !.pc = "append", !.ev = ev, !.state = state, !.then = then]
LogThen(p, ev, state, then) == coord' = [coord EXCEPT ![p] = Appending(@, ev, state, then)]

AppendEvent(p) ==
    /\ At(p, "append")
    /\ store' = [store EXCEPT ![Here(p)].log = Append(@, coord[p].ev)]
    /\ Go(p, "snapshot")
    /\ UNCHANGED <<flock, worker, report, troubles>>

WriteSnapshot(p) ==
    /\ At(p, "snapshot")
    /\ store' = [store EXCEPT ![Here(p)].snap = [at |-> Len(Log(p)), state |-> coord[p].state]]
    /\ coord' = [coord EXCEPT ![p].pc = coord[p].then, ![p].ev = Ev("none"),
                              ![p].state = "none", ![p].then = "idle"]
    /\ UNCHANGED <<flock, worker, report, troubles>>

-----------------------------------------------------------------------------
(* The campaign: each assignment is run, continued, or found finished.      *)

Execute(p) ==
    /\ At(p, "idle")
    /\ Go(p, "look")
    /\ UNCHANGED <<store, flock, worker, report, troubles>>

Look(p) ==
    /\ At(p, "look")
    /\ coord' = [coord EXCEPT ![p].pc =
           IF coord[p].at > Len(Assignments) THEN "report"
           ELSE IF store[Here(p)].made THEN "reader" ELSE "make"]
    /\ UNCHANGED <<store, flock, worker, report, troubles>>

\* An existing run is read under a shared lock, which a live writer refuses.
OpenReader(p) ==
    LET r == Here(p)
        may == store[r].lockfile /\ flock[r].writer = Nobody
    IN /\ At(p, "reader")
       /\ flock' = IF may THEN [flock EXCEPT ![r].readers = @ \cup {p}] ELSE flock
       /\ Go(p, IF may THEN "read" ELSE "halt")
       /\ UNCHANGED <<store, worker, report, troubles>>

ReadRun(p) ==
    LET r == Here(p) IN
    /\ At(p, "read")
    /\ flock' = [flock EXCEPT ![r].readers = @ \ {p}]
    /\ IF Intact(store[r]) /\ Finished(Log(p)) = 1
       THEN coord' = [coord EXCEPT ![p].pc = "look", ![p].at = @ + 1]
       ELSE Go(p, IF Intact(store[r]) /\ Finished(Log(p)) = 0 THEN "reopen" ELSE "halt")
    /\ UNCHANGED <<store, worker, report, troubles>>

\* RunStore.resume: sole owner, and a snapshot that agrees with the log.
Reopen(p) ==
    LET r == Here(p)
        may == /\ flock[r].writer = Nobody /\ flock[r].readers \ {p} = {}
               /\ Chained(store[r]) /\ SnapshotCurrent(store[r])
    IN /\ At(p, "reopen")
       /\ flock' = IF may THEN [flock EXCEPT ![r].writer = p] ELSE flock
       /\ IF may THEN LogThen(p, Ev("run_resumed"), store[r].snap.state, "gate") ELSE Go(p, "halt")
       /\ UNCHANGED <<store, worker, report, troubles>>

\* resume_worker goes on only with what it can prove to be its own.
Gate(p) ==
    LET r == Here(p) IN
    /\ At(p, "gate")
    /\ IF Resumable(store[r])
       THEN /\ coord' = [coord EXCEPT ![p].pc = "control", ![p].mine = TRUE]
            /\ worker' = [worker EXCEPT ![r].loose = FALSE]
       ELSE /\ LogThen(p, Ev("run_error"), "failed", "leave")
            /\ UNCHANGED worker
    /\ UNCHANGED <<store, flock, report, troubles>>

\* The execution ends with a note nobody reads, campaign-stop.json.
Halt(p) ==
    /\ At(p, "halt")
    /\ coord' = [coord EXCEPT ![p] = Done]
    /\ UNCHANGED <<store, flock, worker, report, troubles>>

\* write_report takes a run that is intact, finished once and says how it ended.
Reportable(r) ==
    /\ store[r].made /\ store[r].lockfile /\ flock[r].writer = Nobody
    /\ Intact(store[r]) /\ Finished(store[r].log) = 1
    /\ store[r].snap.state \in {"completed", "failed"}
    /\ Summary \in store[r].files

WriteReport(p) ==
    /\ At(p, "report")
    /\ report' = (report \/ \A r \in Run : Reportable(r))
    /\ coord' = [coord EXCEPT ![p] = Done]
    /\ UNCHANGED <<store, flock, worker, troubles>>

-----------------------------------------------------------------------------
(* A new run: reserved, prepared, its worker started.                       *)

MakeRun(p) ==
    LET r == Here(p) IN
    /\ At(p, "make")
    /\ store' = [store EXCEPT ![r].made = TRUE]
    /\ Go(p, IF store[r].made THEN "halt" ELSE "lockfile")
    /\ UNCHANGED <<flock, worker, report, troubles>>

MakeLock(p) ==
    /\ At(p, "lockfile")
    /\ store' = [store EXCEPT ![Here(p)].lockfile = TRUE]
    /\ Go(p, "flock")
    /\ UNCHANGED <<flock, worker, report, troubles>>

\* A reader that came first has the lock: the reservation fails.
TakeLock(p) ==
    LET r == Here(p)
        may == flock[r].writer = Nobody /\ flock[r].readers = {}
    IN /\ At(p, "flock")
       /\ flock' = IF may THEN [flock EXCEPT ![r].writer = p] ELSE flock
       /\ coord' = [coord EXCEPT ![p] =
              IF may THEN [Appending(@, Ev("run_reserved"), "reserved", "recover") EXCEPT !.fresh = TRUE]
              ELSE [@ EXCEPT !.pc = "halt"]]
       /\ UNCHANGED <<store, worker, report, troubles>>

WriteRecovery(p) ==
    /\ At(p, "recover")
    /\ store' = [store EXCEPT ![Here(p)].private = "made"]
    /\ LogThen(p, Ev("recovery_recorded"), "preparing", "prepare")
    /\ UNCHANGED <<flock, worker, report, troubles>>

PrepareCase(p) ==
    /\ At(p, "prepare")
    /\ LogThen(p, Ev("case_prepared"), "preparing", "variant")
    /\ UNCHANGED <<store, flock, worker, report, troubles>>

PrepareVariant(p) ==
    /\ At(p, "variant")
    /\ LogThen(p, Ev("variant_prepared"), "preparing", "start")
    /\ UNCHANGED <<store, flock, worker, report, troubles>>

StartWorker(p) ==
    LET r == Here(p) IN
    /\ At(p, "start")
    /\ store' = [store EXCEPT ![r].private = "ready"]
    /\ worker' = [worker EXCEPT ![r].state = "running"]
    /\ Go(p, "started")
    /\ UNCHANGED <<flock, report, troubles>>

RecordStart(p) ==
    /\ At(p, "started")
    /\ coord' = [coord EXCEPT ![p] =
           [Appending(@, Ev("worker_started"), "controlling", "control") EXCEPT !.mine = TRUE]]
    /\ UNCHANGED <<store, flock, worker, report, troubles>>

-----------------------------------------------------------------------------
(* The control loop: look, decide, act, and give up when time is over.      *)

\* What there is to see. A poll that finds nothing new is left out.
View(p) == [state |-> worker[Here(p)].state, read |-> Len(worker[Here(p)].out)]

Observe(p) ==
    /\ \/ At(p, "control") /\ View(p).state # "absent"
       \/ At(p, "decide") /\ View(p) # [state |-> coord[p].seen, read |-> coord[p].read]
    /\ coord' = [coord EXCEPT ![p].pc = "decide", ![p].seen = View(p).state, ![p].read = View(p).read]
    /\ UNCHANGED <<store, flock, worker, report, troubles>>

\* Output read now that came after the message was sent.
Answered(p) ==
    \E k \in (Mark(Log(p)) + 1)..coord[p].read : worker[Here(p)].out[k] = NextMsg(Log(p))

Over(p) == Terminal(Log(p)) \/ NextMsg(Log(p)) > NumEvents

\* Fault: a message asked for and not known to be sent is sent again.
MayDeliverAgain(p) ==
    /\ ~Over(p) /\ ~Sent(Log(p))
    /\ NextMsg(Log(p)) \in AfterExit => coord[p].seen \in Gone

MayDeliver(p) ==
    /\ ~Over(p) /\ ~Asked(Log(p))
    /\ NextMsg(Log(p)) \in AfterExit => coord[p].seen \in Gone

\* A message waits for its answer until its own time is over or the worker is.
Acknowledge(p) ==
    /\ At(p, "decide") /\ ~Over(p) /\ Sent(Log(p)) /\ Answered(p)
    /\ LogThen(p, EvMsg("delivery_acknowledged", NextMsg(Log(p))), "controlling", "deadline")
    /\ UNCHANGED <<store, flock, worker, report, troubles>>

GiveUp(p) ==
    LET i == NextMsg(Log(p)) IN
    /\ At(p, "decide") /\ ~Over(p) /\ Sent(Log(p)) /\ ~Answered(p)
    /\ LogThen(p, EvMsg(CASE OnTimeout[i] = "fail" -> "controller_failed"
                          [] OnTimeout[i] = "stop" -> "controller_stopped"
                          [] OnTimeout[i] = "skip" -> "script_event_skipped", i),
               CASE OnTimeout[i] = "fail" -> "failed"
                 [] OnTimeout[i] = "stop" -> "stopping"
                 [] OnTimeout[i] = "skip" -> "controlling",
               IF OnTimeout[i] = "skip" THEN "deadline" ELSE "collect")
    /\ UNCHANGED <<store, flock, worker, report, troubles>>

\* A message that may or may not have been sent is never sent again.
FailUnknown(p) ==
    /\ At(p, "decide") /\ ~Over(p) /\ ~Sent(Log(p)) /\ ~MayDeliver(p) /\ Asked(Log(p))
    /\ LogThen(p, EvMsg("controller_failed", NextMsg(Log(p))), "failed", "collect")
    /\ UNCHANGED <<store, flock, worker, report, troubles>>

Deliver(p) ==
    LET i == NextMsg(Log(p)) IN
    /\ At(p, "decide") /\ MayDeliver(p)
    /\ IF Count(Log(p), {"delivery_requested"}) >= MaxInterventions
       THEN Go(p, "error")
       ELSE LogThen(p, EvMsg("delivery_requested", i), "delivering", "send")
    /\ UNCHANGED <<store, flock, worker, report, troubles>>

\* Nothing to do: the answer or the worker's end is awaited.
Waiting(p) ==
    \/ Over(p) /\ coord[p].seen \notin Gone
    \/ ~Over(p) /\ Sent(Log(p)) /\ ~Answered(p) /\ coord[p].seen \notin Gone
    \/ ~Over(p) /\ ~Asked(Log(p)) /\ ~MayDeliver(p)

Complete(p) ==
    /\ At(p, "decide") /\ Over(p) /\ coord[p].seen \in Gone
    /\ Go(p, "collect")
    /\ UNCHANGED <<store, flock, worker, report, troubles>>

Send(p) ==
    LET r == Here(p)
        i == NextMsg(Log(p))
    IN /\ At(p, "send") /\ worker[r].state = "running"
       /\ worker' = [worker EXCEPT ![r].got = Append(@, i)]
       /\ LogThen(p, [EvMsg("delivery_sent", i) EXCEPT !.mark = coord[p].read], "awaiting_ack", "deadline")
       /\ UNCHANGED <<store, flock, report, troubles>>

\* The pane is dead or gone, or tmux fails before or after it typed.
SendFails(p) ==
    LET r == Here(p)
        i == NextMsg(Log(p))
        dead == worker[r].state \in Gone
    IN /\ At(p, "send") /\ (dead \/ troubles < MaxTroubles)
       /\ worker' \in {worker, IF dead THEN worker ELSE [worker EXCEPT ![r].got = Append(@, i)]}
       /\ troubles' = IF dead THEN troubles ELSE troubles + 1
       /\ LogThen(p, EvMsg("controller_failed", i), "failed", "error")
       /\ UNCHANGED <<store, flock, report>>

GoOn(p) ==
    /\ At(p, "deadline")
    /\ coord' = [coord EXCEPT ![p].pc = "control", ![p].seen = "absent", ![p].read = 0]
    /\ UNCHANGED <<store, flock, worker, report, troubles>>

\* Fault: a run that waits for its worker's end does not look at the time.
TimeIsUpBetween(p) ==
    /\ At(p, "deadline") \/ (At(p, "decide") /\ Waiting(p) /\ ~Over(p))
    /\ LogThen(p, Ev("wall_timeout"), "stopping", "collect")
    /\ UNCHANGED <<store, flock, worker, report, troubles>>

\* The wall time of the run is over, counted from its first coordinator's start.
TimeIsUp(p) ==
    /\ At(p, "deadline") \/ (At(p, "decide") /\ Waiting(p))
    /\ LogThen(p, Ev("wall_timeout"), "stopping", "collect")
    /\ UNCHANGED <<store, flock, worker, report, troubles>>

-----------------------------------------------------------------------------
(* The end of a run: its worker is stopped, its evidence is written.        *)

\* Fault: a worker is asked to stop and left alone.
StopAsked(w) == IF w.state = "running" THEN [w EXCEPT !.state = "stopping"] ELSE w

\* What stopping does to a worker: nothing to one that has ended.
StopWorker(w) == IF w.state = "running" THEN [w EXCEPT !.state = "stopped"] ELSE w

Collect(p) ==
    LET r == Here(p) IN
    /\ At(p, "collect")
    /\ worker' = [worker EXCEPT ![r] = StopWorker(@)]
    /\ coord' = [coord EXCEPT ![p].pc = "evidence", ![p].step = 1,
                              ![p].seen = StopWorker(worker[r]).state]
    /\ UNCHANGED <<store, flock, report, troubles>>

\* Fault: evidence that cannot be had is passed over.
WriteEvidenceLossy(p) ==
    LET item == Plan[coord[p].step]
    IN /\ At(p, "evidence") /\ coord[p].step <= Len(Plan)
       /\ \/ /\ IsFile(item)
             /\ coord' = [coord EXCEPT ![p].step = @ + 1]
             /\ UNCHANGED store
          \/ /\ store' = IF IsFile(item) THEN [store EXCEPT ![Here(p)].files = @ \cup {item.of}] ELSE store
             /\ coord' = [coord EXCEPT ![p] =
                    [Appending(coord[p], item, "collecting", "evidence") EXCEPT !.step = @ + 1]]
       /\ UNCHANGED <<flock, worker, report, troubles>>

\* A file that is there already is an error.
WriteEvidence(p) ==
    LET r == Here(p)
        item == Plan[coord[p].step]
    IN /\ At(p, "evidence") /\ coord[p].step <= Len(Plan)
       /\ IF IsFile(item) /\ item.of \in store[r].files
            THEN Go(p, "error") /\ UNCHANGED store
            ELSE /\ store' = IF IsFile(item) THEN [store EXCEPT ![r].files = @ \cup {item.of}] ELSE store
                 /\ coord' = [coord EXCEPT ![p] =
                        [Appending(coord[p], item, "collecting", "evidence") EXCEPT !.step = @ + 1]]
       /\ UNCHANGED <<flock, worker, report, troubles>>

FinishRun(p) ==
    /\ At(p, "evidence") /\ coord[p].step > Len(Plan)
    /\ coord' = [coord EXCEPT ![p] =
           [Appending(@, Ev("run_finished"),
                      IF coord[p].seen = "completed" /\ NextMsg(Log(p)) = NumEvents + 1
                      THEN "completed" ELSE "failed", "leave") EXCEPT !.exit = "next"]]
    /\ UNCHANGED <<store, flock, worker, report, troubles>>

RecordError(p) ==
    /\ At(p, "error")
    /\ LogThen(p, Ev("run_error"), "failed", "leave")
    /\ UNCHANGED <<store, flock, worker, report, troubles>>

\* The finally clauses: stop the worker, let go of the run, remove what is private.
\* Fault: the worker is not stopped.
LeaveUnstopped(p) ==
    LET r == Here(p) IN
    /\ At(p, "leave")
    /\ flock' = [flock EXCEPT ![r].writer = Nobody]
    /\ store' = IF coord[p].fresh \/ coord[p].mine THEN [store EXCEPT ![r].private = "none"] ELSE store
    /\ coord' = [coord EXCEPT ![p] =
           IF @.exit = "next" THEN [Idle EXCEPT !.pc = "look", !.at = coord[p].at + 1]
           ELSE IF @.exit = "halt" THEN [Idle EXCEPT !.pc = "halt"] ELSE Done]
    /\ UNCHANGED <<worker, report, troubles>>

Leave(p) ==
    LET r == Here(p) IN
    /\ At(p, "leave")
    /\ worker' = IF coord[p].mine THEN [worker EXCEPT ![r] = StopWorker(@)] ELSE worker
    /\ flock' = [flock EXCEPT ![r].writer = Nobody]
    /\ store' = IF coord[p].fresh \/ coord[p].mine THEN [store EXCEPT ![r].private = "none"] ELSE store
    /\ coord' = [coord EXCEPT ![p] =
           IF @.exit = "next" THEN [Idle EXCEPT !.pc = "look", !.at = coord[p].at + 1]
           ELSE IF @.exit = "halt" THEN [Idle EXCEPT !.pc = "halt"] ELSE Done]
    /\ UNCHANGED <<report, troubles>>

-----------------------------------------------------------------------------
(* What goes wrong, and the worker.                                         *)

Trouble == troubles < MaxTroubles /\ troubles' = troubles + 1

\* Any exception of a step that talks to git, tmux or the disk.
Fail(p) ==
    /\ coord[p].pc \in {"recover", "prepare", "variant", "control", "collect", "evidence"}
    /\ Trouble
    /\ Go(p, "error")
    /\ UNCHANGED <<store, flock, worker, report>>

\* There is no such worker to ask.
NotThere(p) ==
    /\ At(p, "control") /\ worker[Here(p)].state = "absent"
    /\ Go(p, "error")
    /\ UNCHANGED <<store, flock, worker, report, troubles>>

\* pb-tmux-agent start ends without a word, its agent started or not.
HalfStarted(r) ==
    /\ store' = [store EXCEPT ![r].private = "ready"]
    /\ worker' \in {worker, [worker EXCEPT ![r].state = "running", ![r].loose = TRUE]}

StartFails(p) ==
    /\ At(p, "start") /\ Trouble
    /\ HalfStarted(Here(p))
    /\ Go(p, "error")
    /\ UNCHANGED <<flock, report>>

Inside == {"append", "snapshot", "recover", "prepare", "variant", "start", "started", "control",
           "decide", "send", "deadline", "collect", "evidence", "gate", "error"}

\* What is left of a run that is let go of in the middle of a step.
Loosened(p, kept) ==
    LET r == Here(p) IN
    IF At(p, "start") THEN HalfStarted(r)
    ELSE /\ worker' = IF kept THEN worker ELSE [worker EXCEPT ![r].loose = TRUE]
         /\ \E torn \in IF At(p, "append") /\ ~kept THEN BOOLEAN ELSE {store[r].torn} :
                store' = [store EXCEPT ![r].torn = torn]

\* Ctrl-C skips the error handler, not the finally clauses.
Interrupt(p) ==
    /\ coord[p].pc \in Inside /\ Trouble
    /\ Loosened(p, ~At(p, "started"))
    /\ coord' = [coord EXCEPT ![p].pc = "leave", ![p].exit = "gone"]
    /\ UNCHANGED <<flock, report>>

\* A kill lets go of the locks and of nothing else; it may tear a line.
Kill(p) ==
    LET inRun == coord[p].pc \in Inside \cup {"leave"} IN
    /\ coord[p].pc \notin {"idle", "look", "report", "halt", "done"} /\ Trouble
    /\ flock' = [flock EXCEPT ![Here(p)] = [writer |-> IF @.writer = p THEN Nobody ELSE @.writer,
                                            readers |-> @.readers \ {p}]]
    /\ Loosened(p, ~inRun)
    /\ coord' = [coord EXCEPT ![p] = Done]
    /\ UNCHANGED report

\* A worker prints what the acknowledgment pattern of the message at hand
\* matches; of no account before the first message and after the last.
Prints(r) ==
    /\ worker[r].state = "running" /\ Len(worker[r].out) < MaxPrints
    /\ Count(store[r].log, {"delivery_requested"}) > 0
    /\ Count(store[r].log, Settling) < NumEvents /\ Count(store[r].log, Ending \cup Collected) = 0
    /\ worker' = [worker EXCEPT ![r].out = Append(@, NextMsg(store[r].log))]
    /\ UNCHANGED <<store, flock, coord, report, troubles>>

EndWorker(r) ==
    /\ worker[r].state = "running"
    /\ \E how \in {"completed", "failed", "lost"} : worker' = [worker EXCEPT ![r].state = how]
    /\ UNCHANGED <<store, flock, coord, report, troubles>>

-----------------------------------------------------------------------------
Step(p) ==
    \/ AppendEvent(p) \/ WriteSnapshot(p) \/ Look(p) \/ OpenReader(p) \/ ReadRun(p)
    \/ Reopen(p) \/ Gate(p) \/ Halt(p) \/ WriteReport(p)
    \/ MakeRun(p) \/ MakeLock(p) \/ TakeLock(p) \/ WriteRecovery(p) \/ PrepareCase(p)
    \/ PrepareVariant(p) \/ StartWorker(p) \/ RecordStart(p)
    \/ Observe(p) \/ Acknowledge(p) \/ GiveUp(p) \/ FailUnknown(p) \/ Deliver(p) \/ Complete(p)
    \/ Send(p) \/ SendFails(p) \/ GoOn(p) \/ TimeIsUp(p)
    \/ Collect(p) \/ WriteEvidence(p) \/ FinishRun(p) \/ RecordError(p) \/ Leave(p) \/ NotThere(p)

Next ==
    \/ \E p \in Coord : Execute(p) \/ Step(p) \/ Fail(p) \/ StartFails(p) \/ Interrupt(p) \/ Kill(p)
    \/ \E r \in Run : Prints(r) \/ EndWorker(r)

Spec == Init /\ [][Next]_vars

\* A coordinator goes on, and it is late in the end; nothing else is promised.
FairSpec ==
    /\ Spec
    /\ \A p \in Coord : WF_vars(Step(p))

-----------------------------------------------------------------------------
TypeOK ==
    /\ store \in [Run -> [made : BOOLEAN, lockfile : BOOLEAN, torn : BOOLEAN,
                          log : Seq(Event), snap : [at : Nat, state : State], files : SUBSET Evidence,
                          private : {"none", "made", "ready"}]]
    /\ flock \in [Run -> [writer : Coord \cup {Nobody}, readers : SUBSET Coord]]
    /\ worker \in [Run -> [state : Gone \cup {"absent", "running"}, got : Seq(1..NumEvents),
                           out : Seq(1..NumEvents), loose : BOOLEAN]]
    /\ report \in BOOLEAN

Promise == INSTANCE ScriptDelivery WITH
    typed <- [r \in Run |-> worker[r].got],
    settled <- [r \in Run |-> Count(store[r].log, Settling)],
    closed <- {r \in Run : Finished(store[r].log) > 0},
    reported <- report

\* However coordinators are killed, interrupted, rerun or overlap, a worker is
\* typed each message of the script at most once, in order and after the one
\* before was settled, and no run gets messages after its end ("reconnects
\* without repeating a recorded send", arena/README.md).
AtMostOnce == Promise!Spec

\* A reported campaign rests on runs that each finished once, without an error
\* and with every artifact the frozen plan asks for recorded in the log and on
\* disk; nothing an execution does later, one that takes a run for unfinished
\* included, changes that (campaign.py:203).
ReportHasEvidence ==
    report => \A r \in Run :
        /\ Finished(store[r].log) = 1
        /\ store[r].files = Evidence /\ Recorded(store[r].log) = Evidence
        /\ ErrorsAfterEnd(store[r].log)

\* A worker runs only for a coordinator at work on its run, unless one was
\* killed, interrupted while tmux started it, or told that it had not started.
NoOrphanWorker ==
    \A r \in Run : worker[r].state = "running" /\ ~worker[r].loose =>
        \E p \in Coord : flock[r].writer = p /\ coord[p].at <= Len(Assignments) /\ Here(p) = r

\* Whatever the worker does, an execution of the campaign comes to an end.
ExecutionEnds == \A p \in Coord : coord[p].pc # "idle" ~> coord[p].pc = "done"
=============================================================================
