----------------------------- MODULE CodexLoop -----------------------------
(***************************************************************************)
(* pb-codex loop (scripts/codex-loop.py) on one Codex thread: commands     *)
(* that start a reminder loop and replace the ones there are, the          *)
(* background worker of each loop, and a command that stops one.  Every    *)
(* start makes one loop of its own, so Loop names the starts as well.      *)
(*                                                                         *)
(*   state[l]   the status in the loop's state file, or "none"             *)
(*   stops      loops whose .stop file exists                              *)
(*   start[l]   where the command that starts l is                         *)
(*   listed[l]  the running loops it has read and not replaced yet         *)
(*   worker[l]  where the worker of l is                                   *)
(*   stopping   the loop a stop command has found running, or NoLoop       *)
(*   stopped    loops a person asked to stop                               *)
(*   window     the Codex window: open, closed, or closed with its process *)
(*              number taken by another process                            *)
(***************************************************************************)
EXTENDS Naturals

CONSTANTS Loop, NoLoop, MaxLosses

ASSUME LoopAssumption == NoLoop \notin Loop /\ MaxLosses \in Nat

VARIABLES state, stops, start, listed, worker, stopping, stopped, window, losses

loopVars == <<state, stops, start, listed, worker, stopping, stopped, window, losses>>

Working == {"born", "check", "waiting", "sending"}

LoopTypeOK ==
    /\ state \in [Loop -> {"none", "starting", "running", "stopped"}]
    /\ stops \subseteq Loop /\ stopped \subseteq Loop
    /\ start \in [Loop -> {"idle", "replace", "write", "spawn", "watch", "ok", "failed", "killed"}]
    /\ listed \in [Loop -> SUBSET Loop]
    /\ worker \in [Loop -> Working \cup {"none", "unlink", "ended", "killed"}]
    /\ stopping \in Loop \cup {NoLoop}
    /\ window \in {"open", "closed", "reused"}
    /\ losses \in 0 .. MaxLosses

LoopInit ==
    /\ state = [l \in Loop |-> "none"] /\ stops = {} /\ stopped = {}
    /\ start = [l \in Loop |-> "idle"] /\ listed = [l \in Loop |-> {}]
    /\ worker = [l \in Loop |-> "none"]
    /\ stopping = NoLoop /\ window = "open" /\ losses = 0

---------------------------------------------------------------------------
(* start                                                                   *)

StartAt(l, from, to) == start[l] = from /\ start' = [start EXCEPT ![l] = to]

\* running_loops: every state file that does not say stopped.
ListRunning(l) ==
    /\ StartAt(l, "idle", "replace")
    /\ window = "open"
    /\ listed' = [listed EXCEPT ![l] = {m \in Loop : state[m] \in {"starting", "running"}}]
    /\ UNCHANGED <<state, stops, worker, stopping, stopped, window, losses>>

ReplaceOne(l) ==
    /\ start[l] = "replace"
    /\ \E m \in listed[l] :
         /\ stops' = stops \cup {m}
         /\ listed' = [listed EXCEPT ![l] = @ \ {m}]
    /\ UNCHANGED <<state, start, worker, stopping, stopped, window, losses>>

WriteState(l) ==
    /\ StartAt(l, "replace", "spawn") /\ listed[l] = {}
    /\ state' = [state EXCEPT ![l] = "starting"]
    /\ UNCHANGED <<stops, listed, worker, stopping, stopped, window, losses>>

SpawnWorker(l) ==
    /\ StartAt(l, "spawn", "watch")
    /\ worker' = [worker EXCEPT ![l] = "born"]
    /\ UNCHANGED <<state, stops, listed, stopping, stopped, window, losses>>

SeeRunning(l) ==
    /\ StartAt(l, "watch", "ok") /\ state[l] # "starting"
    /\ UNCHANGED <<state, stops, listed, worker, stopping, stopped, window, losses>>

\* Three seconds without a sign of the worker: it is told to stop.
WatchTimesOut(l) ==
    /\ StartAt(l, "watch", "failed") /\ state[l] = "starting"
    /\ stops' = stops \cup {l}
    /\ UNCHANGED <<state, listed, worker, stopping, stopped, window, losses>>

---------------------------------------------------------------------------
(* worker and wait_until                                                   *)

WorkerAt(l, from, to) == worker[l] = from /\ worker' = [worker EXCEPT ![l] = to]

Begin(l) ==
    /\ WorkerAt(l, "born", "check")
    /\ state' = [state EXCEPT ![l] = "running"]
    /\ UNCHANGED <<stops, start, listed, stopping, stopped, window, losses>>

\* Fault: the stop file is looked for by thread, not by loop.
StopSeenByThread(l) == stops # {}

StopSeen(l) == l \in stops

\* Fault: only the process number is looked at.
OwnerGoneByNumber(l) == window = "closed"

\* owners_alive; whether the number still names the same process is read at
\* the first look of every wait and each ten seconds.
OwnerGone(l) == window # "open"

\* A wait begins: stop file first, then the owner, with its start time.
Look(l) ==
    /\ WorkerAt(l, "check", "waiting")
    /\ ~StopSeen(l) /\ ~OwnerGone(l)
    /\ UNCHANGED <<state, stops, start, listed, stopping, stopped, window, losses>>

\* The interval is over, and the last look found no reason to stop.
Due(l) ==
    /\ WorkerAt(l, "waiting", "sending")
    /\ ~StopSeen(l) /\ window # "closed"
    /\ UNCHANGED <<state, stops, start, listed, stopping, stopped, window, losses>>

\* codex queue has answered, failed or run out of its 30 seconds.
Sent(l) ==
    /\ WorkerAt(l, "sending", "check")
    /\ UNCHANGED <<state, stops, start, listed, stopping, stopped, window, losses>>

Finish(l) ==
    /\ \E at \in {"check", "waiting"} : WorkerAt(l, at, "unlink")
    /\ StopSeen(l) \/ OwnerGone(l)
    /\ state' = [state EXCEPT ![l] = "stopped"]
    /\ UNCHANGED <<stops, start, listed, stopping, stopped, window, losses>>

Unlink(l) ==
    /\ WorkerAt(l, "unlink", "ended")
    /\ stops' = stops \ {l}
    /\ UNCHANGED <<state, start, listed, stopping, stopped, window, losses>>

---------------------------------------------------------------------------
(* stop_loop                                                               *)

FindLoop(l) ==
    /\ stopping = NoLoop /\ state[l] \in {"starting", "running"}
    /\ stopping' = l
    /\ UNCHANGED <<state, stops, start, listed, worker, stopped, window, losses>>

TouchStop(l) ==
    /\ stopping = l
    /\ stopping' = NoLoop /\ stops' = stops \cup {l} /\ stopped' = stopped \cup {l}
    /\ UNCHANGED <<state, start, listed, worker, window, losses>>

---------------------------------------------------------------------------
(* The window and losses                                                   *)

CloseWindow ==
    /\ window = "open" /\ window' = "closed"
    /\ UNCHANGED <<state, stops, start, listed, worker, stopping, stopped, losses>>

ReuseNumber ==
    /\ window = "closed" /\ window' = "reused"
    /\ UNCHANGED <<state, stops, start, listed, worker, stopping, stopped, losses>>

Loss == losses < MaxLosses /\ losses' = losses + 1

\* The worker cannot be spawned: its state file goes, the replaced ones stay.
SpawnFails(l) ==
    /\ Loss /\ StartAt(l, "spawn", "failed")
    /\ state' = [state EXCEPT ![l] = "none"]
    /\ UNCHANGED <<stops, listed, worker, stopping, stopped, window>>

StartKilled(l) ==
    /\ Loss /\ \E at \in {"replace", "spawn", "watch"} : StartAt(l, at, "killed")
    /\ UNCHANGED <<state, stops, listed, worker, stopping, stopped, window>>

WorkerKilled(l) ==
    /\ Loss /\ \E at \in Working \cup {"unlink"} : WorkerAt(l, at, "killed")
    /\ UNCHANGED <<state, stops, start, listed, stopping, stopped, window>>

WorkerStep(l) == Begin(l) \/ Look(l) \/ Due(l) \/ Sent(l) \/ Finish(l) \/ Unlink(l)

LoopNext ==
    \/ \E l \in Loop :
         \/ ListRunning(l) \/ ReplaceOne(l) \/ WriteState(l) \/ SpawnWorker(l) \/ SeeRunning(l)
         \/ WatchTimesOut(l) \/ WorkerStep(l) \/ FindLoop(l) \/ TouchStop(l)
         \/ SpawnFails(l) \/ StartKilled(l) \/ WorkerKilled(l)
    \/ CloseWindow \/ ReuseNumber

\* A worker is a process of its own; its waits and its sends are bounded.
LoopFairness == \A l \in Loop : WF_loopVars(WorkerStep(l))

LoopSpec == LoopInit /\ [][LoopNext]_loopVars /\ LoopFairness

---------------------------------------------------------------------------

Remind(l) == worker[l] \in Working /\ l \notin stops

\* Once every start has answered, the thread still has a loop that nobody has
\* told to stop, however the starts overlapped: they replace each other's
\* loops, but never all of them.  It is a promise as long as the window is
\* open and nothing was killed, failed or stopped by a person.
ReminderSurvives ==
    /\ \A l \in Loop : start[l] \in {"idle", "ok"}
    /\ \E l \in Loop : start[l] = "ok"
    /\ window = "open" /\ losses = 0 /\ stopped = {}
    => \E l \in Loop : Remind(l)

\* A worker ends once its loop is told to stop or the Codex window is gone,
\* also when the window's process number names another process by then.
LoopEnds ==
    \A l \in Loop : (l \in stops \/ window # "open") ~> worker[l] \in {"none", "ended", "killed"}
=============================================================================
