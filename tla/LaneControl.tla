---------------------------- MODULE LaneControl ----------------------------
(***************************************************************************)
(* The pb-session commands that drive managed lanes (session_cli.py), run  *)
(* by concurrent controllers over LaneStore and LaneShell.  Each command   *)
(* takes the store's lock once per step, so other controllers, provider    *)
(* hooks, people and dying tmux bodies move between its steps.             *)
(*                                                                         *)
(*   ctl[c]   what controller c is doing: pc, the lane it works on (b),    *)
(*            the lane record it last read (snap), the conversation a      *)
(*            resume names (key), a flag (the launcher ran, or the body    *)
(*            died) and the step to go to next (ret)                       *)
(*   crashes  controllers killed mid-command, at most MaxCrashes           *)
(*                                                                         *)
(* Every command first settles its lane, the same way: which command it is *)
(* is decided where commands first differ, in AfterSettle, SettleRecord    *)
(* and Killed.                                                             *)
(***************************************************************************)
EXTENDS LaneShell

CONSTANTS Controller,
          Jobs,         \* the commands controllers run, besides status
          MaxCrashes,
          Stalls,       \* a live dispatch may be stale for 60 s (a suspended host)
          Expiry        \* an agent may take longer than a capability's 600 s to bind

ASSUME ControlAssumption ==
    /\ Jobs \subseteq {"start", "swap", "stop", "destroy", "resume"}
    /\ MaxCrashes \in Nat
    /\ Stalls \in BOOLEAN /\ Expiry \in BOOLEAN

VARIABLES ctl, crashes

vars == <<lane, plan, launch, record, body, fore, typed, script, akey, userJobs,
          ctl, crashes>>

Dispatching == {"reserve", "write", "type", "await", "publish"}
Undoing     == {"undoScript", "undoLaunch", "undoLane"}
Recovering  == {"recUnlink", "recLook", "recRevoke", "recFinish"}
Step == Dispatching \cup Undoing \cup Recovering
          \cup {"ready", "observe", "reread", "look", "mark", "settled", "settleRecord",
                "kill", "killed", "dispatch", "create", "boot", "open", "abort",
                "abortLane", "close", "closed"}

Control == [pc : Step, b : Body \cup {NoBody},
            snap : LaneRecord, key : Key \cup {NoKey}, flag : BOOLEAN,
            ret : {"ready", "settled", "dispatch"}]

Ready == [pc |-> "ready", b |-> NoBody, snap |-> NoLane, key |-> NoKey,
          flag |-> FALSE, ret |-> "ready"]

TypeOK ==
    /\ StoreTypeOK
    /\ ShellTypeOK
    /\ ctl \in [Controller -> Control]
    /\ crashes \in 0 .. MaxCrashes

Init == StoreInit /\ ShellInit /\ ctl = [c \in Controller |-> Ready] /\ crashes = 0

At(c, pc) == ctl[c].pc = pc

\* Controller c goes to step pc; Finish ends its command.
Goto(c, pc)     == ctl' = [ctl EXCEPT ![c].pc = pc]
Finish(c)       == ctl' = [ctl EXCEPT ![c] = Ready]
\* A dispatch starts from the lane and the conversation alone.
GoDispatch(c)   == ctl' = [ctl EXCEPT ![c] = [Ready EXCEPT !.pc = "dispatch",
                                                !.b = ctl[c].b, !.key = ctl[c].key]]
GoCreate(c)     == ctl' = [ctl EXCEPT ![c] = [Ready EXCEPT !.pc = "create",
                                                !.key = ctl[c].key]]
Return(c)       == CASE ctl[c].ret = "ready"    -> Finish(c)
                     [] ctl[c].ret = "dispatch" -> GoDispatch(c)
                     [] ctl[c].ret = "settled"  ->
                          ctl' = [ctl EXCEPT ![c].pc = "settled", ![c].flag = FALSE]
\* Go to step pc holding the record of lane b as it is after this step.
GotoWith(c, pc, snap) == ctl' = [ctl EXCEPT ![c].pc = pc, ![c].snap = snap]

----------------------------------------------------------------------------
(* Commands *)

\* start, swap, stop, destroy, resume and status, on a lane found by its name
\* or body ID; only resume looks for one among the destroyed lanes too.
Command(c, b) ==
    /\ At(c, "ready")
    /\ lane[b].state # "absent"
    /\ lane[b].state = "destroyed" => "resume" \in Jobs
    /\ ctl' = [ctl EXCEPT ![c] = [Ready EXCEPT !.pc = "observe", !.b = b,
                                               !.snap = lane[b], !.ret = "settled"]]
    /\ UNCHANGED <<storeVars, shellVars, crashes>>

\* start under a name no lane holds
StartNew(c) ==
    /\ At(c, "ready") /\ "start" \in Jobs
    /\ Goto(c, "create")
    /\ UNCHANGED <<storeVars, shellVars, crashes>>

\* resume_session, addressed by the conversation: settle the lane it last ran
\* in, if there is one.  restore_all resumes each lost conversation this way.
\* Addressed by a lane it is a Command.
Resume(c, k) ==
    /\ At(c, "ready")
    /\ "resume" \in Jobs
    /\ record[k].state \in {"stopped", "running"}
    /\ LET b == record[k].body IN
       ctl' = [ctl EXCEPT ![c] =
                 [Ready EXCEPT !.pc = IF b = NoBody THEN "settleRecord" ELSE "observe",
                               !.b = b, !.key = k,
                               !.snap = IF b = NoBody THEN NoLane ELSE lane[b],
                               !.ret = "settled"]]
    /\ UNCHANGED <<storeVars, shellVars, crashes>>

----------------------------------------------------------------------------
(* settle_lane *)

\* Some controller is between its compare-and-swap and its publication of
\* generation g of b.
InDispatch(b, g) == \E c \in Controller : ctl[c].pc \in Dispatching \cup Undoing
                                           /\ ctl[c].b = b /\ ctl[c].snap.gen = g

\* Faults: a dispatch is abandoned at once, or only after it was bound.
AbandonedAtOnce(b, snap) ==
    snap.state \in Starting \/ (snap.state = "provider_running" /\ snap.fg = ShellJob)
AbandonedBound(b, snap) ==
    /\ snap.state = "provider_running" /\ snap.fg = ShellJob
    /\ Stalls \/ ~InDispatch(b, snap.gen)

\* _dispatch_abandoned: 60 seconds without an update.
Abandoned(b, snap) ==
    /\ \/ snap.state \in Starting
       \/ snap.state = "provider_running" /\ snap.fg = ShellJob
    /\ Stalls \/ ~InDispatch(b, snap.gen)

\* The body ended: the lane is destroyed, keeping the snapshot's conversation.
ObserveDead(c) ==
    LET b == ctl[c].b IN
    /\ At(c, "observe")
    /\ Ended(b) /\ ctl[c].snap.state # "destroyed"
    /\ \/ /\ LaneExited(b, ctl[c].snap, "destroyed")
          /\ ctl' = [ctl EXCEPT ![c].pc = "mark", ![c].snap = lane'[b], ![c].flag = TRUE]
       \/ /\ ~Same(b, ctl[c].snap)
          /\ GotoWith(c, "settled", lane[b])
          /\ UNCHANGED lane
    /\ UNCHANGED <<plan, launch, record, shellVars, crashes>>

\* A live body: recover an abandoned dispatch, or look at a running agent.
ObserveAlive(c) ==
    LET b == ctl[c].b
        s == ctl[c].snap IN
    /\ At(c, "observe")
    /\ body[b] = "up" /\ s.state # "destroyed"
    /\ \/ Abandoned(b, s) /\ Goto(c, "recUnlink")
       \/ /\ ~Abandoned(b, s)
          /\ Goto(c, IF s.state = "provider_running" THEN "reread" ELSE "settled")
    /\ UNCHANGED <<storeVars, shellVars, crashes>>

\* No body to observe yet, or a lane already destroyed: nothing changes.
ObserveNothing(c) ==
    /\ At(c, "observe")
    /\ body[ctl[c].b] = "none" \/ ctl[c].snap.state = "destroyed"
    /\ Goto(c, "settled")
    /\ UNCHANGED <<storeVars, shellVars, crashes>>

\* reconcile_lane_runtime reads the lane again ...
Reread(c) ==
    LET s == lane[ctl[c].b] IN
    /\ At(c, "reread")
    /\ GotoWith(c, CASE s.state = "provider_running" -> "look"
                     [] s.state = "provider_exited"  -> "mark"
                     [] OTHER                        -> "settled", s)
    /\ UNCHANGED <<storeVars, shellVars, crashes>>

\* ... then at the foreground: the shell has it only when the agent is gone.
Look(c) ==
    LET b == ctl[c].b IN
    /\ At(c, "look")
    /\ \/ /\ body[b] = "up" /\ fore[b] = ShellJob
          /\ LaneExited(b, ctl[c].snap, "provider_exited")
          /\ GotoWith(c, "mark", lane'[b])
       \/ /\ \/ body[b] # "up" \/ fore[b] # ShellJob
             \/ ~Same(b, ctl[c].snap)
          /\ GotoWith(c, "settled", IF Same(b, ctl[c].snap) THEN ctl[c].snap ELSE lane[b])
          /\ UNCHANGED lane
    /\ UNCHANGED <<plan, launch, record, shellVars, crashes>>

\* _mark_lane_session_stopped
Mark(c) ==
    /\ At(c, "mark")
    /\ StopRecord(ctl[c].snap.key, ctl[c].b, ctl[c].flag)
    /\ Return(c)
    /\ UNCHANGED <<lane, plan, launch, shellVars, crashes>>

----------------------------------------------------------------------------
(* recover_lane_dispatch *)

\* Fault: recovery looks for the launcher and leaves it there.
RecoverStat(c) ==
    LET ran == ctl[c].snap.gen \notin script[ctl[c].b] IN
    /\ At(c, "recUnlink")
    /\ ctl' = [ctl EXCEPT ![c].pc = IF ran THEN "recLook" ELSE "recRevoke", ![c].flag = ran]
    /\ UNCHANGED <<storeVars, shellVars, crashes>>

\* Removing the launcher decides whether it ran.
RecoverUnlink(c) ==
    LET b == ctl[c].b
        g == ctl[c].snap.gen
        ran == g \notin script[b] IN
    /\ At(c, "recUnlink")
    /\ UnlinkScript(b, g)
    /\ ctl' = [ctl EXCEPT ![c].pc = IF ran THEN "recLook" ELSE "recRevoke", ![c].flag = ran]
    /\ UNCHANGED <<storeVars, crashes>>

\* It ran: whatever holds the foreground is taken for its agent.
RecoverLook(c) ==
    LET b == ctl[c].b
        g == ctl[c].snap.gen IN
    /\ At(c, "recLook")
    /\ \/ /\ body[b] = "up" /\ fore[b] # ShellJob
          /\ \/ /\ RecordForeground(b, g, fore[b])
                /\ IF ctl[c].ret = "ready" THEN Finish(c)
                   ELSE ctl' = [ctl EXCEPT ![c].pc = "settled", ![c].snap = lane'[b],
                                           ![c].flag = FALSE]
             \/ /\ ~Current(b, g)
                /\ Finish(c)
                /\ UNCHANGED lane
       \/ body[b] = "up" /\ fore[b] = ShellJob /\ Goto(c, "recRevoke") /\ UNCHANGED lane
       \/ body[b] # "up" /\ Return(c) /\ UNCHANGED lane
    /\ UNCHANGED <<plan, launch, record, shellVars, crashes>>

RecoverRevoke(c) ==
    /\ At(c, "recRevoke")
    /\ launch' = Revoked(ctl[c].b)
    /\ Goto(c, "recFinish")
    /\ UNCHANGED <<lane, plan, record, shellVars, crashes>>

\* The generation is over, unless another controller already moved the lane;
\* one that moves it between this read and this write fails the write, and
\* the lane is read again.
RecoverFinish(c) ==
    LET b == ctl[c].b
        g == ctl[c].snap.gen
        done(s) == IF ctl[c].ret = "ready" THEN Finish(c)
                   ELSE ctl' = [ctl EXCEPT ![c].pc = "settled", ![c].snap = s,
                                           ![c].flag = FALSE] IN
    /\ At(c, "recFinish")
    /\ \/ /\ ~Current(b, g)
          /\ done(lane[b]) /\ UNCHANGED lane
       \/ /\ Current(b, g) /\ ~ctl[c].flag
          /\ Transition(b, lane[b].state, "shell_idle", NoProvider, NoKey)
          /\ done(lane'[b])
       \/ /\ Current(b, g) /\ ctl[c].flag
          /\ LaneExited(b, lane[b], "provider_exited")
          /\ ctl' = [ctl EXCEPT ![c].pc = "mark", ![c].snap = lane'[b], ![c].flag = FALSE]
    /\ UNCHANGED <<plan, launch, record, shellVars, crashes>>

----------------------------------------------------------------------------
(* What each command does with its settled lane *)

HasAgent(s) == s.state = "provider_running" /\ s.fg # ShellJob

Runs(job) == job \in Jobs

AfterSettle(c) ==
    LET s == ctl[c].snap IN
    /\ At(c, "settled")
    /\ IF ctl[c].key # NoKey THEN Goto(c, "settleRecord")
       ELSE \/ HasAgent(s) /\ (Runs("stop") \/ Runs("swap")) /\ Goto(c, "kill")
            \/ s.state \in Idle /\ (Runs("start") \/ Runs("swap")) /\ GoDispatch(c)
            \/ s.state = "destroyed" /\ Runs("start") /\ GoCreate(c)
            \/ s.state \in Idle /\ Runs("destroy") /\ Goto(c, "close")
            \/ /\ s.key # NoKey /\ Runs("resume")      \* the lane's own conversation
               /\ ctl' = [ctl EXCEPT ![c].pc = "settleRecord", ![c].key = s.key]
            \/ Finish(c)       \* status, or a command the lane's state refuses
    /\ UNCHANGED <<storeVars, shellVars, crashes>>

\* Fault: a lane that still names the conversation counts as running it.
SettleRecordByKey(c) ==
    LET k == ctl[c].key
        s == ctl[c].snap
        gone == IF ctl[c].b = NoBody THEN record[k].body # NoBody /\ Ended(record[k].body)
                ELSE s.key # k IN
    /\ At(c, "settleRecord")
    /\ IF record[k].state = "running" /\ gone
       THEN StopRecord(k, record[k].body, s.state = "destroyed")
       ELSE UNCHANGED record
    /\ IF record'[k].state # "stopped" THEN Finish(c)
       ELSE IF s.state \in Idle THEN GoDispatch(c) ELSE GoCreate(c)
    /\ UNCHANGED <<lane, plan, launch, shellVars, crashes>>

\* _settle_record on the record as it is now and the lane as it was settled
\* (without a lane, on the tmux body the record names by now), then the choice
\* of the lane to resume in.
SettleRecord(c) ==
    LET k == ctl[c].key
        s == ctl[c].snap
        gone == IF ctl[c].b = NoBody THEN record[k].body # NoBody /\ Ended(record[k].body)
                ELSE s.state # "provider_running" \/ s.key # k IN
    /\ At(c, "settleRecord")
    /\ IF record[k].state = "running" /\ gone
       THEN StopRecord(k, record[k].body, s.state = "destroyed")
       ELSE UNCHANGED record
    /\ IF record'[k].state # "stopped" THEN Finish(c)
       ELSE IF s.state \in Idle THEN GoDispatch(c) ELSE GoCreate(c)
    /\ UNCHANGED <<lane, plan, launch, shellVars, crashes>>

----------------------------------------------------------------------------
(* stop_lane_provider *)

\* Fault: whatever holds the foreground is stopped.
KillForeground(c) ==
    LET b == ctl[c].b IN
    /\ At(c, "kill")
    /\ IF body[b] = "up" /\ fore[b] # ShellJob
       THEN EndJob(b) /\ Goto(c, "killed")
       ELSE Finish(c) /\ UNCHANGED shellVars
    /\ UNCHANGED <<storeVars, crashes>>

\* stop_foreground_job refuses any other job than the admitted one.
Kill(c) ==
    LET b == ctl[c].b IN
    /\ At(c, "kill")
    /\ IF body[b] = "up" /\ fore[b] = ctl[c].snap.fg
       THEN EndJob(b) /\ Goto(c, "killed")
       ELSE Finish(c) /\ UNCHANGED shellVars
    /\ UNCHANGED <<storeVars, crashes>>

Killed(c) ==
    LET b == ctl[c].b IN
    /\ At(c, "killed")
    /\ IF Same(b, ctl[c].snap)
       THEN /\ LaneExited(b, ctl[c].snap, "provider_exited")
            /\ \E job \in Jobs \cap {"stop", "swap"} :
                 ctl' = [ctl EXCEPT ![c].pc = "mark", ![c].snap = lane'[b],
                                    ![c].ret = IF job = "swap" THEN "dispatch" ELSE "ready"]
       ELSE Finish(c) /\ UNCHANGED lane
    /\ UNCHANGED <<plan, launch, record, shellVars, crashes>>

----------------------------------------------------------------------------
(* destroy_session, lane branch *)

Close(c) ==
    /\ At(c, "close")
    /\ EndBody(ctl[c].b, "closed")
    /\ Goto(c, "closed")
    /\ UNCHANGED <<storeVars, crashes>>

Closed(c) ==
    LET b == ctl[c].b IN
    /\ At(c, "closed")
    /\ IF Same(b, ctl[c].snap)
       THEN LaneExited(b, ctl[c].snap, "destroyed") ELSE UNCHANGED lane
    /\ Finish(c)
    /\ UNCHANGED <<plan, launch, record, shellVars, crashes>>

DestroyConversation(k) ==
    /\ "destroy" \in Jobs
    /\ DestroyRecord(k)
    /\ UNCHANGED <<lane, plan, launch, shellVars, ctl, crashes>>

----------------------------------------------------------------------------
(* create_managed_lane_body *)

Create(c) ==
    /\ At(c, "create")
    /\ \/ \E b \in Body :
            /\ CreateLane(b)
            /\ ctl' = [ctl EXCEPT ![c].pc = "boot", ![c].b = b, ![c].snap = lane'[b]]
       \/ /\ \A b \in Body : lane[b].state # "absent"    \* bound: no body left
          /\ Finish(c) /\ UNCHANGED lane
    /\ UNCHANGED <<plan, launch, record, shellVars, crashes>>

Boot(c) ==
    /\ At(c, "boot")
    /\ \/ BootBody(ctl[c].b) /\ Goto(c, "open")
       \/ UNCHANGED shellVars /\ Goto(c, "abort")
    /\ UNCHANGED <<storeVars, crashes>>

\* Nobody else moves a provisional lane whose body lives.
Open(c) ==
    LET b == ctl[c].b IN
    /\ At(c, "open")
    /\ IF lane[b].state = "provisional"
       THEN /\ Transition(b, "provisional", "shell_idle", NoProvider, NoKey)
            /\ GoDispatch(c)
       ELSE Goto(c, "abort") /\ UNCHANGED lane
    /\ UNCHANGED <<plan, launch, record, shellVars, crashes>>

Abort(c) ==
    /\ At(c, "abort")
    /\ EndBody(ctl[c].b, "closed")
    /\ Goto(c, "abortLane")
    /\ UNCHANGED <<storeVars, crashes>>

AbortLane(c) ==
    LET b == ctl[c].b IN
    /\ At(c, "abortLane")
    /\ IF lane[b].state = ctl[c].snap.state
       THEN Transition(b, ctl[c].snap.state, "destroyed", NoProvider, NoKey)
       ELSE UNCHANGED lane
    /\ Finish(c)
    /\ UNCHANGED <<plan, launch, record, shellVars, crashes>>

----------------------------------------------------------------------------
(* dispatch_provider_generation *)

\* Take the next generation of an idle lane.  Resolving the lane and the
\* compare-and-swap are one step: a move in between fails the swap, or
\* leaves a record that takes the same step.
Dispatch(c) ==
    LET b == ctl[c].b
        k == ctl[c].key IN
    /\ At(c, "dispatch")
    /\ \/ /\ lane[b].state \in Idle /\ lane[b].gen < MaxGen
          /\ \E p \in Provider :
               /\ k # NoKey => p = ProviderOf[k]
               /\ Advance(b, p)
               /\ plan' = [plan EXCEPT ![b][lane[b].gen + 1] = [prov |-> p, want |-> k]]
          /\ ctl' = [ctl EXCEPT ![c] = [Ready EXCEPT !.pc = "reserve", !.b = b,
                                                     !.snap = lane'[b]]]
       \/ /\ lane[b].state \notin Idle \/ lane[b].gen = MaxGen   \* bound: generations
          /\ Finish(c) /\ UNCHANGED <<lane, plan>>
    /\ UNCHANGED <<launch, record, shellVars, crashes>>

\* Refused, or no executable for the provider: nothing has been typed.
ReserveLaunch(c) ==
    LET b == ctl[c].b
        g == ctl[c].snap.gen IN
    /\ At(c, "reserve")
    /\ Reserve(b, g)
    /\ Goto(c, IF Reservable(b, g) THEN "write" ELSE "undoScript")
    /\ UNCHANGED <<lane, plan, record, shellVars, crashes>>

Write(c) ==
    LET b == ctl[c].b
        g == ctl[c].snap.gen IN
    /\ At(c, "write")
    /\ \/ WriteScript(b, g) /\ Goto(c, "type")
       \/ UNCHANGED shellVars /\ Goto(c, "undoScript")
    /\ UNCHANGED <<storeVars, crashes>>

\* send_shell_command: a busy shell is refused before anything is typed; a
\* dead body fails after the attempt.
Type(c) ==
    LET b == ctl[c].b
        g == ctl[c].snap.gen IN
    /\ At(c, "type")
    /\ \/ body[b] = "up" /\ fore[b] = ShellJob /\ TypeLine(b, g) /\ Goto(c, "await")
       \/ body[b] = "up" /\ fore[b] # ShellJob /\ UNCHANGED shellVars /\ Goto(c, "undoScript")
       \/ body[b] # "up" /\ UNCHANGED shellVars /\ Goto(c, "recUnlink")
    /\ UNCHANGED <<storeVars, crashes>>

\* The first job seen in the foreground is taken for the agent; the wait
\* gives up after five seconds.
Await(c) ==
    LET b == ctl[c].b IN
    /\ At(c, "await")
    /\ \/ /\ body[b] = "up" /\ fore[b] # ShellJob
          /\ ctl' = [ctl EXCEPT ![c].pc = "publish", ![c].snap.fg = fore[b]]
       \/ (body[b] # "up" \/ fore[b] = ShellJob) /\ Goto(c, "recUnlink")
    /\ UNCHANGED <<storeVars, shellVars, crashes>>

Publish(c) ==
    LET b == ctl[c].b
        g == ctl[c].snap.gen IN
    /\ At(c, "publish")
    /\ \/ RecordForeground(b, g, ctl[c].snap.fg) /\ Finish(c)
       \/ ~Current(b, g) /\ Goto(c, "recUnlink") /\ UNCHANGED lane
    /\ UNCHANGED <<plan, launch, record, shellVars, crashes>>

\* The cleanup of a dispatch that typed nothing.  The last step compares the
\* lane's state and not its generation.
UndoScript(c) ==
    /\ At(c, "undoScript")
    /\ UnlinkScript(ctl[c].b, ctl[c].snap.gen)
    /\ Goto(c, "undoLaunch")
    /\ UNCHANGED <<storeVars, crashes>>

UndoLaunch(c) ==
    /\ At(c, "undoLaunch")
    /\ CancelLaunch(ctl[c].b, ctl[c].snap.gen)
    /\ Goto(c, "undoLane")
    /\ UNCHANGED <<lane, plan, record, shellVars, crashes>>

UndoLane(c) ==
    LET b == ctl[c].b IN
    /\ At(c, "undoLane")
    /\ IF lane[b].state = ctl[c].snap.state
       THEN Transition(b, ctl[c].snap.state, "shell_idle", NoProvider, NoKey)
       ELSE UNCHANGED lane
    /\ Finish(c)
    /\ UNCHANGED <<plan, launch, record, shellVars, crashes>>

----------------------------------------------------------------------------
(* Hooks, time, crashes and the world *)

\* Any hook of a live agent presents its capability; the hook process may be
\* killed after any of its writes.
HookClaim(b, g) ==
    /\ AgentUp(b, g)
    /\ \E n \in Writes : Claim(b, g, akey[b][g], n)
    /\ UNCHANGED <<plan, shellVars, ctl, crashes>>

HookRebind(b, g) ==
    /\ AgentUp(b, g)
    /\ \E unlinked \in BOOLEAN : Rebind(b, g, akey[b][g], unlinked)
    /\ UNCHANGED <<plan, shellVars, ctl, crashes>>

CapabilityExpires(b, g) ==
    /\ Expiry
    /\ Stalls \/ ~InDispatch(b, g)
    /\ DropLaunch(b, g)
    /\ UNCHANGED <<lane, plan, record, shellVars, ctl, crashes>>

Crash(c) ==
    /\ ctl[c].pc # "ready"
    /\ crashes < MaxCrashes
    /\ crashes' = crashes + 1
    /\ Finish(c)
    /\ UNCHANGED <<storeVars, shellVars>>

World(b) ==
    /\ \/ \E g \in Gen : RunLauncher(b, g) \/ LoseLine(b, g)
       \/ JobExits(b)
       \/ UserStartsJob(b)
       \/ BodyDies(b)
    /\ UNCHANGED <<storeVars, ctl, crashes>>

Settling(c) == \/ ObserveDead(c) \/ ObserveAlive(c) \/ ObserveNothing(c)
               \/ Reread(c) \/ Look(c) \/ Mark(c)
               \/ RecoverUnlink(c) \/ RecoverLook(c) \/ RecoverRevoke(c) \/ RecoverFinish(c)
               \/ AfterSettle(c) \/ SettleRecord(c)
Dispatchers(c) == \/ Dispatch(c) \/ ReserveLaunch(c) \/ Write(c) \/ Type(c)
                  \/ Await(c) \/ Publish(c)
                  \/ UndoScript(c) \/ UndoLaunch(c) \/ UndoLane(c)
Lifecycle(c) == \/ Kill(c) \/ Killed(c) \/ Close(c) \/ Closed(c)
                \/ Create(c) \/ Boot(c) \/ Open(c) \/ Abort(c) \/ AbortLane(c)

Continue(c) == Settling(c) \/ Dispatchers(c) \/ Lifecycle(c)

Next ==
    \/ \E c \in Controller :
         \/ \E b \in Body : Command(c, b)
         \/ StartNew(c)
         \/ \E k \in Key : Resume(c, k)
         \/ Continue(c)
         \/ Crash(c)
    \/ \E b \in Body, g \in Gen :
         HookClaim(b, g) \/ HookRebind(b, g) \/ CapabilityExpires(b, g)
    \/ \E b \in Body : World(b)
    \/ \E k \in Key : DestroyConversation(k)

Spec == Init /\ [][Next]_vars

----------------------------------------------------------------------------
(* Fairness: a command that is not killed goes on; somebody keeps looking  *)
(* at every lane (pb-session list, a monitor) and keeps restoring what no  *)
(* longer runs; a live agent keeps firing hooks, not all of them killed.   *)

Running(k) == \E b \in Body, g \in Gen : AgentUp(b, g) /\ akey[b][g] = k

Fairness ==
    /\ \A c \in Controller : WF_vars(Continue(c))
    /\ \A b \in Body : SF_vars(\E c \in Controller : Command(c, b))
    /\ \A k \in Key : SF_vars(~Running(k) /\ \E c \in Controller : Resume(c, k))
    /\ \A b \in Body, g \in Gen :
         /\ WF_vars(/\ AgentUp(b, g) /\ Claim(b, g, akey[b][g], 4)
                    /\ UNCHANGED <<plan, shellVars, ctl, crashes>>)
         /\ WF_vars(/\ AgentUp(b, g) /\ Rebind(b, g, akey[b][g], TRUE)
                    /\ UNCHANGED <<plan, shellVars, ctl, crashes>>)

FairSpec == Spec /\ Fairness

----------------------------------------------------------------------------
(* Safety *)

\* No two controllers ever dispatch the same generation of a lane, and none
\* dispatches one the lane has not reached: the compare-and-swap of
\* dispatch_provider_generation is the only way to a new generation.
GenerationOwned ==
    \A c \in Controller : ctl[c].pc \in Dispatching \cup Undoing =>
        /\ ctl[c].snap.gen <= lane[ctl[c].b].gen
        /\ \A d \in Controller \ {c} :
             ctl[d].pc \in Dispatching \cup Undoing /\ ctl[d].b = ctl[c].b
               => ctl[d].snap.gen # ctl[c].snap.gen

\* A lane recorded as idle has no agent of its own in its foreground, however
\* commands, crashes, recoveries and exits interleave (settle_lane,
\* recover_lane_dispatch): a lane offered for reuse is free.
IdleMeansNoAgent ==
    \A b \in Body : lane[b].state \in Idle => fore[b] \notin Gen

\* At most one outstanding capability can bring back a conversation, in
\* whatever lanes controllers try to resume it (reserve_managed_launch).
ResumeExclusive ==
    \A b, d \in Body, g, h \in Gen :
        (/\ launch[b][g].st # "none" /\ launch[d][h].st # "none"
         /\ plan[b][g].want # NoKey /\ plan[b][g].want = plan[d][h].want)
           => b = d /\ g = h

\* The conversation bound into a running generation is the one its own agent
\* opened: a capability an earlier generation never claimed does not bind
\* into a later one (reserve_managed_launch, session_state.py:596).
BoundByOwnAgent ==
    \A b \in Body : lane[b].state \in Admitted /\ lane[b].key # NoKey
        => akey[b][lane[b].gen] = lane[b].key

\* The foreground job recorded for a lane, which stop and send trust, is
\* never another generation's agent nor a person's job.
ForegroundIsOwn ==
    \A b \in Body : lane[b].fg \in {ShellJob, lane[b].gen}

----------------------------------------------------------------------------
(* Action properties *)

\* A lane's generation grows by one, out of an idle state; a destroyed lane
\* never comes back: no late controller or hook revives it.
LaneHistory ==
    [][\A b \in Body :
         /\ lane'[b].gen # lane[b].gen =>
              lane[b].state \in Idle /\ lane'[b].gen = lane[b].gen + 1
         /\ lane[b].state = "destroyed" => lane'[b] = lane[b]]_vars

\* The end of a generation keeps the conversation bound to it: `resume <lane>`
\* and `swap` read it (_lane_exited, session_cli.py:1347).
ExitKeepsConversation ==
    [][\A b \in Body :
         lane[b].state = "provider_running" /\ lane'[b].state = "provider_exited"
           => lane'[b].key = lane[b].key]_vars

\* stop_lane_provider ends only the agent of the generation it read
\* (session_cli.py:1465), never the job that replaced it.
StopsOnlyItsAgent ==
    [][\A c \in Controller : At(c, "kill") /\ ctl'[c].pc = "killed"
         => fore[ctl[c].b] = ctl[c].snap.gen]_vars

----------------------------------------------------------------------------
(* Liveness *)

\* A half-dispatched generation does not stay so: its controller finishes, or
\* settle_lane recovers it once it is stale.
StartingSettles ==
    \A b \in Body : lane[b].state \in Starting ~> lane[b].state \notin Starting

\* A bind cut short by a killed hook is finished by a later hook of the same
\* agent, unless the agent ends, or a resume settles its record or takes its
\* conversation to another lane first (bind_managed_launch, first branch).
BindConverges ==
    \A b \in Body, g \in Gen :
        AgentUp(b, g) /\ record[akey[b][g]] = [state |-> "running", body |-> b, lost |-> FALSE]
          ~> \/ ~AgentUp(b, g) \/ lane[b].key = akey[b][g]
             \/ record[akey[b][g]].state # "running" \/ record[akey[b][g]].body # b

\* A conversation whose agent is gone does not stay recorded as running.
RunningSettles ==
    \A k \in Key :
        record[k].state = "running" /\ ~Running(k)
          ~> record[k].state # "running" \/ Running(k)
============================================================================
