----------------------------- MODULE LaneStore -----------------------------
(***************************************************************************)
(* The durable records behind managed lanes (provider/session_state.py).   *)
(*                                                                         *)
(*   lane[b]       the lane record of tmux body b; state "absent" before   *)
(*                 the record exists                                       *)
(*   plan[b][g]    what generation g of b was asked to run: its provider,  *)
(*                 and the conversation it resumes (NoKey for a new one)   *)
(*   launch[b][g]  the single-use launch capability of that generation     *)
(*   record[k]     the session.json of native conversation k               *)
(*                                                                         *)
(* Every operator below is one critical section of the sessions-root lock  *)
(* (or of one record's lock), so one atomic step.  A capability is named   *)
(* by its body and generation: a generation is taken by compare-and-swap   *)
(* and reserves at most once, which is what a fresh random token gives.    *)
(***************************************************************************)
EXTENDS Naturals, FiniteSets

CONSTANTS Body, Key, Provider,
          ProviderOf,   \* the provider a native conversation belongs to
          NoKey, NoProvider, NoBody,
          MaxGen        \* bound on the generations of one lane

ASSUME KeyAssumption ==
    /\ ProviderOf \in [Key -> Provider]
    /\ NoKey \notin Key
    /\ NoProvider \notin Provider
    /\ NoBody \notin Body

ASSUME GenAssumption == MaxGen \in Nat

VARIABLES lane, plan, launch, record

storeVars == <<lane, plan, launch, record>>

Gen == 1 .. MaxGen

\* Foreground jobs of a lane's shell: the shell itself, the agent started as
\* generation g, or a job a person started by hand.
ShellJob == 0
UserJob  == MaxGen + 1
Job      == 0 .. MaxGen + 1

Idle     == {"shell_idle", "provider_exited"}
Starting == {"launch_reserved", "relaunching"}
Admitted == Starting \cup {"provider_running"}
LaneState == {"absent", "provisional", "destroyed"} \cup Idle \cup Admitted

LaneRecord == [state : LaneState, gen : 0 .. MaxGen, prov : Provider \cup {NoProvider},
               fg : Job, key : Key \cup {NoKey}]
Plan       == [prov : Provider \cup {NoProvider}, want : Key \cup {NoKey}]
Launch     == [st : {"none", "reserved", "claimed"}, by : Key \cup {NoKey}]
Record     == [state : {"none", "stopped", "running", "destroyed"},
               body : Body \cup {NoBody}, lost : BOOLEAN]

NoLane   == [state |-> "absent", gen |-> 0, prov |-> NoProvider, fg |-> 0, key |-> NoKey]
NoPlan   == [prov |-> NoProvider, want |-> NoKey]
NoLaunch == [st |-> "none", by |-> NoKey]

StoreTypeOK ==
    /\ lane \in [Body -> LaneRecord]
    /\ plan \in [Body -> [Gen -> Plan]]
    /\ launch \in [Body -> [Gen -> Launch]]
    /\ record \in [Key -> Record]

\* A conversation exists either not at all or as an adopted one: managed,
\* stopped, never yet in a lane.
StoreInit ==
    /\ lane = [b \in Body |-> NoLane]
    /\ plan = [b \in Body |-> [g \in Gen |-> NoPlan]]
    /\ launch = [b \in Body |-> [g \in Gen |-> NoLaunch]]
    /\ record \in [Key -> {[state |-> s, body |-> NoBody, lost |-> FALSE] :
                             s \in {"none", "stopped"}}]

----------------------------------------------------------------------------
(* Lanes *)

\* create_managed_lane
CreateLane(b) ==
    /\ lane[b].state = "absent"
    /\ lane' = [lane EXCEPT ![b].state = "provisional"]

\* transition_managed_lane: whatever is not passed is cleared.
Transition(b, old, st, prov, key) ==
    /\ lane[b].state = old
    /\ lane' = [lane EXCEPT ![b] = [state |-> st, gen |-> @.gen, prov |-> prov,
                                    fg |-> ShellJob, key |-> key]]

\* transition_managed_lane with expected_generation, fields from a snapshot.
Same(b, snap) == lane[b].state = snap.state /\ lane[b].gen = snap.gen

\* _lane_exited: keeps the snapshot's conversation.
LaneExited(b, snap, st) ==
    /\ Same(b, snap)
    /\ Transition(b, snap.state, st, snap.prov, snap.key)

\* Faults: a relaunch keeps the generation, or the last conversation.
AdvanceFirstOnly(b, prov) ==
    lane' = [lane EXCEPT ![b] =
               [state |-> IF @.gen = 0 THEN "launch_reserved" ELSE "relaunching",
                gen |-> IF @.gen = 0 THEN 1 ELSE @.gen, prov |-> prov, fg |-> ShellJob,
                key |-> NoKey]]

AdvanceKeepsKey(b, prov) ==
    lane' = [lane EXCEPT ![b] =
               [state |-> IF @.gen = 0 THEN "launch_reserved" ELSE "relaunching",
                gen |-> @.gen + 1, prov |-> prov, fg |-> ShellJob, key |-> @.key]]

\* transition_managed_lane(advance_generation=True)
Advance(b, prov) ==
    lane' = [lane EXCEPT ![b] =
               [state |-> IF @.gen = 0 THEN "launch_reserved" ELSE "relaunching",
                gen |-> @.gen + 1, prov |-> prov, fg |-> ShellJob, key |-> NoKey]]

\* Faults: record_lane_foreground compares only the state, or only the generation.
CurrentAnyGen(b, g)   == lane[b].state \in Admitted
CurrentAnyState(b, g) == lane[b].gen = g

\* record_lane_foreground
Current(b, g) == lane[b].gen = g /\ lane[b].state \in Admitted
RecordForeground(b, g, job) ==
    /\ Current(b, g)
    /\ lane' = [lane EXCEPT ![b].state = "provider_running", ![b].fg = job]

----------------------------------------------------------------------------
(* Launch capabilities *)

\* _revoke_unclaimed_launches_locked
Revoked(b) ==
    [launch EXCEPT ![b] = [g \in Gen |-> IF @[g].st = "reserved" THEN NoLaunch ELSE @[g]]]

\* assert_no_active_managed_resume, over the capabilities l
ResumePending(l, k) ==
    \E b \in Body, g \in Gen : l[b][g].st # "none" /\ plan[b][g].want = k

\* Fault: a reservation does not look for another resume of its conversation.
ReservableAgain(b, g) ==
    LET k == plan[b][g].want IN k = NoKey \/ record[k].state = "stopped"

\* reserve_managed_launch: revokes the body's unclaimed capabilities even
\* when it then refuses.
Reservable(b, g) ==
    LET k == plan[b][g].want IN
        k = NoKey \/ (record[k].state = "stopped" /\ ~ResumePending(Revoked(b), k))
Reserve(b, g) ==
    launch' = IF Reservable(b, g)
              THEN [Revoked(b) EXCEPT ![b][g] = [st |-> "reserved", by |-> NoKey]]
              ELSE Revoked(b)

\* cancel_managed_launch(body_stopped=False)
CancelLaunch(b, g) ==
    launch' = IF launch[b][g].st = "reserved"
              THEN [launch EXCEPT ![b][g] = NoLaunch] ELSE launch

\* An expired capability is unlinked by whichever reservation, bind or
\* lifecycle check meets it first; until then nothing else honours it.
DropLaunch(b, g) ==
    /\ launch[b][g].st # "none"
    /\ launch' = [launch EXCEPT ![b][g] = NoLaunch]

----------------------------------------------------------------------------
(* Binding: a provider's hook presents the capability of (b, g) for k *)

\* _finalize_lane_binding_locked: no look at the lane's generation.
Bindable(b, k) ==
    /\ lane[b].state \in Admitted
    /\ lane[b].prov = ProviderOf[k]
    /\ lane[b].key \in {NoKey, k}
Finalize(b, k) == [lane EXCEPT ![b].state = "provider_running", ![b].key = k]

\* The hook fires for a conversation its body already runs.
Refires(b, k) == record[k].state = "running" /\ record[k].body = b

\* Fault: a hook that meets a claimed capability leaves it to the claimer.
RebindUnclaimed(b, g, k, unlinked) ==
    /\ Refires(b, k)
    /\ Bindable(b, k)
    /\ launch[b][g].st = "none" /\ lane[b].key # k
    /\ lane' = Finalize(b, k)
    /\ UNCHANGED <<launch, record>>

\* bind_managed_launch, first branch.
Rebind(b, g, k, unlinked) ==
    /\ Refires(b, k)
    /\ Bindable(b, k)
    /\ \/ launch[b][g].st = "claimed" /\ launch[b][g].by = k
       \/ launch[b][g].st = "none" /\ lane[b].key # k
    /\ lane' = Finalize(b, k)
    /\ launch' = IF unlinked THEN [launch EXCEPT ![b][g] = NoLaunch] ELSE launch
    /\ UNCHANGED record

\* bind_managed_launch, second branch: what the capability admits.
Claimable(b, g, k) ==
    /\ ~Refires(b, k)
    /\ launch[b][g].st # "none"
    /\ plan[b][g].prov = ProviderOf[k]
    /\ launch[b][g].st = "claimed" => launch[b][g].by = k
    /\ IF plan[b][g].want = NoKey
       THEN record[k].state = "none"
       ELSE plan[b][g].want = k /\ record[k].state = "stopped"

\* The four writes of a claim, in order; a hook may be killed between any
\* two, and the lane refuses the third unless Bindable.
Writes == 1 .. 4
Claim(b, g, k, n) ==
    /\ Claimable(b, g, k)
    /\ n > 2 => Bindable(b, k)
    /\ launch' = [launch EXCEPT ![b][g] =
                    IF n = 4 THEN NoLaunch ELSE [st |-> "claimed", by |-> k]]
    /\ record' = IF n = 1 THEN record
                 ELSE [record EXCEPT ![k] = [state |-> "running", body |-> b, lost |-> FALSE]]
    /\ lane' = IF n < 3 THEN lane ELSE Finalize(b, k)

----------------------------------------------------------------------------
(* Session records *)

\* Fault: the record is given the lane's word for it.
StopRecordExited(k, b, lost) ==
    record' = IF k # NoKey /\ record[k].state = "running" /\ record[k].body = b
              THEN [record EXCEPT ![k].state = "provider_exited"] ELSE record

\* ensure_session_record(expected={"state": "running", "body_id": b})
StopRecord(k, b, lost) ==
    record' = IF k # NoKey /\ record[k].state = "running" /\ record[k].body = b
              THEN [record EXCEPT ![k] = [state |-> "stopped", body |-> b, lost |-> lost]]
              ELSE record

\* destroy_session, native-key branch
DestroyRecord(k) ==
    /\ record[k].state = "stopped"
    /\ ~ResumePending(launch, k)
    /\ record' = [record EXCEPT ![k].state = "destroyed"]
============================================================================
