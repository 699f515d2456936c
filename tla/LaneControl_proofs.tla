------------------------ MODULE LaneControl_proofs ------------------------
(***************************************************************************)
(* Proofs about LaneControl for any number of lanes, conversations,        *)
(* controllers and generations. The first theorems leave every environment *)
(* flag open and need no timing assumption; the last four assume Calm: no  *)
(* command is stalled past its lease, and nobody types into a lane's shell.*)
(***************************************************************************)
EXTENDS LaneControl, TLAPS

Fenced == Dispatching \cup Undoing

\* A lane is admitted only in a generation.
Reached(s) == s.state \in Admitted => s.gen \in Gen
LaneGen == \A b \in Body : Reached(lane[b])

\* What a controller in state r knows about the lane it read.
PcOK(r) ==
    /\ Reached(r.snap)
    /\ r.pc \notin {"ready", "create", "settleRecord"} => r.b \in Body
    /\ r.pc = "settleRecord" => r.key \in Key
    /\ r.pc = "settleRecord" /\ r.snap.state \in Idle => r.b \in Body
    /\ r.pc \in {"look", "kill", "killed"} => r.snap.state = "provider_running"
    /\ r.pc \in {"close", "closed"} => r.snap.state \in Idle
    /\ r.pc \in {"boot", "open", "abort", "abortLane"} => r.snap.state = "provisional"
    /\ r.pc \in Fenced => r.snap.state \in Starting
    /\ r.pc \in Recovering => r.snap.state \in Admitted
    /\ r.ret = "dispatch" => r.b \in Body

PcInv == \A c \in Controller : PcOK(ctl[c])

\* Capabilities exist only for generations the lane has reached.
LaunchPast == \A b \in Body, g \in Gen : launch[b][g].st # "none" => g <= lane[b].gen

\* An agent in the foreground has opened a conversation.
AgentKeyed == \A b \in Body : fore[b] \in Gen => akey[b][fore[b]] \in Key
ShellGood  == ShellTypeOK /\ AgentKeyed

IInv == TypeOK /\ AgentKeyed /\ PcInv /\ LaneGen /\ GenerationOwned /\ LaunchPast /\ ResumeExclusive

----------------------------------------------------------------------------
(* Steps that take no generation and create no capability *)

\* The lane part: every lane stays in its generation, a destroyed one as it is.
LaneQuiet == \A b \in Body :
    /\ lane'[b].gen = lane[b].gen
    /\ lane[b].state = "destroyed" => lane'[b] = lane[b]

LaunchQuiet == \A b \in Body, g \in Gen :
    launch'[b][g].st # "none" => launch[b][g].st # "none"

\* Nobody becomes the dispatcher of a generation.
CtlQuiet == \A c \in Controller : ctl'[c].pc \in Fenced =>
    /\ ctl[c].pc \in Fenced
    /\ ctl'[c].b = ctl[c].b
    /\ ctl'[c].snap.gen = ctl[c].snap.gen

Quiet == LaneQuiet /\ LaunchQuiet /\ CtlQuiet /\ plan' = plan

LaneOK == lane' \in [Body -> LaneRecord] /\ LaneGen' /\ LaneQuiet
CtlOK  == ctl' \in [Controller -> Control] /\ PcInv' /\ CtlQuiet
Good   == TypeOK' /\ AgentKeyed' /\ PcInv' /\ LaneGen' /\ Quiet

----------------------------------------------------------------------------
(* The writes of the lane store *)

LEMMA CreateLaneOK ==
    ASSUME lane \in [Body -> LaneRecord], LaneGen, NEW b \in Body, CreateLane(b)
    PROVE  /\ LaneOK
           /\ lane'[b] \in LaneRecord
           /\ lane'[b].state = "provisional"
  BY DEF CreateLane, LaneOK, LaneGen, Reached, LaneQuiet, LaneRecord, LaneState,
         Admitted, Starting

\* Leaving a generation, or ending a lane.
LEMMA TransitionOK ==
    ASSUME lane \in [Body -> LaneRecord], LaneGen, NEW b \in Body,
           NEW old \in LaneState \ {"destroyed"}, NEW st \in LaneState \ Admitted,
           NEW p \in Provider \cup {NoProvider}, NEW k \in Key \cup {NoKey},
           Transition(b, old, st, p, k)
    PROVE  /\ LaneOK
           /\ lane'[b] \in LaneRecord
           /\ lane'[b].state = st
  BY GenAssumption DEF Transition, LaneOK, LaneGen, Reached, LaneQuiet, LaneRecord,
         LaneState, Job, ShellJob, Gen

LEMMA LaneExitedOK ==
    ASSUME lane \in [Body -> LaneRecord], LaneGen, NEW b \in Body,
           NEW snap \in LaneRecord, snap.state # "destroyed",
           NEW st \in LaneState \ Admitted,
           LaneExited(b, snap, st)
    PROVE  /\ LaneOK
           /\ lane'[b] \in LaneRecord
           /\ lane'[b].state = st
  <1>1. /\ snap.state \in LaneState \ {"destroyed"}
        /\ snap.prov \in Provider \cup {NoProvider}
        /\ snap.key \in Key \cup {NoKey}
        /\ Transition(b, snap.state, st, snap.prov, snap.key)
    BY DEF LaneRecord, LaneExited
  <1> QED BY <1>1, TransitionOK

LEMMA RecordForegroundOK ==
    ASSUME lane \in [Body -> LaneRecord], LaneGen, NEW b \in Body,
           NEW g, NEW job \in Job, RecordForeground(b, g, job)
    PROVE  /\ LaneOK
           /\ lane'[b] \in LaneRecord
  BY ZenonT(30) DEF RecordForeground, Current, LaneOK, LaneGen, Reached, LaneQuiet, LaneRecord,
         LaneState, Admitted, Starting

LEMMA FinalizeOK ==
    ASSUME lane \in [Body -> LaneRecord], LaneGen, NEW b \in Body, NEW k \in Key,
           Bindable(b, k), lane' = Finalize(b, k)
    PROVE  LaneOK
  <1> DEFINE r == [lane[b] EXCEPT !.state = "provider_running", !.key = k]
  <1>1. lane' = [lane EXCEPT ![b] = r]
    BY DEF Finalize
  <1>2. lane[b] \in LaneRecord /\ lane[b].state \in Admitted
    BY DEF Bindable
  <1>3. /\ r \in LaneRecord
        /\ r.gen = lane[b].gen
        /\ Reached(r)
        /\ lane[b].state # "destroyed"
    BY <1>2 DEF LaneGen, Reached, LaneRecord, LaneState, Admitted, Starting
  <1> HIDE DEF r
  <1> QED
    BY <1>1, <1>3 DEF LaneOK, LaneGen, LaneQuiet, Reached

LEMMA LaneSame ==
    ASSUME lane \in [Body -> LaneRecord], LaneGen, UNCHANGED lane
    PROVE  LaneOK
  BY DEF LaneOK, LaneGen, Reached, LaneQuiet

----------------------------------------------------------------------------
(* The moves of a controller *)

LEMMA CtlMove ==
    ASSUME TypeOK, PcInv, NEW c \in Controller, NEW r \in Control,
           ctl' = [ctl EXCEPT ![c] = r], PcOK(r),
           r.pc \in Fenced => /\ ctl[c].pc \in Fenced
                              /\ r.b = ctl[c].b
                              /\ r.snap.gen = ctl[c].snap.gen
    PROVE  CtlOK
  BY DEF TypeOK, PcInv, CtlOK, CtlQuiet

LEMMA CtlSame ==
    ASSUME TypeOK, PcInv, UNCHANGED ctl
    PROVE  CtlOK
  BY DEF TypeOK, PcInv, PcOK, Reached, CtlOK, CtlQuiet

LEMMA FinishOK ==
    ASSUME TypeOK, PcInv, NEW c \in Controller, Finish(c)
    PROVE  CtlOK
  <1>1. Ready \in Control
    BY GenAssumption DEF Ready, Control, Step, NoLane, LaneRecord, LaneState, Job, ShellJob
  <1>2. PcOK(Ready) /\ Ready.pc \notin Fenced
    BY DEF Ready, PcOK, Reached, NoLane, Admitted, Starting, Fenced, Dispatching, Undoing,
           Recovering, Idle
  <1> QED BY <1>1, <1>2, CtlMove DEF Finish

LEMMA GotoOK ==
    ASSUME TypeOK, PcInv, NEW c \in Controller, NEW pc \in Step, Goto(c, pc),
           PcOK([ctl[c] EXCEPT !.pc = pc]),
           pc \in Fenced => ctl[c].pc \in Fenced
    PROVE  CtlOK
  <1> DEFINE r == [ctl[c] EXCEPT !.pc = pc]
  <1>1. r \in Control /\ r.pc = pc /\ r.b = ctl[c].b /\ r.snap = ctl[c].snap
    BY DEF TypeOK, Control
  <1>2. ctl' = [ctl EXCEPT ![c] = r]
    BY DEF TypeOK, Goto
  <1> QED BY <1>1, <1>2, CtlMove

LEMMA GotoWithOK ==
    ASSUME TypeOK, PcInv, NEW c \in Controller, NEW pc \in Step \ Fenced,
           NEW s \in LaneRecord, GotoWith(c, pc, s),
           PcOK([ctl[c] EXCEPT !.pc = pc, !.snap = s])
    PROVE  CtlOK
  <1> DEFINE r == [ctl[c] EXCEPT !.pc = pc, !.snap = s]
  <1>1. r \in Control /\ r.pc = pc
    BY DEF TypeOK, Control
  <1>2. ctl' = [ctl EXCEPT ![c] = r]
    BY DEF TypeOK, GotoWith
  <1> HIDE DEF r
  <1>3. PcOK(r) BY DEF r
  <1> QED BY <1>1, <1>2, <1>3, CtlMove

\* A command turns to a new step with nothing but a lane and a conversation.
AtDispatch(b, k) == [Ready EXCEPT !.pc = "dispatch", !.b = b, !.key = k]
AtCreate(k)      == [Ready EXCEPT !.pc = "create", !.key = k]

LEMMA AnewOK ==
    ASSUME NEW k \in Key \cup {NoKey}
    PROVE  /\ \A b \in Body : /\ AtDispatch(b, k) \in Control
                             /\ PcOK(AtDispatch(b, k))
                             /\ AtDispatch(b, k).pc \notin Fenced
           /\ AtCreate(k) \in Control
           /\ PcOK(AtCreate(k))
           /\ AtCreate(k).pc \notin Fenced
  <1>1. Ready \in Control /\ Reached(Ready.snap) /\ Ready.ret = "ready"
    BY GenAssumption DEF Ready, Control, Step, NoLane, LaneRecord, LaneState, Job, ShellJob,
                         Reached, Admitted, Starting
  <1>2. ASSUME NEW b \in Body
        PROVE  /\ AtDispatch(b, k) \in Control
               /\ PcOK(AtDispatch(b, k))
               /\ AtDispatch(b, k).pc \notin Fenced
    <2>1. /\ AtDispatch(b, k) \in Control
          /\ AtDispatch(b, k).pc = "dispatch"
          /\ AtDispatch(b, k).b = b
          /\ AtDispatch(b, k).snap = Ready.snap
      BY <1>1 DEF AtDispatch, Control, Step
    <2> QED
      BY <1>1, <2>1 DEF PcOK, Fenced, Dispatching, Undoing, Recovering
  <1>3. /\ AtCreate(k) \in Control
        /\ AtCreate(k).pc = "create"
        /\ AtCreate(k).ret = "ready"
        /\ AtCreate(k).snap = Ready.snap
    BY <1>1 DEF AtCreate, Control, Step
  <1>4. PcOK(AtCreate(k)) /\ AtCreate(k).pc \notin Fenced
    BY <1>1, <1>3 DEF PcOK, Fenced, Dispatching, Undoing, Recovering
  <1> QED BY <1>2, <1>3, <1>4

LEMMA GoDispatchOK ==
    ASSUME TypeOK, PcInv, NEW c \in Controller, GoDispatch(c), ctl[c].b \in Body
    PROVE  CtlOK
  <1>1. ctl[c].key \in Key \cup {NoKey}
    BY DEF TypeOK, Control
  <1>2. ctl' = [ctl EXCEPT ![c] = AtDispatch(ctl[c].b, ctl[c].key)]
    BY DEF GoDispatch, AtDispatch
  <1> QED BY <1>1, <1>2, AnewOK, CtlMove

LEMMA GoCreateOK ==
    ASSUME TypeOK, PcInv, NEW c \in Controller, GoCreate(c)
    PROVE  CtlOK
  <1>1. ctl[c].key \in Key \cup {NoKey}
    BY DEF TypeOK, Control
  <1>2. ctl' = [ctl EXCEPT ![c] = AtCreate(ctl[c].key)]
    BY DEF GoCreate, AtCreate
  <1> QED BY <1>1, <1>2, AnewOK, CtlMove

\* ret is where a controller goes when its lane is settled.
LEMMA ReturnOK ==
    ASSUME TypeOK, PcInv, NEW c \in Controller, ctl[c].b \in Body, Return(c)
    PROVE  CtlOK
  <1> DEFINE r == [ctl[c] EXCEPT !.pc = "settled", !.flag = FALSE]
  <1>0. ctl[c] \in Control
    BY DEF TypeOK
  <1>1. CASE ctl[c].ret = "ready"
    BY <1>1, FinishOK DEF Return
  <1>2. CASE ctl[c].ret = "dispatch"
    BY <1>2, GoDispatchOK DEF Return
  <1>3. CASE ctl[c].ret = "settled"
    <2>1. ctl' = [ctl EXCEPT ![c] = r]
      <3>1. ctl' = [ctl EXCEPT ![c].pc = "settled", ![c].flag = FALSE]
        BY <1>3 DEF Return
      <3> QED BY <3>1
    <2>2. /\ r \in Control
          /\ r.pc = "settled" /\ r.snap = ctl[c].snap /\ r.b = ctl[c].b
          /\ r.ret = ctl[c].ret
      BY ZenonT(30) DEF TypeOK, Control, Step
    <2>3. PcOK(r) /\ r.pc \notin Fenced
      BY <2>2, <1>3 DEF PcInv, PcOK, Fenced, Dispatching, Undoing, Recovering
    <2> HIDE DEF r
    <2> QED BY <2>1, <2>2, <2>3, CtlMove
  <1>4. ctl[c].ret \in {"ready", "settled", "dispatch"}
    BY DEF TypeOK, Control
  <1> QED BY <1>1, <1>2, <1>3, <1>4

----------------------------------------------------------------------------
(* The writes of the shell *)

LEMMA ShellOK ==
    ASSUME ShellGood, NEW b \in Body
    PROVE  /\ BootBody(b) => ShellGood'
           /\ \A how \in {"closed", "dead"} : EndBody(b, how) => ShellGood'
           /\ EndJob(b) => ShellGood'
           /\ \A g \in Gen : WriteScript(b, g) => ShellGood'
           /\ \A g : UnlinkScript(b, g) => ShellGood'
           /\ \A g \in Gen : TypeLine(b, g) => ShellGood'
  <1> USE DEF ShellGood, ShellTypeOK, AgentKeyed
  <1>0. ShellJob \in Job /\ ShellJob \notin Gen
    BY GenAssumption DEF ShellJob, Job, Gen
  <1>1. BootBody(b) => ShellGood'
    BY DEF BootBody
  <1>2. \A how \in {"closed", "dead"} : EndBody(b, how) => ShellGood'
    BY <1>0 DEF EndBody
  <1>3. EndJob(b) => ShellGood'
    BY <1>0 DEF EndJob
  <1>4. \A g \in Gen : WriteScript(b, g) => ShellGood'
    BY DEF WriteScript
  <1>5. \A g : UnlinkScript(b, g) => ShellGood'
    BY DEF UnlinkScript
  <1>6. \A g \in Gen : TypeLine(b, g) => ShellGood'
    BY DEF TypeLine
  <1> QED BY <1>1, <1>2, <1>3, <1>4, <1>5, <1>6

----------------------------------------------------------------------------
(* Frames: which variables a step writes *)

LEMMA ShellSame ==
    ASSUME ShellGood, UNCHANGED shellVars
    PROVE  ShellGood'
  BY DEF ShellGood, ShellTypeOK, AgentKeyed, shellVars

LEMMA LaneFrame ==
    ASSUME IInv, LaneOK, CtlOK, UNCHANGED <<plan, launch, record, shellVars, crashes>>
    PROVE  Good
  <1>1. ShellGood'
    BY ShellSame DEF IInv, TypeOK, ShellGood
  <1> QED
    BY <1>1 DEF IInv, TypeOK, ShellGood, StoreTypeOK, LaneOK, CtlOK, Good, Quiet, LaunchQuiet

LEMMA ShellFrame ==
    ASSUME IInv, CtlOK, ShellGood', UNCHANGED <<storeVars, crashes>>
    PROVE  Good
  <1>1. LaneOK
    BY LaneSame DEF IInv, TypeOK, ShellGood, StoreTypeOK, storeVars
  <1> QED
    BY <1>1 DEF IInv, TypeOK, ShellGood, StoreTypeOK, storeVars, LaneOK, CtlOK, Good, Quiet, LaunchQuiet

LEMMA CtlFrame ==
    ASSUME IInv, CtlOK, UNCHANGED <<storeVars, shellVars, crashes>>
    PROVE  Good
  <1>1. ShellGood'
    BY ShellSame DEF IInv, TypeOK, ShellGood
  <1> QED BY <1>1, ShellFrame

LEMMA StoreFrame ==
    ASSUME IInv, LaneOK, CtlOK, LaunchQuiet, launch' \in [Body -> [Gen -> Launch]],
           record' \in [Key -> Record], UNCHANGED <<plan, shellVars, crashes>>
    PROVE  Good
  <1>1. ShellGood'
    BY ShellSame DEF IInv, TypeOK, ShellGood
  <1> QED
    BY <1>1 DEF IInv, TypeOK, ShellGood, StoreTypeOK, LaneOK, CtlOK, Good, Quiet

LEMMA Known ==
    ASSUME IInv, NEW c \in Controller
    PROVE  /\ TypeOK /\ PcInv /\ LaneGen /\ StoreTypeOK /\ ShellGood
           /\ lane \in [Body -> LaneRecord]
           /\ ctl \in [Controller -> Control]
           /\ ctl[c] \in Control
           /\ ctl[c].snap \in LaneRecord
           /\ PcOK(ctl[c])
  BY DEF IInv, TypeOK, ShellGood, StoreTypeOK, PcInv, Control

----------------------------------------------------------------------------
(* Commands *)

LEMMA CommandGood ==
    ASSUME IInv, NEW c \in Controller, NEW b \in Body, Command(c, b)
    PROVE  Good
  <1> DEFINE r == [Ready EXCEPT !.pc = "observe", !.b = b, !.snap = lane[b],
                                !.ret = "settled"]
  <1>1. ctl' = [ctl EXCEPT ![c] = r]
    BY DEF Command
  <1>2. /\ r \in Control /\ r.pc = "observe" /\ r.b = b
        /\ r.snap = lane[b] /\ r.ret = "settled"
    BY Known, GenAssumption DEF Ready, Control, Step, NoLane
  <1>3. PcOK(r) /\ r.pc \notin Fenced
    BY <1>2, Known DEF LaneGen, PcOK, Fenced, Dispatching, Undoing, Recovering
  <1> HIDE DEF r
  <1>4. CtlOK
    BY <1>1, <1>2, <1>3, Known, CtlMove
  <1> QED BY <1>4, CtlFrame DEF Command

LEMMA StartNewGood ==
    ASSUME IInv, NEW c \in Controller, StartNew(c)
    PROVE  Good
  <1> DEFINE r == [ctl[c] EXCEPT !.pc = "create"]
  <1>1. /\ r.pc = "create" /\ r.b = ctl[c].b /\ r.snap = ctl[c].snap /\ r.ret = ctl[c].ret
        /\ "create" \in Step \ Fenced
    BY Known DEF Control, Step, Fenced, Dispatching, Undoing
  <1>2. PcOK(r)
    BY <1>1, Known DEF PcOK, Fenced, Dispatching, Undoing, Recovering
  <1>3. CtlOK
    BY <1>1, <1>2, Known, GotoOK DEF StartNew
  <1> QED BY <1>3, CtlFrame DEF StartNew

LEMMA ResumeGood ==
    ASSUME IInv, NEW c \in Controller, NEW k \in Key, Resume(c, k)
    PROVE  Good
  <1> DEFINE b == record[k].body
  <1> DEFINE r == [Ready EXCEPT !.pc = IF b = NoBody THEN "settleRecord" ELSE "observe",
                                !.b = b, !.key = k,
                                !.snap = IF b = NoBody THEN NoLane ELSE lane[b],
                                !.ret = "settled"]
  <1>0. b \in Body \cup {NoBody}
    BY Known DEF StoreTypeOK, Record
  <1>1. ctl' = [ctl EXCEPT ![c] = r]
    BY DEF Resume
  <1>2. NoLane \in LaneRecord /\ Reached(NoLane) /\ NoLane.state = "absent"
    BY GenAssumption DEF NoLane, LaneRecord, LaneState, Job, ShellJob, Reached, Admitted,
                         Starting
  <1>3. /\ r \in Control
        /\ r.pc = (IF b = NoBody THEN "settleRecord" ELSE "observe")
        /\ r.b = b /\ r.key = k /\ r.ret = "settled"
        /\ r.snap = (IF b = NoBody THEN NoLane ELSE lane[b])
    BY <1>0, <1>2, Known, ZenonT(30) DEF Ready, Control, Step
  <1> HIDE DEF r, b
  <1>4. Reached(r.snap)
    BY <1>0, <1>2, <1>3, Known DEF LaneGen
  <1>5. PcOK(r) /\ r.pc \notin Fenced
    BY <1>0, <1>2, <1>3, <1>4, KeyAssumption
       DEF PcOK, Fenced, Dispatching, Undoing, Recovering, Idle
  <1>6. CtlOK
    BY <1>1, <1>3, <1>5, Known, CtlMove
  <1> QED BY <1>6, CtlFrame DEF Resume

----------------------------------------------------------------------------
(* settle_lane and recover_lane_dispatch *)

LEMMA ObserveDeadGood ==
    ASSUME IInv, NEW c \in Controller, ObserveDead(c)
    PROVE  Good
  <1> DEFINE b == ctl[c].b
             s == ctl[c].snap
  <1>1. b \in Body /\ s \in LaneRecord /\ s.state # "destroyed" /\ At(c, "observe")
    BY Known DEF ObserveDead, At, PcOK
  <1>2. CASE /\ LaneExited(b, s, "destroyed")
             /\ ctl' = [ctl EXCEPT ![c].pc = "mark", ![c].snap = lane'[b], ![c].flag = TRUE]
    <2> DEFINE r == [ctl[c] EXCEPT !.pc = "mark", !.snap = lane'[b], !.flag = TRUE]
    <2>1. /\ LaneOK
          /\ lane'[b] \in LaneRecord
          /\ lane'[b].state = "destroyed"
      BY <1>1, <1>2, Known, LaneExitedOK DEF LaneState, Admitted, Starting
    <2>2. /\ r \in Control /\ r.pc = "mark" /\ r.b = b /\ r.snap = lane'[b]
          /\ r.ret = ctl[c].ret
      BY <2>1, Known DEF Control, Step
    <2>3. PcOK(r) /\ r.pc \notin Fenced
      BY <1>1, <2>1, <2>2 DEF PcOK, Reached, Admitted, Starting, Fenced, Dispatching, Undoing,
                              Recovering
    <2>4. ctl' = [ctl EXCEPT ![c] = r]
      BY <1>2, Known
    <2> HIDE DEF r
    <2>5. CtlOK
      BY <2>2, <2>3, <2>4, Known, CtlMove
    <2> QED BY <2>1, <2>5, LaneFrame DEF ObserveDead
  <1>3. CASE GotoWith(c, "settled", lane[b]) /\ UNCHANGED lane
    <2>1. PcOK([ctl[c] EXCEPT !.pc = "settled", !.snap = lane[b]])
      BY <1>1, Known DEF PcOK, LaneGen, Control, Fenced, Dispatching, Undoing, Recovering
    <2>2. lane[b] \in LaneRecord /\ "settled" \in Step \ Fenced
      BY <1>1, Known DEF Step, Fenced, Dispatching, Undoing
    <2>3. CtlOK
      BY <1>3, <2>1, <2>2, Known, GotoWithOK
    <2> QED BY <1>3, <2>3, Known, LaneSame, LaneFrame DEF ObserveDead
  <1> QED BY <1>2, <1>3 DEF ObserveDead

LEMMA ObserveAliveGood ==
    ASSUME IInv, NEW c \in Controller, ObserveAlive(c)
    PROVE  Good
  <1> DEFINE s == ctl[c].snap
  <1>1. PICK pc \in {"recUnlink", "reread", "settled"} :
           /\ Goto(c, pc)
           /\ pc = "recUnlink" => s.state \in Admitted
    BY DEF ObserveAlive, Abandoned, Admitted
  <1>2. PcOK([ctl[c] EXCEPT !.pc = pc])
    BY <1>1, Known DEF ObserveAlive, At, PcOK, Control, Fenced, Dispatching, Undoing, Recovering
  <1>3. pc \in Step \ Fenced
    BY DEF Step, Fenced, Dispatching, Undoing, Recovering
  <1>4. CtlOK
    BY <1>1, <1>2, <1>3, Known, GotoOK
  <1> QED BY <1>4, CtlFrame DEF ObserveAlive

LEMMA ObserveNothingGood ==
    ASSUME IInv, NEW c \in Controller, ObserveNothing(c)
    PROVE  Good
  <1>1. PcOK([ctl[c] EXCEPT !.pc = "settled"])
    BY Known DEF ObserveNothing, At, PcOK, Control, Fenced, Dispatching, Undoing, Recovering
  <1>2. "settled" \in Step \ Fenced
    BY DEF Step, Fenced, Dispatching, Undoing
  <1>3. CtlOK
    BY <1>1, <1>2, Known, GotoOK DEF ObserveNothing
  <1> QED BY <1>3, CtlFrame DEF ObserveNothing

LEMMA RereadGood ==
    ASSUME IInv, NEW c \in Controller, Reread(c)
    PROVE  Good
  <1> DEFINE s == lane[ctl[c].b]
  <1>1. PICK pc \in {"look", "mark", "settled"} :
           /\ GotoWith(c, pc, s)
           /\ pc = "look" => s.state = "provider_running"
    BY DEF Reread
  <1>2. ctl[c].b \in Body
    BY Known DEF Reread, At, PcOK
  <1>3. /\ PcOK([ctl[c] EXCEPT !.pc = pc, !.snap = s])
        /\ s \in LaneRecord
        /\ pc \in Step \ Fenced
    BY <1>1, <1>2, Known
       DEF PcOK, LaneGen, Control, Step, Fenced, Dispatching, Undoing, Recovering
  <1>4. CtlOK
    BY <1>1, <1>3, Known, GotoWithOK
  <1> QED BY <1>4, CtlFrame DEF Reread

LEMMA LookGood ==
    ASSUME IInv, NEW c \in Controller, Look(c)
    PROVE  Good
  <1> DEFINE b == ctl[c].b
             s == ctl[c].snap
  <1>1. b \in Body /\ s \in LaneRecord /\ s.state = "provider_running"
    BY Known DEF Look, At, PcOK
  <1>2. ASSUME NEW pc \in {"mark", "settled"}, NEW t \in LaneRecord, Reached(t),
               GotoWith(c, pc, t)
        PROVE  CtlOK
    <2>1. PcOK([ctl[c] EXCEPT !.pc = pc, !.snap = t]) /\ pc \in Step \ Fenced
      BY <1>1, <1>2, Known
         DEF PcOK, Control, Step, Fenced, Dispatching, Undoing, Recovering
    <2> QED BY <1>2, <2>1, Known, GotoWithOK
  <1>3. CASE LaneExited(b, s, "provider_exited") /\ GotoWith(c, "mark", lane'[b])
    <2>1. LaneOK /\ lane'[b] \in LaneRecord /\ lane'[b].state = "provider_exited"
      BY <1>1, <1>3, Known, LaneExitedOK DEF LaneState, Idle, Admitted, Starting
    <2>2. Reached(lane'[b])
      BY <2>1 DEF Reached, Admitted, Starting
    <2>3. CtlOK
      BY <1>2, <1>3, <2>1, <2>2
    <2> QED BY <2>1, <2>3, LaneFrame DEF Look
  <1>4. CASE /\ GotoWith(c, "settled", IF Same(b, s) THEN s ELSE lane[b])
             /\ UNCHANGED lane
    <2> DEFINE t == IF Same(b, s) THEN s ELSE lane[b]
    <2>1. t \in LaneRecord /\ Reached(t)
      BY <1>1, Known DEF LaneGen, PcOK
    <2>2. GotoWith(c, "settled", t)
      BY <1>4
    <2> HIDE DEF t
    <2>3. CtlOK
      BY <1>2, <2>1, <2>2
    <2> QED BY <1>4, <2>3, Known, LaneSame, LaneFrame DEF Look
  <1> QED BY <1>3, <1>4 DEF Look

LEMMA StopRecordOK ==
    ASSUME StoreTypeOK, NEW k \in Key \cup {NoKey}, NEW b, NEW lost \in BOOLEAN,
           StopRecord(k, b, lost)
    PROVE  record' \in [Key -> Record]
  <1>1. CASE k # NoKey /\ record[k].state = "running" /\ record[k].body = b
    <2>1. k \in Key /\ record[k] \in Record /\ record[k].body = b
      BY <1>1 DEF StoreTypeOK
    <2>2. [state |-> "stopped", body |-> b, lost |-> lost] \in Record
      BY <2>1 DEF Record
    <2> QED BY <1>1, <2>1, <2>2 DEF StopRecord, StoreTypeOK
  <1>2. CASE ~(k # NoKey /\ record[k].state = "running" /\ record[k].body = b)
    BY <1>2 DEF StopRecord, StoreTypeOK
  <1> QED BY <1>1, <1>2

LEMMA MarkGood ==
    ASSUME IInv, NEW c \in Controller, Mark(c)
    PROVE  Good
  <1>1. /\ ctl[c].b \in Body
        /\ ctl[c].snap.key \in Key \cup {NoKey}
        /\ ctl[c].flag \in BOOLEAN
    BY Known DEF Mark, At, PcOK, Control, LaneRecord
  <1>2. record' \in [Key -> Record]
    BY <1>1, Known, StopRecordOK DEF Mark
  <1>3. CtlOK
    BY <1>1, Known, ReturnOK DEF Mark
  <1>4. LaneOK
    BY Known, LaneSame DEF Mark
  <1> QED BY <1>2, <1>3, <1>4, Known, StoreFrame DEF Mark, LaunchQuiet, StoreTypeOK

LEMMA RecoverUnlinkGood ==
    ASSUME IInv, NEW c \in Controller, RecoverUnlink(c)
    PROVE  Good
  <1> DEFINE ran == ctl[c].snap.gen \notin script[ctl[c].b]
             pc == IF ran THEN "recLook" ELSE "recRevoke"
             r == [ctl[c] EXCEPT !.pc = pc, !.flag = ran]
  <1>1. ctl[c].b \in Body /\ At(c, "recUnlink") /\ ctl[c].snap.state \in Admitted
    BY Known DEF RecoverUnlink, At, PcOK, Recovering
  <1>2. ctl' = [ctl EXCEPT ![c] = r]
    BY Known DEF RecoverUnlink
  <1>3. /\ r \in Control /\ r.pc = pc
        /\ r.b = ctl[c].b /\ r.snap = ctl[c].snap /\ r.ret = ctl[c].ret
    BY Known, ZenonT(30) DEF Control, Step, Recovering
  <1>4. PcOK(r) /\ r.pc \notin Fenced
    BY <1>1, <1>3, Known DEF PcOK, Fenced, Dispatching, Undoing, Recovering
  <1> HIDE DEF r
  <1>5. CtlOK
    BY <1>2, <1>3, <1>4, Known, CtlMove
  <1> QED BY <1>1, <1>5, Known, ShellOK, ShellFrame DEF RecoverUnlink

\* Recovery reports the lane as it finds or leaves it.
LEMMA ReportOK ==
    ASSUME IInv, NEW c \in Controller, ctl[c].pc \in Recovering,
           NEW pc \in {"settled", "mark"}, NEW s \in LaneRecord, Reached(s),
           ctl' = [ctl EXCEPT ![c].pc = pc, ![c].snap = s, ![c].flag = FALSE]
    PROVE  CtlOK
  <1> DEFINE r == [ctl[c] EXCEPT !.pc = pc, !.snap = s, !.flag = FALSE]
  <1>1. ctl' = [ctl EXCEPT ![c] = r]
    BY Known
  <1>2. r \in Control /\ r.pc = pc /\ r.b = ctl[c].b /\ r.snap = s /\ r.ret = ctl[c].ret
    BY Known DEF Control, Step
  <1>3. PcOK(r) /\ r.pc \notin Fenced
    BY <1>2, Known DEF PcOK, Fenced, Dispatching, Undoing, Recovering
  <1> HIDE DEF r
  <1> QED BY <1>1, <1>2, <1>3, Known, CtlMove

LEMMA RecoverLookGood ==
    ASSUME IInv, NEW c \in Controller, RecoverLook(c)
    PROVE  Good
  <1> DEFINE b == ctl[c].b
             g == ctl[c].snap.gen
  <1>1. b \in Body /\ ctl[c].pc = "recLook"
    BY Known DEF RecoverLook, At, PcOK
  <1>2. CASE /\ RecordForeground(b, g, fore[b])
             /\ \/ Finish(c)
                \/ ctl' = [ctl EXCEPT ![c].pc = "settled", ![c].snap = lane'[b],
                                      ![c].flag = FALSE]
    <2>1. fore[b] \in Job
      BY <1>1, Known DEF ShellGood, ShellTypeOK, AgentKeyed
    <2>2. LaneOK /\ lane'[b] \in LaneRecord
      BY <1>1, <1>2, <2>1, Known, RecordForegroundOK
    <2>3. Reached(lane'[b])
      BY <1>1, <2>2 DEF LaneOK, LaneGen
    <2>4. CtlOK
      BY <1>1, <1>2, <2>2, <2>3, Known, FinishOK, ReportOK DEF Recovering
    <2> QED BY <2>2, <2>4, LaneFrame DEF RecoverLook
  <1>3. CASE UNCHANGED lane /\ (Finish(c) \/ Goto(c, "recRevoke") \/ Return(c))
    <2>1. PcOK([ctl[c] EXCEPT !.pc = "recRevoke"])
      BY <1>1, Known DEF PcOK, Control, Fenced, Dispatching, Undoing, Recovering
    <2>2. "recRevoke" \in Step \ Fenced
      BY DEF Step, Fenced, Dispatching, Undoing, Recovering
    <2>3. CtlOK
      BY <1>1, <1>3, <2>1, <2>2, Known, FinishOK, GotoOK, ReturnOK
    <2> QED BY <1>3, <2>3, Known, LaneSame, LaneFrame DEF RecoverLook
  <1> QED BY <1>2, <1>3 DEF RecoverLook

LEMMA RevokedOK ==
    ASSUME StoreTypeOK, NEW b \in Body, launch' = Revoked(b)
    PROVE  launch' \in [Body -> [Gen -> Launch]] /\ LaunchQuiet
  <1>1. NoLaunch \in Launch /\ NoLaunch.st = "none"
    BY DEF NoLaunch, Launch
  <1> QED BY <1>1 DEF StoreTypeOK, Revoked, LaunchQuiet

LEMMA RecoverRevokeGood ==
    ASSUME IInv, NEW c \in Controller, RecoverRevoke(c)
    PROVE  Good
  <1>1. ctl[c].b \in Body /\ ctl[c].pc = "recRevoke"
    BY Known DEF RecoverRevoke, At, PcOK
  <1>2. launch' \in [Body -> [Gen -> Launch]] /\ LaunchQuiet
    BY <1>1, Known, RevokedOK DEF RecoverRevoke
  <1>3. PcOK([ctl[c] EXCEPT !.pc = "recFinish"])
    BY <1>1, Known DEF PcOK, Control, Fenced, Dispatching, Undoing, Recovering
  <1>4. "recFinish" \in Step \ Fenced
    BY DEF Step, Fenced, Dispatching, Undoing, Recovering
  <1>5. CtlOK
    BY <1>3, <1>4, Known, GotoOK DEF RecoverRevoke
  <1>6. LaneOK
    BY Known, LaneSame DEF RecoverRevoke
  <1> QED BY <1>2, <1>5, <1>6, Known, StoreFrame DEF RecoverRevoke, StoreTypeOK

LEMMA RecoverFinishGood ==
    ASSUME IInv, NEW c \in Controller, RecoverFinish(c)
    PROVE  Good
  <1> DEFINE b == ctl[c].b
             report(pc, s) == ctl' = [ctl EXCEPT ![c].pc = pc, ![c].snap = s,
                                                 ![c].flag = FALSE]
  <1>1. b \in Body /\ ctl[c].pc \in Recovering
    BY Known DEF RecoverFinish, At, PcOK, Recovering
  <1>2. CASE UNCHANGED lane /\ (Finish(c) \/ report("settled", lane[b]))
    <2>1. lane[b] \in LaneRecord /\ Reached(lane[b])
      BY <1>1, Known DEF LaneGen
    <2>2. CtlOK
      BY <1>1, <1>2, <2>1, Known, FinishOK, ReportOK
    <2> QED BY <1>2, <2>2, Known, LaneSame, LaneFrame DEF RecoverFinish
  <1>3. CASE /\ lane[b].state \in Admitted
             /\ \/ Transition(b, lane[b].state, "shell_idle", NoProvider, NoKey)
                \/ LaneExited(b, lane[b], "provider_exited")
             /\ \/ Finish(c)
                \/ \E pc \in {"settled", "mark"} : report(pc, lane'[b])
    <2>1. lane[b] \in LaneRecord /\ lane[b].state \in LaneState \ {"destroyed"}
      BY <1>1, <1>3, Known DEF LaneRecord, Admitted, Starting
    <2>2. /\ "shell_idle" \in LaneState \ Admitted
          /\ "provider_exited" \in LaneState \ Admitted
      BY DEF LaneState, Idle, Admitted, Starting
    <2>3. /\ LaneOK /\ lane'[b] \in LaneRecord
          /\ lane'[b].state \in {"shell_idle", "provider_exited"}
      <3>1. CASE Transition(b, lane[b].state, "shell_idle", NoProvider, NoKey)
        <4> DEFINE old == lane[b].state
        <4>1. /\ old \in LaneState \ {"destroyed"}
              /\ NoProvider \in Provider \cup {NoProvider}
              /\ NoKey \in Key \cup {NoKey}
              /\ Transition(b, old, "shell_idle", NoProvider, NoKey)
              /\ lane \in [Body -> LaneRecord] /\ LaneGen
          BY <3>1, <2>1, Known
        <4> HIDE DEF old
        <4>2. LaneOK /\ lane'[b] \in LaneRecord /\ lane'[b].state = "shell_idle"
          BY <1>1, <2>2, <4>1, TransitionOK
        <4> QED BY <4>2
      <3>2. CASE LaneExited(b, lane[b], "provider_exited")
        BY <1>1, <3>2, <2>1, <2>2, Known, LaneExitedOK
      <3> QED BY <1>3, <3>1, <3>2
    <2>4. Reached(lane'[b])
      BY <1>1, <2>3 DEF LaneOK, LaneGen
    <2>5. CtlOK
      BY <1>1, <1>3, <2>3, <2>4, Known, FinishOK, ReportOK
    <2> QED BY <2>3, <2>5, LaneFrame DEF RecoverFinish
  <1> QED BY <1>2, <1>3 DEF RecoverFinish, Current

----------------------------------------------------------------------------
(* What each command does with its settled lane *)

LEMMA AfterSettleGood ==
    ASSUME IInv, NEW c \in Controller, AfterSettle(c)
    PROVE  Good
  <1>1. ASSUME NEW pc \in {"settleRecord", "kill", "close"},
               Goto(c, pc),
               pc = "settleRecord" => ctl[c].key # NoKey,
               pc = "kill" => ctl[c].snap.state = "provider_running",
               pc = "close" => ctl[c].snap.state \in Idle
        PROVE  Good
    <2>1. ctl[c].b \in Body /\ ctl[c].key \in Key \cup {NoKey}
      BY Known DEF AfterSettle, At, PcOK, Control
    <2>2. PcOK([ctl[c] EXCEPT !.pc = pc]) /\ pc \in Step \ Fenced
      BY <1>1, <2>1, Known
         DEF PcOK, Control, Step, Fenced, Dispatching, Undoing, Recovering
    <2>3. CtlOK
      BY <1>1, <2>2, Known, GotoOK
    <2> QED BY <2>3, CtlFrame DEF AfterSettle
  <1>2. CASE Finish(c) \/ GoCreate(c)
    <2>1. CtlOK
      BY <1>2, Known, FinishOK, GoCreateOK
    <2> QED BY <2>1, CtlFrame DEF AfterSettle
  <1>3. CASE GoDispatch(c) /\ ctl[c].key = NoKey
    <2>1. ctl[c].b \in Body
      BY <1>3, Known DEF AfterSettle, At, PcOK
    <2>2. CtlOK
      BY <1>3, <2>1, Known, GoDispatchOK
    <2> QED BY <2>2, CtlFrame DEF AfterSettle
  <1>4. CASE /\ ctl[c].snap.key # NoKey
             /\ ctl' = [ctl EXCEPT ![c].pc = "settleRecord", ![c].key = ctl[c].snap.key]
    <2> DEFINE r == [ctl[c] EXCEPT !.pc = "settleRecord", !.key = ctl[c].snap.key]
    <2>1. ctl[c].b \in Body /\ ctl[c].snap.key \in Key
      BY <1>4, Known DEF AfterSettle, At, PcOK, LaneRecord
    <2>2. /\ r \in Control /\ r.pc = "settleRecord" /\ r.b = ctl[c].b /\ r.snap = ctl[c].snap
          /\ r.key = ctl[c].snap.key /\ r.ret = ctl[c].ret
      BY <2>1, Known DEF Control, Step
    <2>3. ctl' = [ctl EXCEPT ![c] = r]
      BY <1>4
    <2> HIDE DEF r
    <2>4. PcOK(r) /\ r.pc \notin Fenced
      BY <2>1, <2>2, Known DEF PcOK, Fenced, Dispatching, Undoing, Recovering
    <2>5. CtlOK
      BY <2>2, <2>3, <2>4, Known, CtlMove
    <2> QED BY <2>5, CtlFrame DEF AfterSettle
  <1> QED BY <1>1, <1>2, <1>3, <1>4 DEF AfterSettle, HasAgent

LEMMA SettleRecordGood ==
    ASSUME IInv, NEW c \in Controller, SettleRecord(c)
    PROVE  Good
  <1> DEFINE k == ctl[c].key
             s == ctl[c].snap
  <1>1. /\ k \in Key
        /\ s.state \in Idle => ctl[c].b \in Body
    BY Known DEF SettleRecord, At, PcOK
  <1>2. record' \in [Key -> Record]
    <2>1. CASE UNCHANGED record
      BY <2>1, Known DEF StoreTypeOK
    <2>2. CASE StopRecord(k, record[k].body, s.state = "destroyed")
      BY <1>1, <2>2, Known, StopRecordOK
    <2> QED BY <2>1, <2>2 DEF SettleRecord
  <1>3. CtlOK
    <2>1. CASE Finish(c) \/ GoCreate(c)
      BY <2>1, Known, FinishOK, GoCreateOK
    <2>2. CASE GoDispatch(c) /\ s.state \in Idle
      BY <1>1, <2>2, Known, GoDispatchOK
    <2> QED BY <2>1, <2>2 DEF SettleRecord
  <1>4. LaneOK
    BY Known, LaneSame DEF SettleRecord
  <1> QED BY <1>2, <1>3, <1>4, Known, StoreFrame DEF SettleRecord, LaunchQuiet, StoreTypeOK

----------------------------------------------------------------------------
(* stop_lane_provider, destroy_session and create_managed_lane_body *)

LEMMA KillGood ==
    ASSUME IInv, NEW c \in Controller, Kill(c)
    PROVE  Good
  <1>1. ctl[c].b \in Body /\ At(c, "kill")
    BY Known DEF Kill, At, PcOK
  <1>2. PcOK([ctl[c] EXCEPT !.pc = "killed"]) /\ "killed" \in Step \ Fenced
    BY <1>1, Known
       DEF At, PcOK, Control, Step, Fenced, Dispatching, Undoing, Recovering
  <1>3. CASE EndJob(ctl[c].b) /\ Goto(c, "killed")
    <2>1. CtlOK
      BY <1>2, <1>3, Known, GotoOK
    <2> QED BY <1>1, <1>3, <2>1, Known, ShellOK, ShellFrame DEF Kill
  <1>4. CASE Finish(c) /\ UNCHANGED shellVars
    <2>1. CtlOK
      BY <1>4, Known, FinishOK
    <2> QED BY <1>4, <2>1, Known, CtlFrame DEF Kill
  <1> QED BY <1>3, <1>4 DEF Kill

LEMMA KilledGood ==
    ASSUME IInv, NEW c \in Controller, Killed(c)
    PROVE  Good
  <1> DEFINE b == ctl[c].b
             s == ctl[c].snap
  <1>1. b \in Body /\ s \in LaneRecord /\ s.state = "provider_running"
    BY Known DEF Killed, At, PcOK
  <1>2. CASE /\ LaneExited(b, s, "provider_exited")
             /\ \E ret \in {"ready", "dispatch"} :
                  ctl' = [ctl EXCEPT ![c].pc = "mark", ![c].snap = lane'[b], ![c].ret = ret]
    <2>1. LaneOK /\ lane'[b] \in LaneRecord /\ lane'[b].state = "provider_exited"
      BY <1>1, <1>2, Known, LaneExitedOK DEF LaneState, Idle, Admitted, Starting
    <2>2. PICK ret \in {"ready", "dispatch"} :
              ctl' = [ctl EXCEPT ![c].pc = "mark", ![c].snap = lane'[b], ![c].ret = ret]
      BY <1>2
    <2> DEFINE r == [ctl[c] EXCEPT !.pc = "mark", !.snap = lane'[b], !.ret = ret]
    <2>3. ctl' = [ctl EXCEPT ![c] = r]
      BY <2>2, Known
    <2>4. r \in Control /\ r.pc = "mark" /\ r.b = b /\ r.snap = lane'[b]
      BY <2>1, Known DEF Control, Step
    <2>5. PcOK(r) /\ r.pc \notin Fenced
      BY <1>1, <2>1, <2>4
         DEF PcOK, Reached, Admitted, Starting, Fenced, Dispatching, Undoing, Recovering
    <2> HIDE DEF r
    <2>6. CtlOK
      BY <2>3, <2>4, <2>5, Known, CtlMove
    <2> QED BY <2>1, <2>6, LaneFrame DEF Killed
  <1>3. CASE Finish(c) /\ UNCHANGED lane
    BY <1>3, Known, FinishOK, LaneSame, LaneFrame DEF Killed
  <1> QED BY <1>2, <1>3 DEF Killed

LEMMA CloseGood ==
    ASSUME IInv, NEW c \in Controller, Close(c)
    PROVE  Good
  <1>1. ctl[c].b \in Body /\ At(c, "close")
    BY Known DEF Close, At, PcOK
  <1>2. PcOK([ctl[c] EXCEPT !.pc = "closed"]) /\ "closed" \in Step \ Fenced
    BY <1>1, Known
       DEF At, PcOK, Control, Step, Fenced, Dispatching, Undoing, Recovering
  <1>3. CtlOK
    BY <1>2, Known, GotoOK DEF Close
  <1> QED BY <1>1, <1>3, Known, ShellOK, ShellFrame DEF Close

LEMMA ClosedGood ==
    ASSUME IInv, NEW c \in Controller, Closed(c)
    PROVE  Good
  <1>1. /\ ctl[c].b \in Body /\ ctl[c].snap \in LaneRecord
        /\ ctl[c].snap.state \in Idle
    BY Known DEF Closed, At, PcOK
  <1>2. LaneOK
    <2>1. CASE LaneExited(ctl[c].b, ctl[c].snap, "destroyed")
      BY <1>1, <2>1, Known, LaneExitedOK DEF LaneState, Idle, Admitted, Starting
    <2>2. CASE UNCHANGED lane
      BY <2>2, Known, LaneSame
    <2> QED BY <2>1, <2>2 DEF Closed
  <1> QED BY <1>2, Known, FinishOK, LaneFrame DEF Closed

LEMMA DestroyConversationGood ==
    ASSUME IInv, NEW k \in Key, DestroyConversation(k)
    PROVE  Good
  <1>1. TypeOK /\ PcInv /\ LaneGen /\ StoreTypeOK
    BY DEF IInv, TypeOK, ShellGood
  <1>2. record' \in [Key -> Record]
    BY <1>1 DEF DestroyConversation, DestroyRecord, StoreTypeOK, Record
  <1>3. LaneOK /\ CtlOK
    BY <1>1, LaneSame, CtlSame DEF DestroyConversation, StoreTypeOK
  <1> QED BY <1>1, <1>2, <1>3, StoreFrame DEF DestroyConversation, LaunchQuiet, StoreTypeOK

LEMMA CreateGood ==
    ASSUME IInv, NEW c \in Controller, Create(c)
    PROVE  Good
  <1>1. ASSUME NEW b \in Body, CreateLane(b),
               ctl' = [ctl EXCEPT ![c].pc = "boot", ![c].b = b, ![c].snap = lane'[b]]
        PROVE  Good
    <2> DEFINE r == [ctl[c] EXCEPT !.pc = "boot", !.b = b, !.snap = lane'[b]]
    <2>1. LaneOK /\ lane'[b] \in LaneRecord /\ lane'[b].state = "provisional"
      BY <1>1, Known, CreateLaneOK
    <2>2. ctl' = [ctl EXCEPT ![c] = r]
      BY <1>1, Known
    <2>3. r \in Control /\ r.pc = "boot" /\ r.b = b /\ r.snap = lane'[b]
      BY <2>1, Known DEF Control, Step
    <2>4. PcOK(r) /\ r.pc \notin Fenced
      BY <2>1, <2>3
         DEF PcOK, Reached, Admitted, Starting, Fenced, Dispatching, Undoing, Recovering
    <2> HIDE DEF r
    <2>5. CtlOK
      BY <2>2, <2>3, <2>4, Known, CtlMove
    <2> QED BY <2>1, <2>5, LaneFrame DEF Create
  <1>2. CASE Finish(c) /\ UNCHANGED lane
    BY <1>2, Known, FinishOK, LaneSame, LaneFrame DEF Create
  <1> QED BY <1>1, <1>2 DEF Create

LEMMA BootGood ==
    ASSUME IInv, NEW c \in Controller, Boot(c)
    PROVE  Good
  <1>1. ctl[c].b \in Body /\ ctl[c].snap.state = "provisional"
    BY Known DEF Boot, At, PcOK
  <1>2. PICK pc \in {"open", "abort"} : Goto(c, pc)
    BY DEF Boot
  <1>3. PcOK([ctl[c] EXCEPT !.pc = pc]) /\ pc \in Step \ Fenced
    BY <1>1, Known DEF Boot, At, PcOK, Control, Step, Fenced, Dispatching, Undoing, Recovering
  <1>4. CtlOK
    BY <1>2, <1>3, Known, GotoOK
  <1>5. ShellGood'
    BY <1>1, Known, ShellOK, ShellSame DEF Boot
  <1> QED BY <1>4, <1>5, ShellFrame DEF Boot

LEMMA OpenGood ==
    ASSUME IInv, NEW c \in Controller, Open(c)
    PROVE  Good
  <1>1. ctl[c].b \in Body /\ ctl[c].snap.state = "provisional"
    BY Known DEF Open, At, PcOK
  <1>2. CASE /\ Transition(ctl[c].b, "provisional", "shell_idle", NoProvider, NoKey)
             /\ GoDispatch(c)
    <2>1. /\ "provisional" \in LaneState \ {"destroyed"}
          /\ "shell_idle" \in LaneState \ Admitted
          /\ NoProvider \in Provider \cup {NoProvider}
          /\ NoKey \in Key \cup {NoKey}
      BY DEF LaneState, Idle, Admitted, Starting
    <2>2. LaneOK
      BY <1>1, <1>2, <2>1, Known, TransitionOK
    <2> QED BY <1>1, <1>2, <2>2, Known, GoDispatchOK, LaneFrame DEF Open
  <1>3. CASE Goto(c, "abort") /\ UNCHANGED lane
    <2>1. PcOK([ctl[c] EXCEPT !.pc = "abort"]) /\ "abort" \in Step \ Fenced
      BY <1>1, Known
         DEF Open, At, PcOK, Control, Step, Fenced, Dispatching, Undoing, Recovering
    <2>2. CtlOK
      BY <1>3, <2>1, Known, GotoOK
    <2> QED BY <1>3, <2>2, Known, LaneSame, LaneFrame DEF Open
  <1> QED BY <1>2, <1>3 DEF Open

LEMMA AbortGood ==
    ASSUME IInv, NEW c \in Controller, Abort(c)
    PROVE  Good
  <1>1. ctl[c].b \in Body /\ ctl[c].snap.state = "provisional"
    BY Known DEF Abort, At, PcOK
  <1>2. PcOK([ctl[c] EXCEPT !.pc = "abortLane"]) /\ "abortLane" \in Step \ Fenced
    BY <1>1, Known
       DEF Abort, At, PcOK, Control, Step, Fenced, Dispatching, Undoing, Recovering
  <1>3. CtlOK
    BY <1>2, Known, GotoOK DEF Abort
  <1> QED BY <1>1, <1>3, Known, ShellOK, ShellFrame DEF Abort

\* The two cleanups that compare a lane's state with the one they read.
LEMMA CleanupOK ==
    ASSUME IInv, NEW b \in Body, NEW old \in LaneState \ {"destroyed"},
           NEW st \in {"shell_idle", "destroyed"},
           \/ Transition(b, old, st, NoProvider, NoKey)
           \/ UNCHANGED lane
    PROVE  LaneOK
  <1>1. lane \in [Body -> LaneRecord] /\ LaneGen
    BY DEF IInv, TypeOK, ShellGood, StoreTypeOK
  <1>2. /\ st \in LaneState \ Admitted
        /\ NoProvider \in Provider \cup {NoProvider}
        /\ NoKey \in Key \cup {NoKey}
    BY DEF LaneState, Idle, Admitted, Starting
  <1> QED BY <1>1, <1>2, TransitionOK, LaneSame

LEMMA AbortLaneGood ==
    ASSUME IInv, NEW c \in Controller, AbortLane(c)
    PROVE  Good
  <1>1. /\ ctl[c].b \in Body
        /\ ctl[c].snap.state = "provisional"
        /\ ctl[c].snap.state \in LaneState \ {"destroyed"}
    BY Known DEF AbortLane, At, PcOK, LaneState
  <1>2. LaneOK
    BY <1>1, CleanupOK DEF AbortLane
  <1> QED BY <1>2, Known, FinishOK, LaneFrame DEF AbortLane

----------------------------------------------------------------------------
(* dispatch_provider_generation, after its compare-and-swap *)

LEMMA FencedKnown ==
    ASSUME IInv, NEW c \in Controller, ctl[c].pc \in Fenced
    PROVE  /\ ctl[c].b \in Body
           /\ ctl[c].snap.gen \in Gen
           /\ ctl[c].snap.state \in LaneState \ {"destroyed"}
           /\ \A pc \in Fenced \cup {"recUnlink"} :
                /\ pc \in Step
                /\ PcOK([ctl[c] EXCEPT !.pc = pc])
  <1>1. /\ PcOK(ctl[c]) /\ ctl[c] \in Control
        /\ ctl[c].pc \in Dispatching \cup Undoing
    BY Known DEF Fenced
  <1>2. /\ ctl[c].b \in Body
        /\ ctl[c].snap.state \in Starting
        /\ ctl[c].snap.gen \in Gen
    BY <1>1 DEF PcOK, Reached, Fenced, Admitted, Dispatching, Undoing
  <1>3. ASSUME NEW pc \in Fenced \cup {"recUnlink"}
        PROVE  pc \in Step /\ PcOK([ctl[c] EXCEPT !.pc = pc])
    BY <1>1, <1>2
       DEF PcOK, Control, Step, Fenced, Admitted, Dispatching, Undoing, Recovering
  <1> QED BY <1>2, <1>3 DEF LaneState, Admitted, Starting

LEMMA FencedGoto ==
    ASSUME IInv, NEW c \in Controller, ctl[c].pc \in Fenced,
           NEW pc \in Fenced \cup {"recUnlink"}, Goto(c, pc)
    PROVE  CtlOK
  BY Known, FencedKnown, GotoOK

LEMMA WriteGood ==
    ASSUME IInv, NEW c \in Controller, Write(c)
    PROVE  Good
  <1>1. ctl[c].pc \in Fenced /\ {"type", "undoScript"} \subseteq Fenced
    BY DEF Write, At, Fenced, Dispatching, Undoing
  <1>2. CtlOK
    BY <1>1, FencedGoto DEF Write
  <1>3. ShellGood'
    BY <1>1, Known, FencedKnown, ShellOK, ShellSame DEF Write
  <1> QED BY <1>2, <1>3, ShellFrame DEF Write

LEMMA TypeGood ==
    ASSUME IInv, NEW c \in Controller, Type(c)
    PROVE  Good
  <1>1. ctl[c].pc \in Fenced /\ {"await", "undoScript"} \subseteq Fenced
    BY DEF Type, At, Fenced, Dispatching, Undoing
  <1>2. CtlOK
    BY <1>1, FencedGoto DEF Type
  <1>3. ShellGood'
    BY <1>1, Known, FencedKnown, ShellOK, ShellSame DEF Type
  <1> QED BY <1>2, <1>3, ShellFrame DEF Type

LEMMA AwaitGood ==
    ASSUME IInv, NEW c \in Controller, Await(c)
    PROVE  Good
  <1>1. ctl[c].pc = "await" /\ ctl[c].pc \in Fenced
    BY DEF Await, At, Fenced, Dispatching
  <1>2. ctl[c].b \in Body
    BY <1>1, FencedKnown
  <1>3. CASE ctl' = [ctl EXCEPT ![c].pc = "publish", ![c].snap.fg = fore[ctl[c].b]]
    <2> DEFINE s == [ctl[c].snap EXCEPT !.fg = fore[ctl[c].b]]
               r == [ctl[c] EXCEPT !.pc = "publish", !.snap = s]
    <2>1. ctl' = [ctl EXCEPT ![c] = r]
      BY <1>3, Known
    <2>2. fore[ctl[c].b] \in Job
      BY <1>2, Known DEF ShellGood, ShellTypeOK, AgentKeyed
    <2>3. /\ s \in LaneRecord
          /\ s.state = ctl[c].snap.state /\ s.gen = ctl[c].snap.gen
      BY <2>2, Known DEF LaneRecord
    <2> HIDE DEF s
    <2>4. r \in Control /\ r.pc = "publish" /\ r.b = ctl[c].b /\ r.snap = s
                       /\ r.ret = ctl[c].ret
      BY <2>3, Known DEF Control, Step, Dispatching
    <2> HIDE DEF r
    <2>5. PcOK(r)
      BY <1>1, <2>3, <2>4, Known
         DEF PcOK, Reached, Fenced, Dispatching, Undoing, Recovering
    <2>6. CtlOK
      BY <1>1, <2>1, <2>3, <2>4, <2>5, Known, CtlMove
    <2> QED BY <2>6, CtlFrame DEF Await
  <1>4. CASE Goto(c, "recUnlink")
    BY <1>1, <1>4, FencedGoto, CtlFrame DEF Await
  <1> QED BY <1>3, <1>4 DEF Await

LEMMA PublishGood ==
    ASSUME IInv, NEW c \in Controller, Publish(c)
    PROVE  Good
  <1> DEFINE b == ctl[c].b
  <1>1. ctl[c].pc \in Fenced /\ ctl[c].snap.fg \in Job
    BY Known DEF Publish, At, Fenced, Dispatching, LaneRecord
  <1>2. CASE RecordForeground(b, ctl[c].snap.gen, ctl[c].snap.fg) /\ Finish(c)
    <2>1. LaneOK
      BY <1>1, <1>2, Known, FencedKnown, RecordForegroundOK
    <2> QED BY <1>2, <2>1, Known, FinishOK, LaneFrame DEF Publish
  <1>3. CASE Goto(c, "recUnlink") /\ UNCHANGED lane
    BY <1>1, <1>3, Known, FencedGoto, LaneSame, LaneFrame DEF Publish
  <1> QED BY <1>2, <1>3 DEF Publish

LEMMA UndoScriptGood ==
    ASSUME IInv, NEW c \in Controller, UndoScript(c)
    PROVE  Good
  <1>1. ctl[c].pc \in Fenced /\ "undoLaunch" \in Fenced
    BY DEF UndoScript, At, Fenced, Undoing
  <1>2. CtlOK
    BY <1>1, FencedGoto DEF UndoScript
  <1>3. ShellGood'
    BY <1>1, Known, FencedKnown, ShellOK DEF UndoScript
  <1> QED BY <1>2, <1>3, ShellFrame DEF UndoScript

\* Dropping one capability.
LEMMA DropOK ==
    ASSUME StoreTypeOK, NEW b \in Body, NEW g \in Gen,
           \/ launch' = [launch EXCEPT ![b][g] = NoLaunch]
           \/ UNCHANGED launch
    PROVE  launch' \in [Body -> [Gen -> Launch]] /\ LaunchQuiet
  <1>1. NoLaunch \in Launch /\ NoLaunch.st = "none"
    BY DEF NoLaunch, Launch
  <1>2. launch \in [Body -> [Gen -> Launch]]
    BY DEF StoreTypeOK
  <1>3. CASE launch' = [launch EXCEPT ![b][g] = NoLaunch]
    BY <1>1, <1>2, <1>3 DEF LaunchQuiet
  <1>4. CASE UNCHANGED launch
    BY <1>2, <1>4 DEF LaunchQuiet
  <1> QED BY <1>3, <1>4

LEMMA UndoLaunchGood ==
    ASSUME IInv, NEW c \in Controller, UndoLaunch(c)
    PROVE  Good
  <1>1. ctl[c].pc \in Fenced /\ "undoLane" \in Fenced
    BY DEF UndoLaunch, At, Fenced, Undoing
  <1>2. CtlOK
    BY <1>1, FencedGoto DEF UndoLaunch
  <1>3. launch' \in [Body -> [Gen -> Launch]] /\ LaunchQuiet
    BY <1>1, Known, FencedKnown, DropOK DEF UndoLaunch, CancelLaunch
  <1>4. LaneOK
    BY Known, LaneSame DEF UndoLaunch
  <1> QED BY <1>2, <1>3, <1>4, Known, StoreFrame DEF UndoLaunch, StoreTypeOK

LEMMA UndoLaneGood ==
    ASSUME IInv, NEW c \in Controller, UndoLane(c)
    PROVE  Good
  <1>1. ctl[c].pc \in Fenced
    BY DEF UndoLane, At, Fenced, Undoing
  <1>2. LaneOK
    BY <1>1, FencedKnown, CleanupOK DEF UndoLane
  <1> QED BY <1>2, Known, FinishOK, LaneFrame DEF UndoLane

----------------------------------------------------------------------------
(* Hooks, time, crashes and the world *)

LEMMA AgentKey ==
    ASSUME IInv, NEW b \in Body, NEW g \in Gen, AgentUp(b, g)
    PROVE  akey[b][g] \in Key
  BY DEF IInv, AgentKeyed, AgentUp

\* The provider of what a capability was planned for belongs to a conversation.
LEMMA HookClaimGood ==
    ASSUME IInv, NEW b \in Body, NEW g \in Gen, HookClaim(b, g)
    PROVE  Good
  <1> DEFINE k == akey[b][g]
  <1>0. k \in Key
    BY AgentKey DEF HookClaim
  <1>1. PICK n \in Writes : Claim(b, g, k, n)
    BY DEF HookClaim
  <1>2. TypeOK /\ PcInv /\ LaneGen /\ StoreTypeOK /\ lane \in [Body -> LaneRecord]
    BY DEF IInv, TypeOK, ShellGood, StoreTypeOK
  <1>3. LaneOK
    <2>1. CASE n < 3
      BY <1>1, <1>2, <2>1, LaneSame DEF Claim
    <2>2. CASE ~(n < 3)
      <3>1. n > 2
        BY <2>2 DEF Writes
      <3> QED BY <1>0, <1>1, <1>2, <2>2, <3>1, FinalizeOK DEF Claim
    <2> QED BY <2>1, <2>2
  <1>4. launch' \in [Body -> [Gen -> Launch]] /\ LaunchQuiet
    <2> DEFINE l == IF n = 4 THEN NoLaunch ELSE [st |-> "claimed", by |-> k]
    <2>1. l \in Launch
      BY <1>0 DEF Launch, NoLaunch
    <2>2. launch' = [launch EXCEPT ![b][g] = l] /\ launch[b][g].st # "none"
      BY <1>1 DEF Claim, Claimable
    <2> HIDE DEF l
    <2>3. launch' \in [Body -> [Gen -> Launch]]
      BY <1>2, <2>1, <2>2 DEF StoreTypeOK
    <2>4. LaunchQuiet
      BY <1>2, <2>2 DEF StoreTypeOK, LaunchQuiet
    <2> QED BY <2>3, <2>4
  <1>5. record' \in [Key -> Record]
    <2>1. [state |-> "running", body |-> b, lost |-> FALSE] \in Record
      BY DEF Record
    <2> QED BY <1>1, <1>2, <2>1 DEF Claim, StoreTypeOK
  <1>6. CtlOK
    BY <1>2, CtlSame DEF HookClaim
  <1> QED BY <1>3, <1>4, <1>5, <1>6, StoreFrame DEF HookClaim

LEMMA HookRebindGood ==
    ASSUME IInv, NEW b \in Body, NEW g \in Gen, HookRebind(b, g)
    PROVE  Good
  <1> DEFINE k == akey[b][g]
  <1>0. k \in Key
    BY AgentKey DEF HookRebind
  <1>1. PICK unlinked \in BOOLEAN : Rebind(b, g, k, unlinked)
    BY DEF HookRebind
  <1>2. TypeOK /\ PcInv /\ LaneGen /\ StoreTypeOK /\ lane \in [Body -> LaneRecord]
    BY DEF IInv, TypeOK, ShellGood, StoreTypeOK
  <1>3. LaneOK
    BY <1>0, <1>1, <1>2, FinalizeOK DEF Rebind
  <1>4. launch' \in [Body -> [Gen -> Launch]] /\ LaunchQuiet
    BY <1>1, <1>2, DropOK DEF Rebind
  <1>5. CtlOK
    BY <1>2, CtlSame DEF HookRebind
  <1> QED
    BY <1>1, <1>2, <1>3, <1>4, <1>5, StoreFrame DEF HookRebind, Rebind, StoreTypeOK

LEMMA CapabilityExpiresGood ==
    ASSUME IInv, NEW b \in Body, NEW g \in Gen, CapabilityExpires(b, g)
    PROVE  Good
  <1>1. TypeOK /\ PcInv /\ LaneGen /\ StoreTypeOK /\ lane \in [Body -> LaneRecord]
    BY DEF IInv, TypeOK, ShellGood, StoreTypeOK
  <1>2. launch' \in [Body -> [Gen -> Launch]] /\ LaunchQuiet
    BY <1>1, DropOK DEF CapabilityExpires, DropLaunch
  <1>3. LaneOK /\ CtlOK
    BY <1>1, LaneSame, CtlSame DEF CapabilityExpires
  <1> QED BY <1>1, <1>2, <1>3, StoreFrame DEF CapabilityExpires, StoreTypeOK

LEMMA CrashGood ==
    ASSUME IInv, NEW c \in Controller, Crash(c)
    PROVE  Good
  <1>1. CtlOK
    BY Known, FinishOK DEF Crash
  <1>2. LaneOK
    BY Known, LaneSame DEF Crash, storeVars
  <1>3. ShellGood'
    BY Known, ShellSame DEF Crash
  <1>4. crashes' \in 0 .. MaxCrashes
    BY Known, ControlAssumption DEF Crash, TypeOK
  <1> QED
    BY <1>1, <1>2, <1>3, <1>4, Known
       DEF Crash, ShellGood, storeVars, Good, Quiet, LaunchQuiet, TypeOK, StoreTypeOK, LaneOK, CtlOK

LEMMA WorldGood ==
    ASSUME IInv, NEW b \in Body, World(b)
    PROVE  Good
  <1>1. TypeOK /\ PcInv /\ ShellGood
    BY DEF IInv, TypeOK, ShellGood
  <1>2. ShellGood'
    <2>1. ASSUME NEW g \in Gen, RunLauncher(b, g)
          PROVE  ShellGood'
      <3>1. g \in Job
        BY GenAssumption DEF Gen, Job
      <3> QED BY <1>1, <2>1, <3>1 DEF RunLauncher, ShellGood, ShellTypeOK, AgentKeyed
    <2>2. ASSUME NEW g \in Gen, LoseLine(b, g)
          PROVE  ShellGood'
      BY <1>1, <2>2 DEF LoseLine, ShellGood, ShellTypeOK, AgentKeyed
    <2>3. CASE JobExits(b)
      BY <1>1, <2>3, ShellOK DEF JobExits
    <2>4. CASE UserStartsJob(b)
      <3>1. UserJob \in Job /\ UserJob \notin Gen
        BY GenAssumption DEF UserJob, Job, Gen
      <3> QED BY <1>1, <2>4, <3>1, UserAssumption DEF UserStartsJob, ShellGood, ShellTypeOK, AgentKeyed
    <2>5. CASE BodyDies(b)
      BY <1>1, <2>5, ShellOK DEF BodyDies
    <2> QED BY <2>1, <2>2, <2>3, <2>4, <2>5 DEF World
  <1>3. CtlOK
    BY <1>1, CtlSame DEF World
  <1> QED BY <1>2, <1>3, ShellFrame DEF World

----------------------------------------------------------------------------
(* The invariant and the history of a lane *)

\* What LaneHistory says of one step.
LaneStep == \A b \in Body :
    /\ lane'[b].gen # lane[b].gen =>
         lane[b].state \in Idle /\ lane'[b].gen = lane[b].gen + 1
    /\ lane[b].state = "destroyed" => lane'[b] = lane[b]

LEMMA OwnedQuiet ==
    ASSUME IInv, TypeOK', LaneQuiet, CtlQuiet
    PROVE  GenerationOwned'
  <1> SUFFICES ASSUME NEW c \in Controller, ctl'[c].pc \in Fenced
               PROVE  /\ ctl'[c].snap.gen <= lane'[ctl'[c].b].gen
                      /\ \A d \in Controller \ {c} :
                           ctl'[d].pc \in Fenced /\ ctl'[d].b = ctl'[c].b
                             => ctl'[d].snap.gen # ctl'[c].snap.gen
    BY DEF GenerationOwned, Fenced
  <1>1. /\ ctl[c].pc \in Fenced
        /\ ctl'[c].b = ctl[c].b
        /\ ctl'[c].snap.gen = ctl[c].snap.gen
        /\ ctl[c].b \in Body
    BY Known DEF CtlQuiet, PcOK, Fenced, Dispatching, Undoing
  <1>2. ctl'[c].snap.gen <= lane'[ctl'[c].b].gen
    BY <1>1 DEF IInv, GenerationOwned, LaneQuiet, Fenced
  <1>3. ASSUME NEW d \in Controller \ {c}, ctl'[d].pc \in Fenced, ctl'[d].b = ctl'[c].b
        PROVE  ctl'[d].snap.gen # ctl'[c].snap.gen
    BY <1>1, <1>3 DEF CtlQuiet, IInv, GenerationOwned, Fenced
  <1> QED BY <1>2, <1>3

LEMMA QuietStep ==
    ASSUME IInv, Good
    PROVE  IInv' /\ LaneStep
  <1>1. GenerationOwned'
    BY OwnedQuiet DEF Good, Quiet
  <1>2. LaunchPast'
    BY DEF IInv, Good, Quiet, LaunchQuiet, LaneQuiet, LaunchPast
  <1>3. ResumeExclusive'
    BY DEF IInv, Good, Quiet, LaunchQuiet, ResumeExclusive
  <1>4. LaneStep
    BY DEF Good, Quiet, LaneQuiet, LaneStep
  <1> QED BY <1>1, <1>2, <1>3, <1>4 DEF Good, IInv

\* The one step that makes a capability: the lane has reached its generation,
\* and no other capability wants its conversation.
LEMMA ReserveLaunchStep ==
    ASSUME IInv, NEW c \in Controller, ReserveLaunch(c)
    PROVE  IInv' /\ LaneStep
  <1> DEFINE b == ctl[c].b
             g == ctl[c].snap.gen
  <1>1. ctl[c].pc \in Fenced /\ {"write", "undoScript"} \subseteq Fenced
    BY DEF ReserveLaunch, At, Fenced, Dispatching, Undoing
  <1>2. b \in Body /\ g \in Gen
    BY <1>1, FencedKnown
  <1>3. CtlOK
    BY <1>1, FencedGoto DEF ReserveLaunch
  <1>4. LaneOK
    BY Known, LaneSame DEF ReserveLaunch
  <1>5. CASE ~Reservable(b, g)
    <2>1. launch' \in [Body -> [Gen -> Launch]] /\ LaunchQuiet
      BY <1>2, <1>5, Known, RevokedOK DEF ReserveLaunch, Reserve
    <2>2. Good
      BY <1>3, <1>4, <2>1, Known, StoreFrame DEF ReserveLaunch, StoreTypeOK
    <2> QED BY <2>2, QuietStep
  <1>6. CASE Reservable(b, g)
    <2> DEFINE r == [st |-> "reserved", by |-> NoKey]
               l == Revoked(b)
    <2>1. launch' = [l EXCEPT ![b][g] = r]
      BY <1>6 DEF ReserveLaunch, Reserve
    <2>2. NoLaunch \in Launch /\ NoLaunch.st = "none" /\ r \in Launch
      BY DEF NoLaunch, Launch
    <2>3. /\ l \in [Body -> [Gen -> Launch]]
          /\ \A d \in Body, h \in Gen : l[d][h].st # "none" => launch[d][h].st # "none"
      BY <1>2, <2>2, Known DEF StoreTypeOK, Revoked
    <2> HIDE DEF l, r
    <2>4. launch' \in [Body -> [Gen -> Launch]]
      BY <1>2, <2>1, <2>2, <2>3
    <2>5. ASSUME NEW d \in Body, NEW h \in Gen, launch'[d][h].st # "none"
          PROVE  \/ d = b /\ h = g
                 \/ l[d][h].st # "none" /\ launch[d][h].st # "none"
      BY <1>2, <2>1, <2>3, <2>5
    <2>6. TypeOK' /\ AgentKeyed'
      <3>1. ShellGood'
        BY Known, ShellSame DEF ReserveLaunch
      <3> QED
        BY <1>3, <1>4, <2>4, <3>1, Known
           DEF ReserveLaunch, ShellGood, TypeOK, StoreTypeOK, LaneOK, CtlOK
    <2>7. GenerationOwned'
      BY <1>3, <1>4, <2>6, OwnedQuiet DEF LaneOK, CtlOK
    <2>8. LaunchPast'
      <3>1. g <= lane[b].gen
        BY <1>1 DEF IInv, GenerationOwned, Fenced
      <3> QED BY <2>5, <3>1 DEF IInv, LaunchPast, ReserveLaunch
    <2>9. ResumeExclusive'
      <3>1. \A d \in Body, h \in Gen :
              plan[b][g].want # NoKey /\ l[d][h].st # "none"
                => plan[d][h].want # plan[b][g].want
        BY <1>6 DEF Reservable, ResumePending, l
      <3> QED BY <2>5, <3>1 DEF IInv, ResumeExclusive, ReserveLaunch
    <2>10. LaneStep
      BY DEF ReserveLaunch, LaneStep
    <2> QED BY <1>3, <1>4, <2>6, <2>7, <2>8, <2>9, <2>10 DEF IInv, CtlOK, LaneOK
  <1> QED BY <1>5, <1>6

\* The one step that takes a generation: nobody has reached it yet.
LEMMA DispatchStep ==
    ASSUME IInv, NEW c \in Controller, Dispatch(c)
    PROVE  IInv' /\ LaneStep
  <1> DEFINE b == ctl[c].b
             k == ctl[c].key
             g == lane[b].gen + 1
  <1>1. b \in Body /\ k \in Key \cup {NoKey} /\ lane[b] \in LaneRecord
    BY Known DEF Dispatch, At, PcOK, Control
  <1>2. CASE Finish(c) /\ UNCHANGED <<lane, plan>>
    <2>1. Good
      BY <1>2, Known, FinishOK, LaneSame, LaneFrame DEF Dispatch
    <2> QED BY <2>1, QuietStep
  <1>3. ASSUME lane[b].state \in Idle, lane[b].gen < MaxGen,
               NEW p \in Provider, Advance(b, p),
               plan' = [plan EXCEPT ![b][lane[b].gen + 1] = [prov |-> p, want |-> k]],
               ctl' = [ctl EXCEPT ![c] = [Ready EXCEPT !.pc = "reserve", !.b = b,
                                                       !.snap = lane'[b]]]
        PROVE  IInv' /\ LaneStep
    <2> DEFINE s == [state |-> IF lane[b].gen = 0 THEN "launch_reserved" ELSE "relaunching",
                     gen |-> g, prov |-> p, fg |-> ShellJob, key |-> NoKey]
               r == [Ready EXCEPT !.pc = "reserve", !.b = b, !.snap = s]
    <2>1. g \in Gen /\ lane[b].gen \in 0 .. MaxGen /\ g = lane[b].gen + 1
      BY <1>1, <1>3, GenAssumption DEF LaneRecord, Gen
    <2>2. lane' = [lane EXCEPT ![b] = s]
      BY <1>3 DEF Advance
    <2>3. s \in LaneRecord /\ s.state \in Starting /\ s.gen = g
      BY <2>1, GenAssumption
         DEF LaneRecord, LaneState, Admitted, Starting, Job, ShellJob, Gen
    <2> HIDE DEF s
    <2>4. lane'[b] = s /\ lane' \in [Body -> LaneRecord]
      BY <1>1, <2>2, <2>3, Known
    <2>5. \A d \in Body \ {b} : lane'[d] = lane[d]
      BY <2>2, Known
    <2>6. ctl' = [ctl EXCEPT ![c] = r]
      BY <1>3, <2>4
    <2>7. /\ r \in Control /\ r.pc = "reserve" /\ r.b = b /\ r.snap = s
          /\ r.ret = "ready"
      BY <1>1, <2>3, GenAssumption DEF Ready, Control, Step, Dispatching
    <2>8. PcOK(r)
      BY <1>1, <2>1, <2>3, <2>7
         DEF PcOK, Reached, Fenced, Dispatching, Undoing, Recovering, Admitted
    <2> HIDE DEF r
    <2>9. /\ ctl' \in [Controller -> Control] /\ PcInv'
          /\ ctl'[c] = r
          /\ \A d \in Controller \ {c} : ctl'[d] = ctl[d]
      BY <2>6, <2>7, <2>8, Known DEF PcInv
    <2>10. LaneGen'
      BY <2>1, <2>3, <2>4, <2>5, Known DEF LaneGen, Reached
    <2>11. plan' \in [Body -> [Gen -> Plan]]
      <3>1. [prov |-> p, want |-> k] \in Plan
        BY <1>1 DEF Plan
      <3> QED BY <1>1, <1>3, <2>1, <3>1, Known DEF StoreTypeOK
    <2>12. TypeOK' /\ AgentKeyed'
      <3>1. ShellGood'
        BY Known, ShellSame DEF Dispatch
      <3> QED
        BY <2>4, <2>9, <2>11, <3>1, Known DEF Dispatch, ShellGood, TypeOK, StoreTypeOK
    <2>13. GenerationOwned'
      <3>1. ASSUME NEW d \in Controller \ {c}, ctl[d].pc \in Fenced
            PROVE  /\ ctl[d].b \in Body
                   /\ ctl[d].snap.gen \in Gen
                   /\ ctl[d].snap.gen <= lane[ctl[d].b].gen
        BY <3>1, FencedKnown DEF IInv, GenerationOwned, Fenced
      <3>2. ASSUME NEW d \in Controller \ {c}, ctl[d].pc \in Fenced
            PROVE  /\ ctl[d].snap.gen <= lane'[ctl[d].b].gen
                   /\ ctl[d].b = b => ctl[d].snap.gen # g
        BY <2>1, <2>3, <2>4, <2>5, <3>1, <3>2 DEF Gen
      <3>3. ASSUME NEW d \in Controller \ {c}, NEW e \in Controller \ {c, d},
                   ctl[d].pc \in Fenced, ctl[e].pc \in Fenced, ctl[e].b = ctl[d].b
            PROVE  ctl[e].snap.gen # ctl[d].snap.gen
        BY <3>3 DEF IInv, GenerationOwned, Fenced
      <3>4. ASSUME NEW d \in Controller, ctl'[d].pc \in Fenced
            PROVE  /\ ctl'[d].snap.gen <= lane'[ctl'[d].b].gen
                   /\ \A e \in Controller \ {d} :
                        ctl'[e].pc \in Fenced /\ ctl'[e].b = ctl'[d].b
                          => ctl'[e].snap.gen # ctl'[d].snap.gen
        <4>1. CASE d = c
          BY <2>1, <2>3, <2>4, <2>7, <2>9, <3>2, <4>1 DEF Gen
        <4>2. CASE d # c
          BY <2>3, <2>7, <2>9, <3>2, <3>3, <3>4, <4>2
        <4> QED BY <4>1, <4>2
      <3> QED BY <3>4 DEF GenerationOwned, Fenced
    <2>14. \A d \in Body, h \in Gen : launch[d][h].st # "none" => ~(d = b /\ h = g)
      BY <2>1 DEF IInv, LaunchPast, Gen
    <2>15. LaunchPast'
      <3>1. \A d \in Body : lane[d].gen <= lane'[d].gen /\ lane[d].gen \in Nat
                                                       /\ lane'[d].gen \in Nat
        BY <2>1, <2>3, <2>4, <2>5, Known DEF LaneRecord
      <3> QED BY <3>1 DEF IInv, LaunchPast, Dispatch, Gen
    <2>16. ResumeExclusive'
      <3>1. \A d \in Body, h \in Gen :
              launch[d][h].st # "none" => plan'[d][h].want = plan[d][h].want
        BY <1>3, <2>14, Known DEF StoreTypeOK
      <3> QED BY <3>1, SMTT(30) DEF IInv, ResumeExclusive, Dispatch
    <2>17. LaneStep
      BY <1>3, <2>3, <2>4, <2>5 DEF LaneStep, Idle
    <2> QED BY <2>9, <2>10, <2>12, <2>13, <2>15, <2>16, <2>17 DEF IInv
  <1> QED BY <1>2, <1>3 DEF Dispatch

LEMMA InitInv ==
    Init => IInv
  <1> SUFFICES ASSUME Init PROVE IInv
    OBVIOUS
  <1>1. /\ StoreTypeOK
        /\ \A b \in Body, g \in Gen : launch[b][g].st = "none"
        /\ \A b \in Body : lane[b].state = "absent"
    <2>1. NoLane \in LaneRecord /\ NoLane.state = "absent"
      BY GenAssumption DEF NoLane, LaneRecord, LaneState, Job, ShellJob
    <2>2. NoPlan \in Plan /\ NoLaunch \in Launch /\ NoLaunch.st = "none"
      BY DEF NoPlan, NoLaunch, Plan, Launch
    <2>3. \A s \in {"none", "stopped"} :
             [state |-> s, body |-> NoBody, lost |-> FALSE] \in Record
      BY DEF Record
    <2>4. record \in [Key -> Record]
      BY <2>3 DEF Init, StoreInit
    <2> QED BY <2>1, <2>2, <2>4 DEF Init, StoreInit, StoreTypeOK
  <1>2. ShellTypeOK /\ AgentKeyed
    BY GenAssumption, UserAssumption
       DEF Init, ShellInit, ShellTypeOK, AgentKeyed, Job, ShellJob, Gen
  <1>3. /\ Ready \in Control /\ PcOK(Ready) /\ Ready.pc = "ready"
    <2>1. Ready \in Control /\ Reached(Ready.snap)
      BY GenAssumption DEF Ready, Control, Step, NoLane, LaneRecord, LaneState, Job,
                           ShellJob, Reached, Admitted, Starting
    <2> QED BY <2>1 DEF Ready, PcOK, Fenced, Dispatching, Undoing, Recovering
  <1>4. /\ ctl \in [Controller -> Control] /\ PcInv
        /\ \A c \in Controller : ctl[c].pc = "ready"
    BY <1>3 DEF Init, PcInv
  <1>5. crashes \in 0 .. MaxCrashes
    BY ControlAssumption DEF Init
  <1>6. LaneGen /\ GenerationOwned /\ LaunchPast /\ ResumeExclusive
    BY <1>1, <1>4 DEF LaneGen, Reached, Admitted, Starting, GenerationOwned, Dispatching,
                      Undoing, LaunchPast, ResumeExclusive
  <1> QED BY <1>1, <1>2, <1>4, <1>5, <1>6 DEF IInv, TypeOK

LEMMA NextInv ==
    IInv /\ [Next]_vars => IInv' /\ (LaneStep \/ UNCHANGED vars)
  <1> SUFFICES ASSUME IInv, [Next]_vars
               PROVE  IInv' /\ (LaneStep \/ UNCHANGED vars)
    OBVIOUS
  <1>1. ASSUME NEW c \in Controller, NEW b \in Body, Command(c, b) PROVE Good
    BY <1>1, CommandGood
  <1>2. ASSUME NEW c \in Controller, StartNew(c) PROVE Good
    BY <1>2, StartNewGood
  <1>3. ASSUME NEW c \in Controller, NEW k \in Key, Resume(c, k) PROVE Good
    BY <1>3, ResumeGood
  <1>4. ASSUME NEW c \in Controller, Settling(c) PROVE Good
    BY <1>4, ObserveDeadGood, ObserveAliveGood, ObserveNothingGood, RereadGood, LookGood,
       MarkGood, RecoverUnlinkGood, RecoverLookGood, RecoverRevokeGood, RecoverFinishGood,
       AfterSettleGood, SettleRecordGood DEF Settling
  <1>5. ASSUME NEW c \in Controller, Dispatchers(c) PROVE IInv' /\ LaneStep
    <2>1. CASE Dispatch(c)
      BY <2>1, DispatchStep
    <2>2. CASE ReserveLaunch(c)
      BY <2>2, ReserveLaunchStep
    <2>3. CASE Write(c) \/ Type(c) \/ Await(c) \/ Publish(c)
      BY <2>3, WriteGood, TypeGood, AwaitGood, PublishGood, QuietStep
    <2>4. CASE UndoScript(c) \/ UndoLaunch(c) \/ UndoLane(c)
      BY <2>4, UndoScriptGood, UndoLaunchGood, UndoLaneGood, QuietStep
    <2> QED BY <1>5, <2>1, <2>2, <2>3, <2>4 DEF Dispatchers
  <1>6. ASSUME NEW c \in Controller, Lifecycle(c) PROVE Good
    BY <1>6, KillGood, KilledGood, CloseGood, ClosedGood, CreateGood, BootGood, OpenGood,
       AbortGood, AbortLaneGood DEF Lifecycle
  <1>7. ASSUME NEW c \in Controller, Crash(c) PROVE Good
    BY <1>7, CrashGood
  <1>8. ASSUME NEW b \in Body, NEW g \in Gen,
               HookClaim(b, g) \/ HookRebind(b, g) \/ CapabilityExpires(b, g)
        PROVE  Good
    BY <1>8, HookClaimGood, HookRebindGood, CapabilityExpiresGood
  <1>9. ASSUME NEW b \in Body, World(b) PROVE Good
    BY <1>9, WorldGood
  <1>10. ASSUME NEW k \in Key, DestroyConversation(k) PROVE Good
    BY <1>10, DestroyConversationGood
  <1>11. CASE Next
    BY <1>11, <1>1, <1>2, <1>3, <1>4, <1>5, <1>6, <1>7, <1>8, <1>9, <1>10, QuietStep
       DEF Next, Continue
  <1>12. CASE UNCHANGED vars
    <2>1. UNCHANGED <<storeVars, shellVars, crashes>> /\ UNCHANGED ctl
      BY <1>12 DEF vars, storeVars, shellVars
    <2>2. CtlOK
      BY <2>1, CtlSame DEF IInv
    <2> QED BY <1>12, <2>1, <2>2, CtlFrame, QuietStep
  <1> QED BY <1>11, <1>12

THEOREM Invariance == Spec => []IInv
  BY InitInv, NextInv, PTL DEF Spec

\* The type invariant: every lane, capability, record, shell and controller
\* keeps the shape the code gives it, in every reachable state.
THEOREM TypeCorrect == Spec => []TypeOK
  <1>1. IInv => TypeOK
    BY DEF IInv
  <1> QED BY <1>1, Invariance, PTL

\* No two controllers dispatch the same generation, whatever crashes, stalls
\* and expiries do: the compare-and-swap of dispatch_provider_generation
\* suffices, no timing does.
THEOREM OneDispatcher == Spec => []GenerationOwned
  <1>1. IInv => GenerationOwned
    BY DEF IInv
  <1> QED BY <1>1, Invariance, PTL

\* At most one outstanding capability can bring back a conversation, in any
\* number of lanes (reserve_managed_launch).
THEOREM OneResume == Spec => []ResumeExclusive
  <1>1. IInv => ResumeExclusive
    BY DEF IInv
  <1> QED BY <1>1, Invariance, PTL

\* A generation only grows by one out of an idle state, and a destroyed lane
\* stays as it is.
THEOREM LanesOnlyAdvance == Spec => LaneHistory
  <1>1. IInv /\ [Next]_vars => [LaneStep]_vars
    BY NextInv
  <1> QED BY <1>1, Invariance, PTL DEF Spec, LaneHistory, LaneStep

----------------------------------------------------------------------------
(* Lanes without stalls and without people: what a controller still knows  *)
(* of a lane when it acts on what it read.                                  *)

\* No live dispatch goes stale, and nobody types into a lane's shell.
Calm == ~Stalls /\ MaxUserJobs = 0

Early   == {"absent", "provisional"}
Newborn == {"boot", "open", "abort", "abortLane"}

BirthKnown(c) ==
    LET r == ctl[c] IN
    /\ r.pc = "boot" => lane[r.b].state = "provisional" /\ body[r.b] = "none"
    /\ r.pc \in Newborn => lane[r.b].state # "absent"
    /\ r.pc \in {"closed", "abortLane"} => body[r.b] # "up"
    /\ r.b \in Body /\ r.snap.state \notin Early => lane[r.b].state \notin Early

\* A body is started once, by the controller that made its lane; nothing
\* runs in a body that is not up, and a destroyed lane's body is not.
Birth ==
    /\ \A b \in Body : fore[b] # ShellJob \/ typed[b] # {} => body[b] = "up"
    /\ \A b \in Body : lane[b].state = "destroyed" => body[b] # "up"
    /\ \A b \in Body : lane[b].state = "absent" => body[b] = "none"
    /\ \A c \in Controller : BirthKnown(c)
    /\ \A c, d \in Controller :
         ctl[c].pc \in Newborn /\ ctl[d].pc \in Newborn /\ ctl[c].b = ctl[d].b => c = d

\* A dispatch that has not typed its launcher yet.
Untyped == {"reserve", "write", "type"} \cup Undoing

Writing(b, g) ==
    \E c \in Controller : ctl[c].pc \in Untyped /\ ctl[c].b = b /\ ctl[c].snap.gen = g

\* The launcher of generation g is gone, for good.
Over(b, g) == g \notin script[b] /\ ~Writing(b, g)

Owned(s) == s.fg \in {ShellJob, s.gen}

LaneKnown(b) ==
    /\ fore[b] # UserJob
    /\ fore[b] \in Gen => lane[b].state \in Admitted /\ lane[b].gen = fore[b] /\ Over(b, fore[b])
    /\ \A g \in typed[b] : g <= lane[b].gen
    /\ \A g \in typed[b] \cap script[b] : lane[b].state \in Admitted /\ lane[b].gen = g
    /\ lane[b].state = "provider_running" => Over(b, lane[b].gen)
    /\ lane[b].state \in Starting => lane[b].key = NoKey
    /\ Owned(lane[b])
    /\ lane[b].state \in Admitted /\ lane[b].key # NoKey => akey[b][lane[b].gen] = lane[b].key

\* What controller c knows of the lane it read, whatever it does with it ...
SnapKnown(c) ==
    LET r == ctl[c] IN
    /\ r.b \in Body => r.snap.gen <= lane[r.b].gen
    /\ r.snap.state = "provider_running" => Owned(r.snap)

\* ... and what it relies on at the step it has come to.
StepKnown(c) ==
    LET r == ctl[c]
        b == ctl[c].b
        g == ctl[c].snap.gen IN
    /\ r.pc \in Untyped => /\ fore[b] # g /\ g \notin typed[b]
                           /\ lane[b].gen = g /\ lane[b].state \in {r.snap.state, "destroyed"}
    /\ r.pc = "publish" => (r.snap.fg = g /\ Over(b, g)) \/ g < lane[b].gen
    /\ r.pc \in Recovering => ~InDispatch(b, g)
    /\ r.pc \in {"recLook", "recRevoke", "recFinish", "killed"} => Over(b, g)
    /\ r.pc \in {"recRevoke", "recFinish", "killed"} => fore[b] # g
    /\ r.pc = "kill" => r.snap.fg = g

\* The agent of a lane is that of its generation, and only a dispatch that
\* still waits or a lane that is admitted has one.
Own == /\ \A b \in Body : LaneKnown(b)
       /\ \A c \in Controller : SnapKnown(c) /\ StepKnown(c)

----------------------------------------------------------------------------
(* What a move of a controller leaves of its snapshot                       *)

Alone(c) == \A d \in Controller \ {c} : ctl'[d] = ctl[d]

\* Controller c keeps its lane and snapshot (Await notes the job it saw),
\* reads its lane, or forgets it.
Snapped(c) ==
    \/ /\ ctl'[c].b = ctl[c].b
       /\ ctl'[c].snap.state = ctl[c].snap.state /\ ctl'[c].snap.gen = ctl[c].snap.gen
       /\ ctl'[c].snap.fg = ctl[c].snap.fg \/ ctl[c].snap.state \in Starting
    \/ ctl'[c].b \in Body /\ ctl'[c].snap = lane'[ctl'[c].b]
    \/ ctl'[c].snap = NoLane

Moves(c, pc) == Alone(c) /\ Snapped(c) /\ ctl'[c].pc = pc

\* Steps at which a controller relies on more than its snapshot.
Special == Fenced \cup Recovering \cup Newborn \cup {"kill", "killed", "closed"}

LEMMA FinishMoves ==
    ASSUME IInv, NEW c \in Controller, Finish(c) PROVE Moves(c, "ready")
  BY DEF IInv, TypeOK, Finish, Ready, Moves, Alone, Snapped

LEMMA GotoMoves ==
    ASSUME IInv, NEW c \in Controller, NEW pc, Goto(c, pc)
    PROVE  Moves(c, pc) /\ ctl'[c].b = ctl[c].b /\ ctl'[c].snap = ctl[c].snap
  <1>1. ctl[c] \in Control /\ ctl' = [ctl EXCEPT ![c] = [ctl[c] EXCEPT !.pc = pc]]
    BY DEF IInv, TypeOK, Goto
  <1>2. ctl'[c] = [ctl[c] EXCEPT !.pc = pc] /\ Alone(c)
    BY <1>1 DEF IInv, TypeOK, Alone
  <1>3. ctl'[c].pc = pc /\ ctl'[c].b = ctl[c].b /\ ctl'[c].snap = ctl[c].snap
    BY <1>1, <1>2 DEF Control
  <1>4. Snapped(c)
    BY <1>3 DEF Snapped
  <1> QED BY <1>2, <1>3, <1>4 DEF Moves

LEMMA GotoWithMoves ==
    ASSUME IInv, NEW c \in Controller, NEW pc, NEW s, GotoWith(c, pc, s),
           \/ ctl[c].b \in Body /\ s = lane'[ctl[c].b]
           \/ s = ctl[c].snap
    PROVE  Moves(c, pc) /\ ctl'[c].b = ctl[c].b /\ ctl'[c].snap = s
  <1>1. ctl[c] \in Control /\ ctl' = [ctl EXCEPT ![c] = [ctl[c] EXCEPT !.pc = pc, !.snap = s]]
    BY DEF IInv, TypeOK, GotoWith
  <1>2. ctl'[c] = [ctl[c] EXCEPT !.pc = pc, !.snap = s] /\ Alone(c)
    BY <1>1 DEF IInv, TypeOK, Alone
  <1>3. \A r \in Control : LET q == [r EXCEPT !.pc = pc, !.snap = s]
                         IN  q.pc = pc /\ q.b = r.b /\ q.snap = s
    BY DEF Control
  <1>4. Snapped(c)
    BY <1>1, <1>2, <1>3 DEF Snapped
  <1> QED BY <1>1, <1>2, <1>3, <1>4 DEF Moves

LEMMA AnewMoves ==
    ASSUME IInv, NEW c \in Controller, GoDispatch(c) \/ GoCreate(c)
    PROVE  Moves(c, "dispatch") \/ Moves(c, "create")
  BY DEF IInv, TypeOK, GoDispatch, GoCreate, Ready, Moves, Alone, Snapped

LEMMA ReturnMoves ==
    ASSUME IInv, NEW c \in Controller, Return(c)
    PROVE  Moves(c, "ready") \/ Moves(c, "dispatch") \/ Moves(c, "create") \/ Moves(c, "settled")
  <1>0. ctl[c] \in Control
    BY DEF IInv, TypeOK
  <1>1. CASE ctl[c].ret = "ready"
    BY <1>1, FinishMoves DEF Return
  <1>2. CASE ctl[c].ret = "dispatch"
    BY <1>2, AnewMoves DEF Return
  <1>3. CASE ctl[c].ret = "settled"
    <2>1. ctl' = [ctl EXCEPT ![c] = [ctl[c] EXCEPT !.pc = "settled", !.flag = FALSE]]
      <3>1. ctl' = [ctl EXCEPT ![c].pc = "settled", ![c].flag = FALSE]
        BY <1>3 DEF Return
      <3> QED BY <3>1
    <2>2. ctl'[c] = [ctl[c] EXCEPT !.pc = "settled", !.flag = FALSE] /\ Alone(c)
      BY <2>1 DEF IInv, TypeOK, Alone
    <2> QED BY <1>0, <2>2 DEF Control, Moves, Snapped
  <1>4. ctl[c].ret \in {"ready", "settled", "dispatch"}
    BY <1>0 DEF Control
  <1> QED BY <1>1, <1>2, <1>3, <1>4


LEMMA PlainMoves ==
    ASSUME IInv, NEW c \in Controller,
           \/ \E b \in Body : Command(c, b)
           \/ StartNew(c) \/ \E k \in Key : Resume(c, k)
           \/ ObserveNothing(c) \/ Reread(c) \/ Mark(c) \/ SettleRecord(c) \/ Crash(c)
    PROVE  /\ UNCHANGED <<lane, shellVars>>
           /\ \E pc \in Step \ Special : Moves(c, pc)
  <1>0. {"ready", "observe", "create", "settleRecord", "settled", "look", "mark", "dispatch"}
          \subseteq Step \ Special
    BY DEF Step, Special, Fenced, Recovering, Newborn, Dispatching, Undoing
  <1>1. ASSUME NEW b \in Body, Command(c, b) PROVE Moves(c, "observe") /\ UNCHANGED <<lane, shellVars>>
    BY <1>1 DEF IInv, TypeOK, Command, Ready, Moves, Alone, Snapped, storeVars
  <1>2. CASE StartNew(c)
    BY <1>0, <1>2, GotoMoves DEF StartNew, storeVars
  <1>3. ASSUME NEW k \in Key, Resume(c, k)
        PROVE  \/ Moves(c, "observe") \/ Moves(c, "settleRecord")
    <2> DEFINE b == record[k].body
    <2>1. b \in Body \cup {NoBody} /\ UNCHANGED lane
      BY <1>3, Known DEF StoreTypeOK, Record, Resume, storeVars
    <2>2. CASE b = NoBody
      <3>1. ctl' = [ctl EXCEPT ![c] = [Ready EXCEPT !.pc = "settleRecord", !.b = b, !.key = k,
                                                    !.snap = NoLane, !.ret = "settled"]]
        BY <1>3, <2>2 DEF Resume
      <3> QED BY <3>1 DEF IInv, TypeOK, Ready, Moves, Alone, Snapped
    <2>3. CASE b # NoBody
      <3>1. ctl' = [ctl EXCEPT ![c] = [Ready EXCEPT !.pc = "observe", !.b = b, !.key = k,
                                                    !.snap = lane[b], !.ret = "settled"]]
        BY <1>3, <2>3 DEF Resume
      <3> HIDE DEF b
      <3> QED BY <2>1, <2>3, <3>1 DEF IInv, TypeOK, Ready, Moves, Alone, Snapped
    <2> QED BY <2>2, <2>3
  <1>4. ASSUME NEW k \in Key, Resume(c, k) PROVE UNCHANGED <<lane, shellVars>>
    BY <1>4 DEF Resume, storeVars
  <1>5. CASE ObserveNothing(c)
    BY <1>0, <1>5, GotoMoves DEF ObserveNothing, storeVars
  <1>6. CASE Reread(c)
    <2>1. PICK pc \in {"look", "mark", "settled"} : GotoWith(c, pc, lane[ctl[c].b])
      BY <1>6 DEF Reread
    <2>2. ctl[c].b \in Body /\ UNCHANGED <<lane, shellVars>>
      BY <1>6, Known DEF Reread, At, PcOK, storeVars
    <2>3. lane[ctl[c].b] = lane'[ctl[c].b]
      BY <2>2
    <2>4. Moves(c, pc)
      BY <2>1, <2>2, <2>3, GotoWithMoves
    <2> QED BY <1>0, <2>2, <2>4
  <1>7. CASE Mark(c)
    BY <1>0, <1>7, ReturnMoves DEF Mark
  <1>8. CASE SettleRecord(c)
    <2>1. Finish(c) \/ GoDispatch(c) \/ GoCreate(c)
      BY <1>8 DEF SettleRecord
    <2> QED BY <1>0, <1>8, <2>1, FinishMoves, AnewMoves DEF SettleRecord
  <1>9. CASE Crash(c)
    BY <1>0, <1>9, FinishMoves DEF Crash, storeVars
  <1> QED BY <1>0, <1>1, <1>2, <1>3, <1>4, <1>5, <1>6, <1>7, <1>8, <1>9

----------------------------------------------------------------------------
(* How a lane is born                                                       *)

\* Every controller stays where it is, or moves to a step outside those.
Outside(steps) ==
    \A d \in Controller : ctl'[d] = ctl[d] \/ (Snapped(d) /\ ctl'[d].pc \notin steps)

\* A lane whose body is being started is left alone; none is made or revived,
\* and one is destroyed without its body.
LaneLater(b) ==
    \/ lane'[b].state = lane[b].state
    \/ /\ lane[b].state \notin Early \/ body[b] # "none"
       /\ lane'[b].state \notin Early
       /\ lane'[b].state = "destroyed" => body'[b] # "up"

\* No body is started, and nothing is started where none is.
BodyLater(b) ==
    /\ body'[b] = body[b] \/ (body[b] = "up" /\ Ended(b)')
    /\ fore'[b] # ShellJob \/ typed'[b] # {} => body'[b] = "up"

LEMMA BirthStays ==
    ASSUME IInv, Birth, Outside(Newborn \cup {"closed"}),
           \A b \in Body : LaneLater(b) /\ BodyLater(b)
    PROVE  Birth'
  <1>1. ASSUME NEW d \in Controller PROVE BirthKnown(d)'
    <2>1. CASE ctl'[d] = ctl[d]
      <3>1. ctl[d].pc \in Newborn \cup {"closed"} => ctl[d].b \in Body
        BY Known DEF PcOK, Newborn
      <3>2. ctl[d].pc = "abortLane" => ctl[d].pc \in Newborn
        BY DEF Newborn
      <3>3. ctl[d].pc = "boot" => ctl[d].pc \in Newborn
        BY DEF Newborn
      <3> QED BY <2>1, <3>1, <3>2, <3>3 DEF Birth, BirthKnown, LaneLater, BodyLater, Ended, Early
    <2>2. CASE Snapped(d) /\ ctl'[d].pc \notin Newborn \cup {"closed"}
      <3>1. ctl'[d].b \in Body /\ ctl'[d].snap.state \notin Early => lane'[ctl'[d].b].state \notin Early
        BY <2>2 DEF Snapped, Birth, BirthKnown, LaneLater, NoLane, Early
      <3> QED BY <2>2, <3>1 DEF BirthKnown, Newborn
    <2> QED BY <2>1, <2>2 DEF Outside
  <1>2. ASSUME NEW d \in Controller, NEW e \in Controller,
               ctl'[d].pc \in Newborn, ctl'[e].pc \in Newborn, ctl'[d].b = ctl'[e].b
        PROVE  d = e
    BY <1>2 DEF Outside, Birth
  <1>3. ASSUME NEW b \in Body
        PROVE  /\ fore'[b] # ShellJob \/ typed'[b] # {} => body'[b] = "up"
               /\ lane'[b].state = "destroyed" => body'[b] # "up"
               /\ lane'[b].state = "absent" => body'[b] = "none"
    BY DEF Birth, LaneLater, BodyLater, Ended, Early
  <1> QED BY <1>1, <1>2, <1>3 DEF Birth

LEMMA LaneIdles ==
    ASSUME Birth, NEW b \in Body, lane'[b] = lane[b] PROVE LaneLater(b)
  BY DEF LaneLater

LEMMA BodyIdles ==
    ASSUME Birth, UNCHANGED shellVars, NEW b \in Body PROVE BodyLater(b)
  BY DEF Birth, BodyLater, shellVars

LEMMA PlainBirth ==
    ASSUME IInv, Birth, NEW c \in Controller, NEW pc \in Step \ (Newborn \cup {"closed"}),
           Moves(c, pc), UNCHANGED <<lane, shellVars>>
    PROVE  Birth'
  BY LaneIdles, BodyIdles, BirthStays DEF Moves, Alone, Outside

\* A lane is made.
LEMMA CreateBirth ==
    ASSUME IInv, Birth, NEW c \in Controller, Create(c) PROVE Birth'
  <1>1. CASE Finish(c) /\ UNCHANGED lane
    <2>1. Moves(c, "ready") /\ UNCHANGED shellVars
      BY <1>1, FinishMoves DEF Create
    <2>2. "ready" \in Step \ (Newborn \cup {"closed"})
      BY DEF Step, Newborn
    <2> QED BY <1>1, <2>1, <2>2, PlainBirth
  <1>2. ASSUME NEW b \in Body, CreateLane(b),
               ctl' = [ctl EXCEPT ![c].pc = "boot", ![c].b = b, ![c].snap = lane'[b]]
        PROVE  Birth'
    <2>1. /\ Alone(c) /\ ctl'[c].pc = "boot" /\ ctl'[c].b = b /\ ctl'[c].snap = lane'[b]
      <3>1. \A r \in Control, s \in LaneRecord :
               LET q == [r EXCEPT !.pc = "boot", !.b = b, !.snap = s]
               IN  q.pc = "boot" /\ q.b = b /\ q.snap = s
        BY DEF Control
      <3>2. lane'[b] \in LaneRecord
        BY <1>2, Known, CreateLaneOK
      <3> DEFINE s == lane'[b]
      <3>3. ctl' = [ctl EXCEPT ![c] = [ctl[c] EXCEPT !.pc = "boot", !.b = b, !.snap = s]]
        BY <1>2, Known
      <3> HIDE DEF s
      <3>4. ctl'[c] = [ctl[c] EXCEPT !.pc = "boot", !.b = b, !.snap = s] /\ Alone(c)
        BY <3>3, Known DEF Alone
      <3> QED BY <3>1, <3>2, <3>4, Known DEF s
    <2>2. /\ lane[b].state = "absent" /\ lane'[b].state = "provisional"
          /\ \A d \in Body \ {b} : lane'[d] = lane[d]
      BY <1>2, Known DEF CreateLane, LaneRecord
    <2>3. body' = body /\ fore' = fore /\ typed' = typed
      BY DEF Create, shellVars
    <2>4. ASSUME NEW d \in Controller \ {c}, ctl[d].pc \in Newborn PROVE ctl[d].b # b
      BY <2>2, <2>4 DEF Birth, BirthKnown
    <2>5. ASSUME NEW d \in Controller \ {c} PROVE BirthKnown(d)'
      <3>1. ctl'[d] = ctl[d] /\ BirthKnown(d)
        BY <2>1 DEF Alone, Birth
      <3>2. ctl[d].pc \in Newborn => ctl[d].b \in Body /\ ctl[d].b # b
        BY <2>4, Known DEF PcOK, Newborn
      <3>3. ctl[d].b = b => ctl[d].snap.state \in Early
        BY <2>2, <3>1 DEF BirthKnown, Early
      <3> QED BY <2>2, <2>3, <3>1, <3>2, <3>3 DEF BirthKnown, Newborn
    <2>6. BirthKnown(c)'
      BY <2>1, <2>2, <2>3 DEF BirthKnown, Birth, Early, Newborn
    <2>7. \A d, e \in Controller :
            ctl'[d].pc \in Newborn /\ ctl'[e].pc \in Newborn /\ ctl'[d].b = ctl'[e].b => d = e
      BY <2>1, <2>4 DEF Alone, Birth
    <2> QED BY <2>2, <2>3, <2>5, <2>6, <2>7 DEF Birth
  <1> QED BY <1>1, <1>2 DEF Create

\* A controller on its way from the new lane to the dispatch or to the abort.
LEMMA NewbornBirth ==
    ASSUME IInv, Birth, NEW c \in Controller, ctl[c].pc \in Newborn,
           Alone(c), Snapped(c), ctl'[c].pc \in Newborn => ctl'[c].b = ctl[c].b,
           ctl'[c].pc \notin {"boot", "closed"},
           \A b \in Body \ {ctl[c].b} : lane'[b] = lane[b] /\ body'[b] = body[b]
                                        /\ fore'[b] = fore[b] /\ typed'[b] = typed[b],
           LET b == ctl[c].b IN
             /\ lane'[b].state = lane[b].state \/ lane'[b].state \notin Early
             /\ lane'[b].state = "destroyed" => body'[b] # "up"
             /\ fore'[b] # ShellJob \/ typed'[b] # {} => body'[b] = "up"
             /\ body'[b] # body[b] => body'[b] # "up" \/ lane[b].state = "provisional"
             /\ ctl'[c].pc = "abortLane" => body'[b] # "up"
    PROVE  Birth'
  <1> DEFINE b == ctl[c].b
  <1>1. b \in Body /\ lane[b].state # "absent"
    BY Known DEF PcOK, Newborn, Birth, BirthKnown
  <1>2. ASSUME NEW d \in Controller \ {c}, ctl[d].pc \in Newborn PROVE ctl[d].b # b
    BY <1>2 DEF Birth
  <1>3. ASSUME NEW d \in Controller \ {c} PROVE BirthKnown(d)'
    <2>1. ctl'[d] = ctl[d] /\ BirthKnown(d)
      BY DEF Alone, Birth
    <2>2. ctl[d].pc \in Newborn => ctl[d].b \in Body /\ ctl[d].b # b
      BY <1>2, Known DEF PcOK, Newborn
    <2>3. ctl[d].pc = "closed" => ctl[d].b \in Body /\ ctl[d].snap.state \notin Early
      BY Known DEF PcOK, Idle, Early
    <2>4. \A a \in Body : lane[a].state \notin Early => lane'[a].state \notin Early
      BY <1>1
    <2>5. ctl[d].pc = "closed" => body'[ctl[d].b] # "up"
      BY <1>1, <2>1, <2>3 DEF BirthKnown, Early
    <2> QED BY <2>1, <2>2, <2>4, <2>5 DEF BirthKnown, Newborn
  <1>4. BirthKnown(c)'
    <2>1. ctl'[c].pc \in Newborn => lane'[ctl'[c].b].state # "absent"
      BY <1>1 DEF Early
    <2>2. ctl'[c].b \in Body /\ ctl'[c].snap.state \notin Early => lane'[ctl'[c].b].state \notin Early
      BY <1>1 DEF Snapped, Birth, BirthKnown, NoLane, Early
    <2> QED BY <2>1, <2>2 DEF BirthKnown, Newborn
  <1>5. \A d, e \in Controller :
          ctl'[d].pc \in Newborn /\ ctl'[e].pc \in Newborn /\ ctl'[d].b = ctl'[e].b => d = e
    BY <1>2 DEF Alone, Birth
  <1>6. ASSUME NEW a \in Body
        PROVE  /\ fore'[a] # ShellJob \/ typed'[a] # {} => body'[a] = "up"
               /\ lane'[a].state = "destroyed" => body'[a] # "up"
               /\ lane'[a].state = "absent" => body'[a] = "none"
    BY <1>1 DEF Birth, Early
  <1> QED BY <1>3, <1>4, <1>5, <1>6 DEF Birth

----------------------------------------------------------------------------
(* What each step does, as far as Birth and Own can tell                    *)

\* Lane b alone changes: it leaves its generation, or runs it.
LaneRests(b, st) ==
    /\ \A d \in Body \ {b} : lane'[d] = lane[d]
    /\ lane'[b].state = st /\ lane'[b].gen = lane[b].gen /\ lane'[b].fg = ShellJob

LaneRuns(b, job, k) ==
    /\ \A d \in Body \ {b} : lane'[d] = lane[d]
    /\ lane[b].state \in Admitted
    /\ lane'[b].state = "provider_running" /\ lane'[b].gen = lane[b].gen
    /\ lane'[b].fg = job /\ lane'[b].key = k

LEMMA RestsOK ==
    ASSUME IInv, NEW b \in Body, NEW old, NEW st, NEW p, NEW k, Transition(b, old, st, p, k)
    PROVE  LaneRests(b, st) /\ lane[b].state = old
  BY DEF IInv, TypeOK, StoreTypeOK, Transition, LaneRests

LEMMA ExitRests ==
    ASSUME IInv, NEW b \in Body, NEW snap, NEW st, LaneExited(b, snap, st)
    PROVE  LaneRests(b, st) /\ Same(b, snap)
  BY RestsOK DEF LaneExited

LEMMA RunsOK ==
    ASSUME IInv, NEW b \in Body, NEW g, NEW job, RecordForeground(b, g, job)
    PROVE  LaneRuns(b, job, lane[b].key) /\ Current(b, g)
  BY DEF IInv, TypeOK, StoreTypeOK, LaneRecord, RecordForeground, Current, LaneRuns

LEMMA ObserveDeadMoves ==
    ASSUME IInv, NEW c \in Controller, ObserveDead(c)
    PROVE  LET b == ctl[c].b IN
           /\ b \in Body /\ Ended(b) /\ UNCHANGED shellVars
           /\ \/ LaneRests(b, "destroyed") /\ Same(b, ctl[c].snap) /\ Moves(c, "mark")
              \/ UNCHANGED lane /\ Moves(c, "settled")
  <1> DEFINE b == ctl[c].b
  <1>1. b \in Body /\ Ended(b) /\ UNCHANGED shellVars
    BY Known DEF ObserveDead, At, PcOK
  <1>2. CASE /\ LaneExited(b, ctl[c].snap, "destroyed")
             /\ ctl' = [ctl EXCEPT ![c].pc = "mark", ![c].snap = lane'[b], ![c].flag = TRUE]
    <2> DEFINE s == lane'[b]
    <2>1. ctl' = [ctl EXCEPT ![c] = [ctl[c] EXCEPT !.pc = "mark", !.snap = s, !.flag = TRUE]]
      BY <1>2, Known
    <2>2. \A r \in Control : \A t : LET q == [r EXCEPT !.pc = "mark", !.snap = t, !.flag = TRUE]
                             IN  q.pc = "mark" /\ q.b = r.b /\ q.snap = t
      BY DEF Control
    <2> HIDE DEF s
    <2>3. ctl'[c] = [ctl[c] EXCEPT !.pc = "mark", !.snap = s, !.flag = TRUE] /\ Alone(c)
      BY <2>1, Known DEF Alone
    <2>4. ctl'[c].pc = "mark" /\ ctl'[c].b = b /\ ctl'[c].snap = s
      BY <2>2, <2>3, Known
    <2>5. Snapped(c)
      BY <1>1, <2>4 DEF Snapped, s
    <2> QED BY <1>1, <1>2, <2>3, <2>4, <2>5, ExitRests DEF Moves
  <1>3. CASE GotoWith(c, "settled", lane[b]) /\ UNCHANGED lane
    <2>1. lane[b] = lane'[b]
      BY <1>3
    <2> QED BY <1>1, <1>3, <2>1, GotoWithMoves
  <1> QED BY <1>1, <1>2, <1>3 DEF ObserveDead

LEMMA LookMoves ==
    ASSUME IInv, NEW c \in Controller, Look(c)
    PROVE  LET b == ctl[c].b IN
           /\ b \in Body /\ UNCHANGED shellVars
           /\ \/ /\ LaneRests(b, "provider_exited") /\ lane[b].state = "provider_running"
                 /\ fore[b] = ShellJob /\ Moves(c, "mark")
              \/ UNCHANGED lane /\ Moves(c, "settled")
  <1> DEFINE b == ctl[c].b
             s == ctl[c].snap
  <1>1. b \in Body /\ UNCHANGED shellVars /\ s.state = "provider_running"
    BY Known DEF Look, At, PcOK
  <1>2. CASE fore[b] = ShellJob /\ LaneExited(b, s, "provider_exited") /\ GotoWith(c, "mark", lane'[b])
    BY <1>1, <1>2, ExitRests, GotoWithMoves DEF Same
  <1>3. CASE GotoWith(c, "settled", IF Same(b, s) THEN s ELSE lane[b]) /\ UNCHANGED lane
    <2>1. CASE Same(b, s)
      BY <1>1, <1>3, <2>1, GotoWithMoves
    <2>2. CASE ~Same(b, s)
      <3>1. GotoWith(c, "settled", lane[b]) /\ lane[b] = lane'[b]
        BY <1>3, <2>2
      <3> QED BY <1>1, <1>3, <3>1, GotoWithMoves
    <2> QED BY <2>1, <2>2
  <1> QED BY <1>1, <1>2, <1>3 DEF Look

\* done(s) of a recovery, and the end of one at RecoverLook.
LEMMA SettledMoves ==
    ASSUME IInv, NEW c \in Controller, ctl[c].b \in Body, NEW s, s = lane'[ctl[c].b],
           ctl' = [ctl EXCEPT ![c].pc = "settled", ![c].snap = s, ![c].flag = FALSE]
    PROVE  Moves(c, "settled")
  <1>1. \A r \in Control : \A t : LET q == [r EXCEPT !.pc = "settled", !.snap = t, !.flag = FALSE]
                             IN  q.pc = "settled" /\ q.b = r.b /\ q.snap = t
    BY DEF Control
  <1>2. ctl' = [ctl EXCEPT ![c] = [ctl[c] EXCEPT !.pc = "settled", !.snap = s, !.flag = FALSE]]
    BY Known
  <1>3. ctl'[c] = [ctl[c] EXCEPT !.pc = "settled", !.snap = s, !.flag = FALSE] /\ Alone(c)
    BY <1>2, Known DEF Alone
  <1>4. ctl'[c].pc = "settled" /\ ctl'[c].b = ctl[c].b /\ ctl'[c].snap = s
    BY <1>1, <1>3, Known
  <1> QED BY <1>3, <1>4 DEF Moves, Snapped

\* The steps at which a command that has nothing more to do ends up.
Settles(c) == \E pc \in {"ready", "settled", "dispatch", "create"} : Moves(c, pc)

LEMMA RecoverLookMoves ==
    ASSUME IInv, NEW c \in Controller, RecoverLook(c)
    PROVE  LET b == ctl[c].b IN
           /\ b \in Body /\ UNCHANGED shellVars
           /\ \/ /\ LaneRuns(b, fore[b], lane[b].key) /\ Current(b, ctl[c].snap.gen)
                 /\ fore[b] # ShellJob /\ Settles(c)
              \/ UNCHANGED lane /\ Settles(c)
              \/ /\ UNCHANGED lane /\ fore[b] = ShellJob
                 /\ Moves(c, "recRevoke") /\ ctl'[c].b = b /\ ctl'[c].snap = ctl[c].snap
  <1> DEFINE b == ctl[c].b
             g == ctl[c].snap.gen
  <1>1. b \in Body /\ UNCHANGED shellVars
    BY Known DEF RecoverLook, At, PcOK, Recovering
  <1>2. CASE /\ fore[b] # ShellJob /\ RecordForeground(b, g, fore[b])
             /\ IF ctl[c].ret = "ready" THEN Finish(c)
                ELSE ctl' = [ctl EXCEPT ![c].pc = "settled", ![c].snap = lane'[b], ![c].flag = FALSE]
    <2>1. Settles(c)
      BY <1>1, <1>2, FinishMoves, SettledMoves DEF Settles
    <2> QED BY <1>1, <1>2, <2>1, RunsOK
  <1>3. CASE Finish(c) /\ UNCHANGED lane
    BY <1>1, <1>3, FinishMoves DEF Settles
  <1>4. CASE fore[b] = ShellJob /\ Goto(c, "recRevoke") /\ UNCHANGED lane
    BY <1>1, <1>4, GotoMoves
  <1>5. CASE Return(c) /\ UNCHANGED lane
    BY <1>1, <1>5, ReturnMoves DEF Settles
  <1> QED BY <1>1, <1>2, <1>3, <1>4, <1>5 DEF RecoverLook

LEMMA RecoverFinishMoves ==
    ASSUME IInv, NEW c \in Controller, RecoverFinish(c)
    PROVE  LET b == ctl[c].b IN
           /\ b \in Body /\ UNCHANGED shellVars
           /\ \/ UNCHANGED lane /\ Settles(c)
              \/ /\ \E st \in Idle : LaneRests(b, st)
                 /\ Current(b, ctl[c].snap.gen) /\ (Settles(c) \/ Moves(c, "mark"))
  <1> DEFINE b == ctl[c].b
             g == ctl[c].snap.gen
  <1>1. b \in Body /\ UNCHANGED shellVars
    BY Known DEF RecoverFinish, At, PcOK, Recovering
  <1>2. ASSUME NEW s, s = lane'[b],
               IF ctl[c].ret = "ready" THEN Finish(c)
               ELSE ctl' = [ctl EXCEPT ![c].pc = "settled", ![c].snap = s, ![c].flag = FALSE]
        PROVE  Settles(c)
    BY <1>1, <1>2, FinishMoves, SettledMoves DEF Settles
  <1>3. CASE /\ UNCHANGED lane
             /\ IF ctl[c].ret = "ready" THEN Finish(c)
                ELSE ctl' = [ctl EXCEPT ![c].pc = "settled", ![c].snap = lane[b], ![c].flag = FALSE]
    <2>1. lane[b] = lane'[b]
      BY <1>3
    <2> QED BY <1>1, <1>2, <1>3, <2>1
  <1>4. CASE /\ Current(b, g)
             /\ Transition(b, lane[b].state, "shell_idle", NoProvider, NoKey)
             /\ IF ctl[c].ret = "ready" THEN Finish(c)
                ELSE ctl' = [ctl EXCEPT ![c].pc = "settled", ![c].snap = lane'[b], ![c].flag = FALSE]
    BY <1>1, <1>2, <1>4, RestsOK DEF Idle
  <1>5. CASE /\ Current(b, g)
             /\ LaneExited(b, lane[b], "provider_exited")
             /\ ctl' = [ctl EXCEPT ![c].pc = "mark", ![c].snap = lane'[b], ![c].flag = FALSE]
    <2> DEFINE s == lane'[b]
    <2>1. ctl' = [ctl EXCEPT ![c] = [ctl[c] EXCEPT !.pc = "mark", !.snap = s, !.flag = FALSE]]
      BY <1>5, Known
    <2>2. \A r \in Control : \A t : LET q == [r EXCEPT !.pc = "mark", !.snap = t, !.flag = FALSE]
                             IN  q.pc = "mark" /\ q.b = r.b /\ q.snap = t
      BY DEF Control
    <2> HIDE DEF s
    <2>3. ctl'[c] = [ctl[c] EXCEPT !.pc = "mark", !.snap = s, !.flag = FALSE] /\ Alone(c)
      BY <2>1, Known DEF Alone
    <2>4. ctl'[c].pc = "mark" /\ ctl'[c].b = b /\ ctl'[c].snap = s
      BY <2>2, <2>3, Known
    <2>5. Moves(c, "mark")
      BY <1>1, <2>3, <2>4 DEF Moves, Snapped, s
    <2> QED BY <1>1, <1>5, <2>5, ExitRests DEF Idle
  <1> QED BY <1>1, <1>3, <1>4, <1>5 DEF RecoverFinish

LEMMA AfterSettleMoves ==
    ASSUME IInv, NEW c \in Controller, AfterSettle(c)
    PROVE  /\ UNCHANGED <<lane, shellVars>>
           /\ \/ Settles(c) \/ Moves(c, "settleRecord")
              \/ /\ HasAgent(ctl[c].snap) /\ Moves(c, "kill")
                 /\ ctl'[c].b = ctl[c].b /\ ctl'[c].snap = ctl[c].snap
              \/ ctl[c].snap.state \in Idle /\ Moves(c, "close")
  <1>1. UNCHANGED <<lane, shellVars>>
    BY DEF AfterSettle, storeVars
  <1>2. \/ Goto(c, "settleRecord")
        \/ HasAgent(ctl[c].snap) /\ Goto(c, "kill")
        \/ GoDispatch(c)
        \/ GoCreate(c)
        \/ ctl[c].snap.state \in Idle /\ Goto(c, "close")
        \/ ctl' = [ctl EXCEPT ![c].pc = "settleRecord", ![c].key = ctl[c].snap.key]
        \/ Finish(c)
    BY DEF AfterSettle
  <1>3. ASSUME ctl' = [ctl EXCEPT ![c].pc = "settleRecord", ![c].key = ctl[c].snap.key]
        PROVE  Moves(c, "settleRecord")
    <2>1. ctl' = [ctl EXCEPT ![c] = [ctl[c] EXCEPT !.pc = "settleRecord", !.key = ctl[c].snap.key]]
      BY <1>3
    <2>2. /\ ctl'[c] = [ctl[c] EXCEPT !.pc = "settleRecord", !.key = ctl[c].snap.key]
          /\ Alone(c)
      BY <2>1 DEF IInv, TypeOK, Alone
    <2>3. ctl[c] \in Control
      BY DEF IInv, TypeOK
    <2> QED BY <2>2, <2>3 DEF Control, Moves, Snapped
  <1> QED BY <1>1, <1>2, <1>3, GotoMoves, AnewMoves, FinishMoves DEF Settles

LEMMA KillMoves ==
    ASSUME IInv, NEW c \in Controller, Kill(c)
    PROVE  LET b == ctl[c].b IN
           /\ b \in Body /\ UNCHANGED lane
           /\ \/ UNCHANGED shellVars /\ Settles(c)
              \/ /\ fore[b] = ctl[c].snap.fg /\ EndJob(b)
                 /\ Moves(c, "killed") /\ ctl'[c].b = b /\ ctl'[c].snap = ctl[c].snap
  <1>1. ctl[c].b \in Body /\ UNCHANGED lane
    BY Known DEF Kill, At, PcOK, storeVars
  <1> QED BY <1>1, GotoMoves, FinishMoves DEF Kill, Settles

LEMMA KilledMoves ==
    ASSUME IInv, NEW c \in Controller, Killed(c)
    PROVE  LET b == ctl[c].b IN
           /\ b \in Body /\ UNCHANGED shellVars
           /\ \/ UNCHANGED lane /\ Settles(c)
              \/ /\ LaneRests(b, "provider_exited") /\ Same(b, ctl[c].snap)
                 /\ lane[b].state = "provider_running" /\ Moves(c, "mark")
  <1> DEFINE b == ctl[c].b
  <1>1. b \in Body /\ UNCHANGED shellVars /\ ctl[c].snap.state = "provider_running"
    BY Known DEF Killed, At, PcOK
  <1>2. CASE Finish(c) /\ UNCHANGED lane
    BY <1>1, <1>2, FinishMoves DEF Settles
  <1>3. ASSUME LaneExited(b, ctl[c].snap, "provider_exited"), NEW ret,
               ctl' = [ctl EXCEPT ![c].pc = "mark", ![c].snap = lane'[b], ![c].ret = ret]
        PROVE  LaneRests(b, "provider_exited") /\ Same(b, ctl[c].snap) /\ Moves(c, "mark")
    <2> DEFINE s == lane'[b]
    <2>1. ctl' = [ctl EXCEPT ![c] = [ctl[c] EXCEPT !.pc = "mark", !.snap = s, !.ret = ret]]
      BY <1>3, Known
    <2>2. \A r \in Control : \A t : LET q == [r EXCEPT !.pc = "mark", !.snap = t, !.ret = ret]
                             IN  q.pc = "mark" /\ q.b = r.b /\ q.snap = t
      BY DEF Control
    <2> HIDE DEF s
    <2>3. ctl'[c] = [ctl[c] EXCEPT !.pc = "mark", !.snap = s, !.ret = ret] /\ Alone(c)
      BY <2>1, Known DEF Alone
    <2>4. ctl'[c].pc = "mark" /\ ctl'[c].b = b /\ ctl'[c].snap = s
      BY <2>2, <2>3, Known
    <2>5. Moves(c, "mark")
      BY <1>1, <2>3, <2>4 DEF Moves, Snapped, s
    <2> QED BY <1>1, <1>3, <2>5, ExitRests
  <1>4. CASE Same(b, ctl[c].snap)
    <2>1. LaneExited(b, ctl[c].snap, "provider_exited")
      BY <1>4 DEF Killed
    <2>2. PICK job \in Jobs \cap {"stop", "swap"} :
            ctl' = [ctl EXCEPT ![c].pc = "mark", ![c].snap = lane'[b],
                               ![c].ret = IF job = "swap" THEN "dispatch" ELSE "ready"]
      BY <1>4 DEF Killed
    <2> QED BY <1>1, <1>3, <1>4, <2>1, <2>2 DEF Same
  <1> QED BY <1>2, <1>4 DEF Killed

LEMMA CloseMoves ==
    ASSUME IInv, NEW c \in Controller, Close(c)
    PROVE  LET b == ctl[c].b IN
           /\ b \in Body /\ UNCHANGED lane /\ EndBody(b, "closed") /\ ctl[c].snap.state \in Idle
           /\ Moves(c, "closed") /\ ctl'[c].b = b /\ ctl'[c].snap = ctl[c].snap
  BY Known, GotoMoves DEF Close, At, PcOK, storeVars

LEMMA ClosedMoves ==
    ASSUME IInv, NEW c \in Controller, Closed(c)
    PROVE  LET b == ctl[c].b IN
           /\ b \in Body /\ UNCHANGED shellVars /\ Moves(c, "ready") /\ ctl[c].pc = "closed"
           /\ \/ UNCHANGED lane
              \/ LaneRests(b, "destroyed") /\ lane[b].state \in Idle
  BY Known, FinishMoves, ExitRests DEF Closed, At, PcOK, Same

LEMMA BootMoves ==
    ASSUME IInv, NEW c \in Controller, Boot(c)
    PROVE  LET b == ctl[c].b IN
           /\ b \in Body /\ UNCHANGED lane /\ ctl[c].pc = "boot"
           /\ Moves(c, "open") \/ Moves(c, "abort")
           /\ ctl'[c].b = b
           /\ BootBody(b) \/ UNCHANGED shellVars
  BY Known, GotoMoves DEF Boot, At, PcOK, storeVars

LEMMA OpenMoves ==
    ASSUME IInv, NEW c \in Controller, Open(c)
    PROVE  LET b == ctl[c].b IN
           /\ b \in Body /\ UNCHANGED shellVars /\ ctl[c].pc = "open"
           /\ \/ /\ LaneRests(b, "shell_idle") /\ lane[b].state = "provisional"
                 /\ (Moves(c, "dispatch") \/ Moves(c, "create"))
              \/ UNCHANGED lane /\ Moves(c, "abort") /\ ctl'[c].b = b
  BY Known, GotoMoves, AnewMoves, RestsOK DEF Open, At, PcOK

LEMMA AbortMoves ==
    ASSUME IInv, NEW c \in Controller, Abort(c)
    PROVE  LET b == ctl[c].b IN
           /\ b \in Body /\ UNCHANGED lane /\ EndBody(b, "closed") /\ ctl[c].pc = "abort"
           /\ Moves(c, "abortLane") /\ ctl'[c].b = b
  BY Known, GotoMoves DEF Abort, At, PcOK, storeVars

LEMMA AbortLaneMoves ==
    ASSUME IInv, NEW c \in Controller, AbortLane(c)
    PROVE  LET b == ctl[c].b IN
           /\ b \in Body /\ UNCHANGED shellVars /\ Moves(c, "ready") /\ ctl[c].pc = "abortLane"
           /\ \/ UNCHANGED lane
              \/ LaneRests(b, "destroyed") /\ lane[b].state = "provisional"
  BY Known, FinishMoves, RestsOK DEF AbortLane, At, PcOK

\* The steps of a dispatch after the compare-and-swap.
FencedMoves(c, pc) ==
    /\ Moves(c, pc) /\ ctl'[c].b = ctl[c].b
    /\ ctl'[c].snap.gen = ctl[c].snap.gen /\ ctl'[c].snap.state = ctl[c].snap.state

LEMMA FencedGoes ==
    ASSUME IInv, NEW c \in Controller, NEW pc, Goto(c, pc) PROVE FencedMoves(c, pc)
  BY GotoMoves DEF FencedMoves

LEMMA AwaitMoves ==
    ASSUME IInv, NEW c \in Controller, Await(c)
    PROVE  LET b == ctl[c].b IN
           /\ UNCHANGED <<lane, shellVars>> /\ b \in Body
           /\ \/ FencedMoves(c, "publish") /\ fore[b] # ShellJob /\ ctl'[c].snap.fg = fore[b]
              \/ FencedMoves(c, "recUnlink")
  <1> DEFINE b == ctl[c].b
             job == fore[b]
  <1>1. UNCHANGED <<lane, shellVars>> /\ b \in Body /\ ctl[c].snap.state \in Starting
    BY Known DEF Await, At, PcOK, storeVars, Fenced, Dispatching
  <1>2. CASE fore[b] # ShellJob /\ ctl' = [ctl EXCEPT ![c].pc = "publish", ![c].snap.fg = fore[b]]
    <2> DEFINE s == [ctl[c].snap EXCEPT !.fg = job]
    <2>1. ctl' = [ctl EXCEPT ![c] = [ctl[c] EXCEPT !.pc = "publish", !.snap = s]]
      BY <1>2, Known DEF Control
    <2>2. s.fg = job /\ s.gen = ctl[c].snap.gen /\ s.state = ctl[c].snap.state
      BY Known DEF LaneRecord
    <2>3. \A r \in Control : \A t : LET q == [r EXCEPT !.pc = "publish", !.snap = t]
                             IN  q.pc = "publish" /\ q.b = r.b /\ q.snap = t
      BY DEF Control
    <2> HIDE DEF job, s
    <2>4. /\ ctl'[c].pc = "publish" /\ ctl'[c].b = b /\ ctl'[c].snap = s
          /\ Alone(c)
      <3>1. ctl'[c] = [ctl[c] EXCEPT !.pc = "publish", !.snap = s] /\ Alone(c)
        BY <2>1, Known DEF Alone
      <3> QED BY <2>3, <3>1, Known
    <2>5. Moves(c, "publish")
      BY <1>1, <2>2, <2>4 DEF Moves, Snapped
    <2> QED BY <1>1, <1>2, <2>2, <2>4, <2>5 DEF FencedMoves, job
  <1>3. CASE Goto(c, "recUnlink")
    BY <1>1, <1>3, FencedGoes
  <1> QED BY <1>2, <1>3 DEF Await

LEMMA PublishMoves ==
    ASSUME IInv, NEW c \in Controller, Publish(c)
    PROVE  LET b == ctl[c].b IN
           /\ UNCHANGED shellVars /\ b \in Body
           /\ \/ /\ LaneRuns(b, ctl[c].snap.fg, lane[b].key) /\ Current(b, ctl[c].snap.gen)
                 /\ Moves(c, "ready")
              \/ UNCHANGED lane /\ FencedMoves(c, "recUnlink")
  BY Known, FencedGoes, FinishMoves, RunsOK DEF Publish, At, PcOK, Fenced, Dispatching

LEMMA UndoLaneMoves ==
    ASSUME IInv, NEW c \in Controller, UndoLane(c)
    PROVE  LET b == ctl[c].b IN
           /\ UNCHANGED shellVars /\ b \in Body /\ Moves(c, "ready")
           /\ \/ UNCHANGED lane
              \/ LaneRests(b, "shell_idle") /\ lane[b].state = ctl[c].snap.state
  BY Known, FinishMoves, RestsOK DEF UndoLane, At, PcOK, Fenced, Undoing

LEMMA DispatchMoves ==
    ASSUME IInv, NEW c \in Controller, Dispatch(c)
    PROVE  LET b == ctl[c].b IN
           /\ UNCHANGED shellVars /\ b \in Body
           /\ \/ UNCHANGED lane /\ Moves(c, "ready")
              \/ /\ lane[b].state \in Idle /\ lane[b].gen < MaxGen
                 /\ \A d \in Body \ {b} : lane'[d] = lane[d]
                 /\ lane'[b].state \in Starting /\ lane'[b].gen = lane[b].gen + 1
                 /\ lane'[b].fg = ShellJob /\ lane'[b].key = NoKey
                 /\ Moves(c, "reserve") /\ ctl'[c].b = b /\ ctl'[c].snap = lane'[b]
  <1> DEFINE b == ctl[c].b
  <1>1. UNCHANGED shellVars /\ b \in Body
    BY Known DEF Dispatch, At, PcOK
  <1>2. CASE Finish(c) /\ UNCHANGED lane
    BY <1>1, <1>2, FinishMoves
  <1>3. ASSUME lane[b].state \in Idle, lane[b].gen < MaxGen, NEW p \in Provider, Advance(b, p),
               ctl' = [ctl EXCEPT ![c] = [Ready EXCEPT !.pc = "reserve", !.b = b, !.snap = lane'[b]]]
        PROVE  /\ \A d \in Body \ {b} : lane'[d] = lane[d]
               /\ lane'[b].state \in Starting /\ lane'[b].gen = lane[b].gen + 1
               /\ lane'[b].fg = ShellJob /\ lane'[b].key = NoKey
               /\ Moves(c, "reserve") /\ ctl'[c].b = b /\ ctl'[c].snap = lane'[b]
    <2>1. /\ \A d \in Body \ {b} : lane'[d] = lane[d]
          /\ lane'[b].state \in Starting /\ lane'[b].gen = lane[b].gen + 1
          /\ lane'[b].fg = ShellJob /\ lane'[b].key = NoKey
      BY <1>1, <1>3, Known DEF Advance, Starting
    <2> DEFINE s == lane'[b]
    <2>2. ctl' = [ctl EXCEPT ![c] = [Ready EXCEPT !.pc = "reserve", !.b = b, !.snap = s]]
      BY <1>3
    <2> HIDE DEF s
    <2>3. Alone(c) /\ ctl'[c].pc = "reserve" /\ ctl'[c].b = b /\ ctl'[c].snap = s
      BY <2>2, Known DEF Alone, Ready
    <2> QED BY <1>1, <2>1, <2>3 DEF Moves, Snapped, s
  <1> QED BY <1>1, <1>2, <1>3 DEF Dispatch

LEMMA UnlinkMoves ==
    ASSUME IInv, NEW c \in Controller, NEW pc, NEW ran,
           ctl' = [ctl EXCEPT ![c].pc = pc, ![c].flag = ran]
    PROVE  Moves(c, pc) /\ ctl'[c].b = ctl[c].b /\ ctl'[c].snap = ctl[c].snap
  <1>1. \A r \in Control : LET q == [r EXCEPT !.pc = pc, !.flag = ran]
                           IN  q.pc = pc /\ q.b = r.b /\ q.snap = r.snap
    BY DEF Control
  <1>2. ctl' = [ctl EXCEPT ![c] = [ctl[c] EXCEPT !.pc = pc, !.flag = ran]]
    BY Known
  <1>3. ctl'[c] = [ctl[c] EXCEPT !.pc = pc, !.flag = ran] /\ Alone(c)
    BY <1>2, Known DEF Alone
  <1>4. ctl'[c].pc = pc /\ ctl'[c].b = ctl[c].b /\ ctl'[c].snap = ctl[c].snap
    BY <1>1, <1>3, Known
  <1>5. Snapped(c)
    BY <1>4 DEF Snapped
  <1> QED BY <1>3, <1>4, <1>5 DEF Moves

----------------------------------------------------------------------------
(* Every step keeps Birth                                                   *)

LEMMA ShellLater ==
    ASSUME IInv, Birth, NEW b \in Body, NEW g,
           \/ EndJob(b) \/ EndBody(b, "closed") \/ EndBody(b, "dead")
           \/ UnlinkScript(b, g) \/ WriteScript(b, g)
           \/ body[b] = "up" /\ TypeLine(b, g)
           \/ RunLauncher(b, g) \/ LoseLine(b, g) \/ UserStartsJob(b)
    PROVE  \A d \in Body : BodyLater(d)
  <1> USE DEF IInv, TypeOK, ShellTypeOK, Birth, BodyLater, Ended
  <1>1. CASE EndJob(b)
    BY <1>1 DEF EndJob
  <1>2. CASE EndBody(b, "closed") \/ EndBody(b, "dead")
    BY <1>2 DEF EndBody
  <1>3. CASE UnlinkScript(b, g) \/ WriteScript(b, g)
    BY <1>3 DEF UnlinkScript, WriteScript
  <1>4. CASE body[b] = "up" /\ TypeLine(b, g)
    BY <1>4 DEF TypeLine
  <1>5. CASE RunLauncher(b, g)
    BY <1>5 DEF RunLauncher
  <1>6. CASE LoseLine(b, g)
    BY <1>6 DEF LoseLine
  <1>7. CASE UserStartsJob(b)
    BY <1>7 DEF UserStartsJob
  <1> QED BY <1>1, <1>2, <1>3, <1>4, <1>5, <1>6, <1>7

\* A controller that moves on, among the old and the new.
LEMMA MovesBirth ==
    ASSUME IInv, Birth, NEW c \in Controller, NEW pc \in Step \ (Newborn \cup {"closed"}), Moves(c, pc),
           \A b \in Body : LaneLater(b) /\ BodyLater(b)
    PROVE  Birth'
  BY BirthStays DEF Moves, Alone, Outside

LEMMA StillBirth ==
    ASSUME IInv, Birth, UNCHANGED ctl, \A b \in Body : LaneLater(b) /\ BodyLater(b)
    PROVE  Birth'
  BY BirthStays DEF Outside

LEMMA RestsLater ==
    ASSUME IInv, Birth, NEW b \in Body, NEW st \in LaneState \ Early, LaneRests(b, st), UNCHANGED shellVars,
           lane[b].state \notin Early \/ body[b] # "none", st = "destroyed" => body[b] # "up"
    PROVE  \A d \in Body : LaneLater(d) /\ BodyLater(d)
  <1>1. \A d \in Body : LaneLater(d)
    BY DEF LaneRests, LaneLater, shellVars
  <1> QED BY <1>1, BodyIdles

LEMMA RunsLater ==
    ASSUME IInv, Birth, NEW b \in Body, NEW job, NEW k, LaneRuns(b, job, k), UNCHANGED shellVars
    PROVE  \A d \in Body : LaneLater(d) /\ BodyLater(d)
  <1>1. \A d \in Body : LaneLater(d)
    BY DEF LaneRuns, LaneLater, Early, Admitted, Starting
  <1> QED BY <1>1, BodyIdles

LEMMA SettlingBirth ==
    ASSUME IInv, Birth, NEW c \in Controller, Settling(c) PROVE Birth'
  <1> USE DEF Step, Newborn, Recovering
  <1>0. \A pc \in Step \ Special : pc \in Step \ (Newborn \cup {"closed"})
    BY DEF Special
  <1>1. CASE ObserveDead(c)
    <2>1. CASE UNCHANGED lane
      BY <1>1, <2>1, ObserveDeadMoves, PlainBirth, MovesBirth, RestsLater DEF LaneState, Early, Ended, Idle
    <2>2. CASE LaneRests(ctl[c].b, "destroyed") /\ Moves(c, "mark")
      <3>1. ctl[c].b \in Body /\ Ended(ctl[c].b) /\ UNCHANGED shellVars
        BY <1>1, ObserveDeadMoves
      <3>2. \A d \in Body : LaneLater(d) /\ BodyLater(d)
        BY <2>2, <3>1, RestsLater DEF LaneState, Early, Ended
      <3> QED BY <2>2, <3>2, MovesBirth
    <2> QED BY <1>1, <2>1, <2>2, ObserveDeadMoves
  <1>2. CASE ObserveAlive(c)
    <2>1. PICK pc \in {"recUnlink", "reread", "settled"} : Goto(c, pc)
      BY <1>2 DEF ObserveAlive
    <2>2. Moves(c, pc) /\ UNCHANGED <<lane, shellVars>>
      BY <1>2, <2>1, GotoMoves DEF ObserveAlive, storeVars
    <2> QED BY <2>2, PlainBirth
  <1>3. CASE ObserveNothing(c) \/ Reread(c) \/ Mark(c) \/ SettleRecord(c)
    BY <1>0, <1>3, PlainMoves, PlainBirth
  <1>4. CASE Look(c)
    <2>1. CASE UNCHANGED lane
      BY <1>4, <2>1, LookMoves, MovesBirth, LaneIdles, BodyIdles, PlainBirth
    <2>2. CASE LaneRests(ctl[c].b, "provider_exited") /\ Moves(c, "mark") /\ lane[ctl[c].b].state = "provider_running"
      <3>1. ctl[c].b \in Body /\ UNCHANGED shellVars
        BY <1>4, LookMoves
      <3>2. \A d \in Body : LaneLater(d) /\ BodyLater(d)
        BY <2>2, <3>1, RestsLater DEF LaneState, Early, Idle
      <3> QED BY <2>2, <3>2, MovesBirth
    <2> QED BY <1>4, <2>1, <2>2, LookMoves
  <1>5. CASE RecoverUnlink(c)
    <2>1. PICK pc \in {"recLook", "recRevoke"} :
            ctl' = [ctl EXCEPT ![c].pc = pc, ![c].flag = ctl[c].snap.gen \notin script[ctl[c].b]]
      BY <1>5 DEF RecoverUnlink
    <2>2. Moves(c, pc)
      BY <2>1, UnlinkMoves
    <2>3. ctl[c].b \in Body /\ UnlinkScript(ctl[c].b, ctl[c].snap.gen) /\ UNCHANGED lane
      BY <1>5, Known DEF RecoverUnlink, At, PcOK, storeVars
    <2>4. \A d \in Body : LaneLater(d) /\ BodyLater(d)
      BY <2>3, ShellLater, LaneIdles
    <2> QED BY <2>2, <2>4, MovesBirth
  <1>6. CASE RecoverLook(c)
    <2>1. CASE UNCHANGED lane
      BY <1>6, <2>1, RecoverLookMoves, PlainBirth DEF Settles
    <2>2. CASE LaneRuns(ctl[c].b, fore[ctl[c].b], lane[ctl[c].b].key) /\ Settles(c)
      <3>1. \A d \in Body : LaneLater(d) /\ BodyLater(d)
        BY <1>6, <2>2, RunsLater, RecoverLookMoves
      <3> QED BY <2>2, <3>1, MovesBirth DEF Settles
    <2> QED BY <1>6, <2>1, <2>2, RecoverLookMoves
  <1>7. CASE RecoverRevoke(c)
    BY <1>7, GotoMoves, PlainBirth DEF RecoverRevoke
  <1>8. CASE RecoverFinish(c)
    <2>1. CASE UNCHANGED lane /\ Settles(c)
      BY <1>8, <2>1, RecoverFinishMoves, PlainBirth DEF Settles
    <2>2. ASSUME NEW st \in Idle, LaneRests(ctl[c].b, st), Current(ctl[c].b, ctl[c].snap.gen)
          PROVE  \A d \in Body : LaneLater(d) /\ BodyLater(d)
      <3>1. ctl[c].b \in Body /\ UNCHANGED shellVars
        BY <1>8, RecoverFinishMoves
      <3> QED BY <2>2, <3>1, RestsLater DEF Current, LaneState, Early, Admitted, Starting, Idle
    <2> QED BY <1>8, <2>1, <2>2, RecoverFinishMoves, MovesBirth DEF Settles
  <1>9. CASE AfterSettle(c)
    BY <1>9, AfterSettleMoves, PlainBirth DEF Settles
  <1> QED BY <1>1, <1>2, <1>3, <1>4, <1>5, <1>6, <1>7, <1>8, <1>9 DEF Settling

LEMMA DispatchersBirth ==
    ASSUME IInv, Birth, NEW c \in Controller, Dispatchers(c) PROVE Birth'
  <1> USE DEF Step, Newborn, Dispatching, Undoing, Recovering
  <1> DEFINE b == ctl[c].b
  <1>1. CASE Dispatch(c)
    <2>1. CASE UNCHANGED lane /\ Moves(c, "ready")
      BY <1>1, <2>1, DispatchMoves, PlainBirth
    <2>2. CASE /\ lane[b].state \in Idle
               /\ \A d \in Body \ {b} : lane'[d] = lane[d]
               /\ lane'[b].state \in Starting
               /\ Moves(c, "reserve")
      <3>1. \A d \in Body : LaneLater(d)
        BY <2>2 DEF LaneLater, Idle, Starting, Early
      <3>2. \A d \in Body : BodyLater(d)
        BY <1>1, DispatchMoves, BodyIdles
      <3> QED BY <2>2, <3>1, <3>2, MovesBirth
    <2> QED BY <1>1, <2>1, <2>2, DispatchMoves
  <1>2. CASE ReserveLaunch(c)
    <2>1. PICK pc \in {"write", "undoScript"} : Goto(c, pc)
      BY <1>2 DEF ReserveLaunch
    <2> QED BY <1>2, <2>1, GotoMoves, PlainBirth DEF ReserveLaunch
  <1>3. CASE Write(c)
    <2>1. PICK pc \in {"type", "undoScript"} : Goto(c, pc)
      BY <1>3 DEF Write
    <2>2. UNCHANGED lane /\ b \in Body /\ (UNCHANGED shellVars \/ WriteScript(b, ctl[c].snap.gen))
      BY <1>3, Known DEF Write, storeVars, At, PcOK
    <2>3. \A d \in Body : LaneLater(d) /\ BodyLater(d)
      BY <2>2, LaneIdles, BodyIdles, ShellLater
    <2> QED BY <2>1, <2>3, GotoMoves, MovesBirth
  <1>4. CASE Type(c)
    <2>1. PICK pc \in {"await", "undoScript", "recUnlink"} : Goto(c, pc)
      BY <1>4 DEF Type
    <2>2. UNCHANGED lane /\ b \in Body
          /\ (UNCHANGED shellVars \/ (body[b] = "up" /\ TypeLine(b, ctl[c].snap.gen)))
      BY <1>4, Known DEF Type, storeVars, At, PcOK
    <2>3. \A d \in Body : LaneLater(d) /\ BodyLater(d)
      BY <2>2, LaneIdles, BodyIdles, ShellLater
    <2> QED BY <2>1, <2>3, GotoMoves, MovesBirth
  <1>5. CASE Await(c)
    BY <1>5, AwaitMoves, PlainBirth DEF FencedMoves
  <1>6. CASE Publish(c)
    <2>1. CASE UNCHANGED lane
      BY <1>6, <2>1, PublishMoves, PlainBirth DEF FencedMoves
    <2>2. CASE LaneRuns(b, ctl[c].snap.fg, lane[b].key) /\ Moves(c, "ready")
      <3>1. \A d \in Body : LaneLater(d) /\ BodyLater(d)
        BY <1>6, <2>2, RunsLater, PublishMoves
      <3> QED BY <2>2, <3>1, MovesBirth
    <2> QED BY <1>6, <2>1, <2>2, PublishMoves
  <1>7. CASE UndoScript(c)
    <2>1. UNCHANGED lane /\ b \in Body /\ UnlinkScript(b, ctl[c].snap.gen)
      BY <1>7, Known DEF UndoScript, storeVars, At, PcOK
    <2>2. \A d \in Body : LaneLater(d) /\ BodyLater(d)
      BY <2>1, LaneIdles, ShellLater
    <2> QED BY <1>7, <2>2, GotoMoves, MovesBirth DEF UndoScript
  <1>8. CASE UndoLaunch(c)
    BY <1>8, GotoMoves, PlainBirth DEF UndoLaunch
  <1>9. CASE UndoLane(c)
    <2>1. CASE UNCHANGED lane
      BY <1>9, <2>1, UndoLaneMoves, PlainBirth
    <2>2. CASE LaneRests(b, "shell_idle") /\ lane[b].state = ctl[c].snap.state
      <3>1. ctl[c].snap.state \in Starting
        BY <1>9, Known DEF UndoLane, At, PcOK, Fenced
      <3>2. \A d \in Body : LaneLater(d) /\ BodyLater(d)
        BY <1>9, <2>2, <3>1, RestsLater, UndoLaneMoves DEF LaneState, Early, Idle, Starting
      <3> QED BY <1>9, <3>2, UndoLaneMoves, MovesBirth
    <2> QED BY <1>9, <2>1, <2>2, UndoLaneMoves
  <1> QED BY <1>1, <1>2, <1>3, <1>4, <1>5, <1>6, <1>7, <1>8, <1>9 DEF Dispatchers

LEMMA LifecycleBirth ==
    ASSUME IInv, Birth, NEW c \in Controller, Lifecycle(c) PROVE Birth'
  <1> USE DEF Step, Newborn
  <1> DEFINE b == ctl[c].b
  <1>1. CASE Kill(c)
    <2>1. b \in Body /\ UNCHANGED lane /\ (UNCHANGED shellVars \/ EndJob(b))
          /\ (Settles(c) \/ Moves(c, "killed"))
      BY <1>1, KillMoves
    <2>2. \A d \in Body : LaneLater(d) /\ BodyLater(d)
      BY <2>1, LaneIdles, BodyIdles, ShellLater
    <2> QED BY <2>1, <2>2, MovesBirth DEF Settles
  <1>2. CASE Killed(c)
    <2>1. CASE UNCHANGED lane /\ Settles(c)
      BY <1>2, <2>1, KilledMoves, PlainBirth DEF Settles
    <2>2. CASE LaneRests(b, "provider_exited") /\ lane[b].state = "provider_running" /\ Moves(c, "mark")
      <3>1. \A d \in Body : LaneLater(d) /\ BodyLater(d)
        BY <1>2, <2>2, RestsLater, KilledMoves DEF LaneState, Early, Idle
      <3> QED BY <2>2, <3>1, MovesBirth
    <2> QED BY <1>2, <2>1, <2>2, KilledMoves
  <1>3. CASE Close(c)
    <2>1. /\ b \in Body /\ UNCHANGED lane /\ EndBody(b, "closed") /\ ctl[c].snap.state \in Idle
          /\ Moves(c, "closed") /\ ctl'[c].b = b /\ ctl'[c].snap = ctl[c].snap
      BY <1>3, CloseMoves
    <2>2. \A d \in Body : LaneLater(d) /\ BodyLater(d)
      BY <2>1, LaneIdles, ShellLater
    <2>3. body'[b] # "up"
      BY <2>1, Known DEF EndBody, ShellGood, ShellTypeOK
    <2>4. BirthKnown(c)'
      BY <2>1, <2>3 DEF BirthKnown, Birth, Moves
    <2>5. ASSUME NEW d \in Controller \ {c} PROVE BirthKnown(d)'
      <3>1. ctl'[d] = ctl[d] /\ lane' = lane
        BY <2>1 DEF Moves, Alone
      <3>2. ctl[d].pc \in Newborn \cup {"closed"} => ctl[d].b \in Body
        BY Known DEF PcOK
      <3> QED BY <2>2, <3>1, <3>2 DEF Birth, BirthKnown, BodyLater, Ended
    <2>6. \A d, e \in Controller :
            ctl'[d].pc \in Newborn /\ ctl'[e].pc \in Newborn /\ ctl'[d].b = ctl'[e].b => d = e
      BY <2>1 DEF Moves, Alone, Birth
    <2>7. ASSUME NEW a \in Body
          PROVE  /\ fore'[a] # ShellJob \/ typed'[a] # {} => body'[a] = "up"
                 /\ lane'[a].state = "destroyed" => body'[a] # "up"
                 /\ lane'[a].state = "absent" => body'[a] = "none"
      BY <2>1, <2>2 DEF Birth, BodyLater, Ended
    <2> QED BY <2>4, <2>5, <2>6, <2>7 DEF Birth
  <1>4. CASE Closed(c)
    <2>1. /\ b \in Body /\ UNCHANGED shellVars /\ Moves(c, "ready") /\ body[b] # "up"
          /\ UNCHANGED lane \/ (LaneRests(b, "destroyed") /\ lane[b].state \in Idle)
      BY <1>4, ClosedMoves DEF Birth, BirthKnown
    <2>2. CASE UNCHANGED lane
      BY <2>1, <2>2, PlainBirth
    <2>3. CASE LaneRests(b, "destroyed") /\ lane[b].state \in Idle
      <3>1. \A d \in Body : LaneLater(d) /\ BodyLater(d)
        BY <2>1, <2>3, RestsLater DEF LaneState, Early, Idle
      <3> QED BY <2>1, <3>1, MovesBirth
    <2> QED BY <2>1, <2>2, <2>3
  <1>5. CASE Create(c)
    BY <1>5, CreateBirth
  <1>6. CASE Boot(c)
    <2>1. /\ b \in Body /\ UNCHANGED lane /\ ctl[c].pc = "boot" /\ ctl'[c].b = b
          /\ Moves(c, "open") \/ Moves(c, "abort")
          /\ BootBody(b) \/ UNCHANGED shellVars
      BY <1>6, BootMoves
    <2>2. lane[b].state = "provisional" /\ body[b] = "none" /\ fore[b] = ShellJob /\ typed[b] = {}
      BY <2>1 DEF Birth, BirthKnown
    <2>3. /\ \A a \in Body \ {b} : body'[a] = body[a]
          /\ fore' = fore /\ typed' = typed
      BY <2>1, Known DEF BootBody, shellVars, ShellGood, ShellTypeOK
    <2> QED BY <2>1, <2>2, <2>3, NewbornBirth DEF Moves
  <1>7. CASE Open(c)
    <2>1. /\ b \in Body /\ UNCHANGED shellVars /\ ctl[c].pc = "open"
          /\ \/ /\ LaneRests(b, "shell_idle") /\ (Moves(c, "dispatch") \/ Moves(c, "create"))
             \/ UNCHANGED lane /\ Moves(c, "abort") /\ ctl'[c].b = b
      BY <1>7, OpenMoves
    <2>2. body' = body /\ fore' = fore /\ typed' = typed
      BY <2>1 DEF shellVars
    <2>3. /\ \A a \in Body \ {b} : lane'[a] = lane[a]
          /\ lane'[b].state = lane[b].state \/ lane'[b].state = "shell_idle"
      BY <2>1 DEF LaneRests
    <2>4. "shell_idle" \notin Early \cup {"destroyed"}
      BY DEF Early
    <2>5. lane'[b].state = "destroyed" => body[b] # "up"
      BY <2>1, <2>3 DEF Birth
    <2>6. fore[b] # ShellJob \/ typed[b] # {} => body[b] = "up"
      BY <2>1 DEF Birth
    <2> QED BY <2>1, <2>2, <2>3, <2>4, <2>5, <2>6, NewbornBirth DEF Moves
  <1>8. CASE Abort(c)
    <2>1. /\ b \in Body /\ UNCHANGED lane /\ EndBody(b, "closed") /\ ctl[c].pc = "abort"
          /\ Moves(c, "abortLane") /\ ctl'[c].b = b
      BY <1>8, AbortMoves
    <2>2. /\ body'[b] # "up" /\ fore'[b] = ShellJob /\ typed'[b] = {}
          /\ \A a \in Body \ {b} : body'[a] = body[a] /\ fore'[a] = fore[a] /\ typed'[a] = typed[a]
      BY <2>1, Known DEF EndBody, ShellGood, ShellTypeOK
    <2> QED BY <2>1, <2>2, NewbornBirth DEF Moves
  <1>9. CASE AbortLane(c)
    <2>1. /\ b \in Body /\ UNCHANGED shellVars /\ Moves(c, "ready") /\ ctl[c].pc = "abortLane"
          /\ UNCHANGED lane \/ LaneRests(b, "destroyed")
      BY <1>9, AbortLaneMoves
    <2>2. body' = body /\ fore' = fore /\ typed' = typed /\ body[b] # "up"
      BY <2>1 DEF shellVars, Birth, BirthKnown
    <2>3. /\ \A a \in Body \ {b} : lane'[a] = lane[a]
          /\ lane'[b].state = lane[b].state \/ lane'[b].state = "destroyed"
      BY <2>1 DEF LaneRests
    <2>4. "destroyed" \notin Early
      BY DEF Early
    <2>5. fore[b] # ShellJob \/ typed[b] # {} => body[b] = "up"
      BY <2>1 DEF Birth
    <2> QED BY <2>1, <2>2, <2>3, <2>4, <2>5, NewbornBirth DEF Moves
  <1> QED BY <1>1, <1>2, <1>3, <1>4, <1>5, <1>6, <1>7, <1>8, <1>9 DEF Lifecycle

\* A hook leaves its lane alone, or binds it.
LEMMA HookMoves ==
    ASSUME IInv, NEW b \in Body, NEW g \in Gen, HookClaim(b, g) \/ HookRebind(b, g)
    PROVE  /\ UNCHANGED <<ctl, shellVars>> /\ AgentUp(b, g)
           /\ \/ UNCHANGED lane
              \/ LaneRuns(b, lane[b].fg, akey[b][g])
  <1>1. UNCHANGED <<ctl, shellVars>> /\ AgentUp(b, g)
    BY DEF HookClaim, HookRebind
  <1>2. \/ UNCHANGED lane
        \/ Bindable(b, akey[b][g]) /\ lane' = Finalize(b, akey[b][g])
    BY DEF HookClaim, HookRebind, Claim, Rebind, Writes
  <1>3. ASSUME Bindable(b, akey[b][g]), lane' = Finalize(b, akey[b][g])
        PROVE  LaneRuns(b, lane[b].fg, akey[b][g])
    BY <1>3 DEF Bindable, Finalize, LaneRuns, IInv, TypeOK, StoreTypeOK, LaneRecord
  <1> QED BY <1>1, <1>2, <1>3

LEMMA BirthKept ==
    ASSUME IInv, Birth, [Next]_vars PROVE Birth'
  <1>1. ASSUME NEW c \in Controller,
               \/ \E b \in Body : Command(c, b)
               \/ StartNew(c) \/ \E k \in Key : Resume(c, k)
               \/ Crash(c)
        PROVE  Birth'
    <2>1. \A pc \in Step \ Special : pc \in Step \ (Newborn \cup {"closed"})
      BY DEF Special
    <2> QED BY <1>1, <2>1, PlainMoves, PlainBirth
  <1>2. ASSUME NEW c \in Controller, Continue(c) PROVE Birth'
    BY <1>2, SettlingBirth, DispatchersBirth, LifecycleBirth DEF Continue
  <1>3. ASSUME NEW b \in Body, NEW g \in Gen, HookClaim(b, g) \/ HookRebind(b, g) PROVE Birth'
    <2>1. \A d \in Body : LaneLater(d) /\ BodyLater(d)
      BY <1>3, HookMoves, RunsLater, LaneIdles, BodyIdles
    <2> QED BY <1>3, <2>1, HookMoves, StillBirth
  <1>4. ASSUME UNCHANGED <<lane, ctl, shellVars>> PROVE Birth'
    BY <1>4, StillBirth, LaneIdles, BodyIdles
  <1>5. ASSUME NEW b \in Body, NEW g \in Gen, CapabilityExpires(b, g) PROVE Birth'
    BY <1>4, <1>5 DEF CapabilityExpires
  <1>6. ASSUME NEW b \in Body, World(b) PROVE Birth'
    <2>1. \A d \in Body : BodyLater(d)
      BY <1>6, ShellLater DEF World, JobExits, BodyDies
    <2> QED BY <1>6, <2>1, StillBirth, LaneIdles DEF World, storeVars
  <1>7. ASSUME NEW k \in Key, DestroyConversation(k) PROVE Birth'
    BY <1>4, <1>7 DEF DestroyConversation
  <1>8. CASE UNCHANGED vars
    BY <1>4, <1>8 DEF vars, shellVars
  <1> QED BY <1>1, <1>2, <1>3, <1>5, <1>6, <1>7, <1>8 DEF Next

----------------------------------------------------------------------------
(* What a step may do without disturbing Own                                *)

\* Lane b leaves a generation that is over, and nobody is writing its launcher.
LaneLeaves(b) ==
    /\ lane'[b].gen = lane[b].gen /\ Owned(lane'[b])
    /\ lane'[b].state \notin Admitted
    /\ fore[b] \notin Gen
    /\ lane[b].gen \notin typed[b] \cap script[b]
    /\ lane'[b].state = "destroyed" \/ \A d \in Controller : ctl'[d].pc \in Untyped => ctl'[d].b # b

\* Lane b runs its generation, whose launcher is gone.
LaneGoes(b) ==
    /\ lane'[b].gen = lane[b].gen /\ lane'[b].state = "provider_running"
    /\ Owned(lane'[b]) /\ Over(b, lane[b].gen)
    /\ lane'[b].key # NoKey => akey[b][lane[b].gen] = lane'[b].key

LaneCalm == \A b \in Body : lane'[b] = lane[b] \/ LaneLeaves(b) \/ LaneGoes(b)

\* No agent starts, nothing is typed, and no launcher that was gone comes back.
ShellCalm == \A b \in Body :
    /\ fore'[b] = fore[b] \/ fore'[b] = ShellJob
    /\ typed'[b] \subseteq typed[b]
    /\ typed'[b] \cap script'[b] \subseteq typed[b] \cap script[b]
    /\ \A g \in 0 .. MaxGen : Over(b, g) => g \notin script'[b]
    /\ akey'[b] = akey[b]

\* No controller takes up a dispatch.
Dispatches(d) ==
    /\ ctl'[d].pc \in Fenced => /\ ctl[d].pc \in Fenced
                               /\ ctl'[d].b = ctl[d].b /\ ctl'[d].snap.gen = ctl[d].snap.gen
    /\ ctl'[d].pc \in Untyped => ctl[d].pc \in Untyped

CtlCalm == \A d \in Controller :
    ctl'[d] = ctl[d] \/ (Snapped(d) /\ Dispatches(d))

LEMMA Vocabulary ==
    /\ Untyped \subseteq Fenced
    /\ \A pc \in Untyped : pc \notin Recovering \cup {"await", "publish", "killed", "kill", "ready"}
    /\ \A pc \in Fenced : pc \notin Recovering \cup {"killed", "kill", "ready"}
    /\ ShellJob \notin Gen /\ UserJob \notin Gen
    /\ Starting \subseteq Admitted /\ Starting \cap {"provider_running", "destroyed"} = {}
  BY GenAssumption DEF Untyped, Fenced, Dispatching, Undoing, Recovering, ShellJob, UserJob, Gen,
                       Starting, Admitted

LEMMA OverStays ==
    ASSUME ShellCalm, CtlCalm, NEW b \in Body, NEW g \in 0 .. MaxGen, Over(b, g)
    PROVE  Over(b, g)'
  <1>1. g \notin script'[b]
    BY DEF ShellCalm
  <1>2. ASSUME NEW d \in Controller, ctl'[d].pc \in Untyped, ctl'[d].b = b, ctl'[d].snap.gen = g
        PROVE  FALSE
    <2>1. ctl[d].pc \in Untyped /\ ctl[d].b = b /\ ctl[d].snap.gen = g
      BY <1>2, Vocabulary DEF CtlCalm, Dispatches
    <2> QED BY <2>1 DEF Over, Writing
  <1> QED BY <1>1, <1>2 DEF Over, Writing

LEMMA FreeStays ==
    ASSUME CtlCalm, NEW b \in Body, NEW g \in 0 .. MaxGen, ~InDispatch(b, g)
    PROVE  ~InDispatch(b, g)'
  <1>1. ASSUME NEW d \in Controller, ctl'[d].pc \in Fenced, ctl'[d].b = b, ctl'[d].snap.gen = g
        PROVE  FALSE
    <2>1. ctl[d].pc \in Fenced /\ ctl[d].b = b /\ ctl[d].snap.gen = g
      BY <1>1 DEF CtlCalm, Dispatches
    <2> QED BY <2>1 DEF InDispatch, Fenced
  <1> QED BY <1>1 DEF InDispatch, Fenced

LEMMA LaneStays ==
    ASSUME IInv, IInv', Own, LaneCalm, ShellCalm, CtlCalm, NEW b \in Body
    PROVE  LaneKnown(b)' /\ lane'[b].gen = lane[b].gen
  <1>1. LaneKnown(b) /\ lane[b].gen \in 0 .. MaxGen /\ Gen \subseteq 0 .. MaxGen
    BY Known DEF Own, IInv, TypeOK, StoreTypeOK, LaneRecord, Gen
  <1>2. lane'[b].gen = lane[b].gen
    BY DEF LaneCalm, LaneLeaves, LaneGoes
  <1>3. /\ fore'[b] = fore[b] \/ fore'[b] = ShellJob
        /\ typed'[b] \subseteq typed[b]
        /\ typed'[b] \cap script'[b] \subseteq typed[b] \cap script[b]
        /\ akey'[b] = akey[b]
    BY DEF ShellCalm
  <1>4. \A g \in 0 .. MaxGen : Over(b, g) => Over(b, g)'
    BY OverStays
  <1>5. CASE lane'[b] = lane[b]
    <2>1. fore'[b] # UserJob /\ (fore'[b] \in Gen => fore'[b] = fore[b])
      BY <1>1, <1>3, Vocabulary, GenAssumption DEF LaneKnown, UserJob, ShellJob
    <2>2. fore'[b] \in Gen => lane'[b].state \in Admitted /\ lane'[b].gen = fore'[b] /\ Over(b, fore[b])'
      BY <1>1, <1>4, <1>5, <2>1 DEF LaneKnown
    <2>3. \A g \in typed'[b] : g <= lane'[b].gen
      BY <1>1, <1>3, <1>5 DEF LaneKnown
    <2>4. \A g \in typed'[b] \cap script'[b] : lane'[b].state \in Admitted /\ lane'[b].gen = g
      BY <1>1, <1>3, <1>5 DEF LaneKnown
    <2>5. lane'[b].state = "provider_running" => Over(b, lane[b].gen)'
      BY <1>1, <1>4, <1>5 DEF LaneKnown
    <2>6. /\ lane'[b].state \in Starting => lane'[b].key = NoKey
          /\ Owned(lane'[b])
          /\ lane'[b].state \in Admitted /\ lane'[b].key # NoKey => akey'[b][lane'[b].gen] = lane'[b].key
      BY <1>1, <1>3, <1>5 DEF LaneKnown
    <2> QED BY <1>5, <2>1, <2>2, <2>3, <2>4, <2>5, <2>6 DEF LaneKnown, Over, Writing, Owned
  <1>6. CASE LaneLeaves(b)
    <2>1. fore'[b] \notin Gen /\ fore'[b] # UserJob
      BY <1>1, <1>3, <1>6, Vocabulary, GenAssumption DEF LaneLeaves, LaneKnown, UserJob, ShellJob
    <2>2. \A g \in typed'[b] : g <= lane'[b].gen
      BY <1>1, <1>2, <1>3 DEF LaneKnown
    <2>3. typed'[b] \cap script'[b] = {}
      BY <1>1, <1>3, <1>6 DEF LaneKnown, LaneLeaves
    <2>4. lane'[b].state \notin Admitted /\ Owned(lane'[b])
      BY <1>6 DEF LaneLeaves
    <2> QED BY <1>2, <2>1, <2>2, <2>3, <2>4, Vocabulary DEF LaneKnown, Admitted, Owned
  <1>7. CASE LaneGoes(b)
    <2>1. fore'[b] # UserJob /\ (fore'[b] \in Gen => fore'[b] = fore[b])
      BY <1>1, <1>3, Vocabulary, GenAssumption DEF LaneKnown, UserJob, ShellJob
    <2>2. lane'[b].state \in Admitted /\ lane'[b].state \notin Starting
      BY <1>7, Vocabulary DEF LaneGoes, Admitted
    <2>3. fore'[b] \in Gen => lane'[b].gen = fore'[b] /\ Over(b, fore[b])'
      BY <1>1, <1>2, <1>4, <2>1 DEF LaneKnown
    <2>4. \A g \in typed'[b] : g <= lane'[b].gen
      BY <1>1, <1>2, <1>3 DEF LaneKnown
    <2>5. \A g \in typed'[b] \cap script'[b] : lane'[b].gen = g
      BY <1>1, <1>2, <1>3 DEF LaneKnown
    <2>6. Over(b, lane[b].gen)' /\ Owned(lane'[b])
      BY <1>1, <1>4, <1>7 DEF LaneGoes
    <2>7. lane'[b].key # NoKey => akey'[b][lane'[b].gen] = lane'[b].key
      BY <1>2, <1>3, <1>7 DEF LaneGoes
    <2> QED BY <1>2, <2>1, <2>2, <2>3, <2>4, <2>5, <2>6, <2>7 DEF LaneKnown, Over, Writing, Owned
  <1> QED BY <1>2, <1>5, <1>6, <1>7 DEF LaneCalm

LEMMA DispatcherKnown ==
    ASSUME IInv, NEW d \in Controller, ctl[d].pc \in Fenced
    PROVE  ctl[d].b \in Body /\ ctl[d].snap.gen \in Gen /\ ctl[d].snap.state \in Starting
  BY Known DEF PcOK, Reached, Admitted, Fenced, Dispatching, Undoing

\* A controller that stays where it is still knows what it knew.
LEMMA StepStays ==
    ASSUME IInv, IInv', Own, LaneCalm, ShellCalm, CtlCalm, NEW d \in Controller, ctl'[d] = ctl[d]
    PROVE  StepKnown(d)'
  <1> DEFINE b == ctl[d].b
             g == ctl[d].snap.gen
             pc == ctl[d].pc
  <1>1. StepKnown(d) /\ g \in 0 .. MaxGen
    BY Known DEF Own, LaneRecord
  <1>2. CASE pc \in Untyped
    <2>1. /\ fore[b] # g /\ g \notin typed[b]
          /\ lane[b].gen = g /\ lane[b].state \in {ctl[d].snap.state, "destroyed"}
      BY <1>1, <1>2 DEF StepKnown
    <2>2. b \in Body /\ g \in Gen /\ g # ShellJob
      BY <1>2, DispatcherKnown, Vocabulary
    <2>3. fore'[b] # g /\ g \notin typed'[b]
      BY <2>1, <2>2 DEF ShellCalm
    <2>4. lane'[b].gen = g
      BY <2>1, <2>2 DEF LaneCalm, LaneLeaves, LaneGoes
    <2>5. ~LaneGoes(b)
      BY <1>2, <2>1 DEF LaneGoes, Over, Writing
    <2>6. lane'[b].state \in {ctl[d].snap.state, "destroyed"}
      BY <1>2, <2>1, <2>2, <2>5 DEF LaneCalm, LaneLeaves
    <2>7. pc \notin Recovering \cup {"publish", "kill", "killed"}
      BY <1>2, Vocabulary
    <2> QED BY <2>3, <2>4, <2>6, <2>7 DEF StepKnown, Recovering
  <1>3. CASE pc = "publish"
    <2>1. b \in Body /\ pc \notin Untyped \cup Recovering
      BY <1>3, Known, Vocabulary DEF PcOK, Untyped, Undoing, Recovering
    <2>2. lane'[b].gen = lane[b].gen
      BY <2>1 DEF LaneCalm, LaneLeaves, LaneGoes
    <2>3. (ctl[d].snap.fg = g /\ Over(b, g)) \/ g < lane[b].gen
      BY <1>1, <1>3 DEF StepKnown
    <2>4. \A h \in Body : h = b => (Over(h, g) => Over(h, g)')
      BY <1>1, OverStays
    <2> QED BY <1>3, <2>1, <2>2, <2>3, <2>4 DEF StepKnown, Over, Writing
  <1>4. CASE pc \in Recovering \cup {"killed"}
    <2>1. b \in Body /\ g # ShellJob /\ pc \notin Untyped \cup {"publish", "kill"}
      <3>1. b \in Body /\ ctl[d].snap.state \in Admitted
        BY <1>4, Known DEF PcOK, Recovering, Admitted
      <3>2. g # ShellJob
        BY <3>1, Known, Vocabulary DEF PcOK, Reached
      <3> QED BY <1>4, <3>1, <3>2 DEF Recovering, Untyped, Undoing
    <2>2. pc \in Recovering => ~InDispatch(b, g)
      BY <1>1 DEF StepKnown
    <2>3. pc \in Recovering => \A h \in Body : h = b => ~InDispatch(h, g)'
      BY <1>1, <2>2, FreeStays
    <2>4. pc \in {"recLook", "recRevoke", "recFinish", "killed"} => Over(b, g)
      BY <1>1 DEF StepKnown
    <2>5. \A h \in Body : h = b => (Over(h, g) => Over(h, g)')
      BY <1>1, OverStays
    <2>6. pc \in {"recRevoke", "recFinish", "killed"} => fore'[b] # g
      BY <1>1, <2>1 DEF StepKnown, ShellCalm
    <2> QED BY <1>4, <2>1, <2>3, <2>4, <2>5, <2>6 DEF StepKnown, Over, Writing, InDispatch
  <1>5. CASE pc \notin Untyped \cup Recovering \cup {"publish", "killed"}
    BY <1>1, <1>5 DEF StepKnown, Recovering
  <1> QED BY <1>2, <1>3, <1>4, <1>5

LEMMA SnapStays ==
    ASSUME IInv, IInv', Own, NEW d \in Controller, ctl'[d] = ctl[d] \/ Snapped(d),
           \A b \in Body : lane[b].gen <= lane'[b].gen /\ Owned(lane'[b])
    PROVE  SnapKnown(d)'
  <1>1. SnapKnown(d) /\ ctl[d].snap \in LaneRecord
    BY Known DEF Own
  <1>2. \A b \in Body : lane[b].gen \in Nat /\ lane'[b].gen \in Nat
    BY GenAssumption DEF IInv, TypeOK, StoreTypeOK, LaneRecord
  <1>3. CASE ctl'[d] = ctl[d]
    BY <1>1, <1>2, <1>3 DEF SnapKnown, Owned, LaneRecord
  <1>4. CASE /\ ctl'[d].b = ctl[d].b
             /\ ctl'[d].snap.state = ctl[d].snap.state /\ ctl'[d].snap.gen = ctl[d].snap.gen
             /\ ctl'[d].snap.fg = ctl[d].snap.fg \/ ctl[d].snap.state \in Starting
    BY <1>1, <1>2, <1>4, Vocabulary DEF SnapKnown, Owned, LaneRecord
  <1>5. CASE ctl'[d].b \in Body /\ ctl'[d].snap = lane'[ctl'[d].b]
    BY <1>2, <1>5 DEF SnapKnown, Owned
  <1>6. CASE ctl'[d].snap = NoLane
    BY <1>2, <1>6 DEF SnapKnown, NoLane
  <1> QED BY <1>3, <1>4, <1>5, <1>6 DEF Snapped

LEMMA OwnStays ==
    ASSUME IInv, IInv', Own, LaneCalm, ShellCalm, CtlCalm,
           \A d \in Controller : ctl'[d] = ctl[d] \/ StepKnown(d)'
    PROVE  Own'
  <1>1. \A b \in Body : LaneKnown(b)' /\ lane'[b].gen = lane[b].gen
    BY LaneStays
  <1>2. \A b \in Body : lane[b].gen <= lane'[b].gen /\ Owned(lane'[b])
    BY <1>1, GenAssumption DEF LaneKnown, IInv, TypeOK, StoreTypeOK, LaneRecord
  <1>3. \A d \in Controller : SnapKnown(d)' /\ StepKnown(d)'
    BY <1>2, SnapStays, StepStays DEF CtlCalm
  <1> QED BY <1>1, <1>3 DEF Own

----------------------------------------------------------------------------
(* The moves again, as far as Own can tell                                  *)

\* Steps at which a controller relies on nothing but its snapshot.
Careless == Step \ (Fenced \cup Recovering \cup {"kill", "killed"})

LEMMA MovesCalm ==
    ASSUME NEW c \in Controller, NEW pc, Moves(c, pc), pc \notin Fenced PROVE CtlCalm
  BY Vocabulary DEF Moves, Alone, CtlCalm, Dispatches

LEMMA FencedCalm ==
    ASSUME NEW c \in Controller, NEW pc, FencedMoves(c, pc), ctl[c].pc \in Fenced,
           pc \in Untyped => ctl[c].pc \in Untyped
    PROVE  CtlCalm
  BY DEF FencedMoves, Moves, Alone, CtlCalm, Dispatches

LEMMA LaneSettled ==
    ASSUME UNCHANGED lane PROVE LaneCalm
  BY DEF LaneCalm

LEMMA ShellSettled ==
    ASSUME UNCHANGED shellVars PROVE ShellCalm
  BY DEF ShellCalm, shellVars, Over

\* A controller that moves to a step where it relies on its snapshot alone.
LEMMA CarelessOwn ==
    ASSUME IInv, IInv', Own, LaneCalm, ShellCalm, NEW c \in Controller, NEW pc \in Careless, Moves(c, pc)
    PROVE  Own'
  <1>1. CtlCalm
    BY MovesCalm DEF Careless
  <1>2. StepKnown(c)'
    <2>1. pc \notin Untyped \cup Recovering \cup {"publish", "kill", "killed"}
      BY Vocabulary DEF Careless, Fenced, Dispatching
    <2>2. ctl'[c].pc = pc
      BY DEF Moves
    <2> QED BY <2>1, <2>2 DEF StepKnown, Recovering
  <1>3. \A d \in Controller \ {c} : ctl'[d] = ctl[d]
    BY DEF Moves, Alone
  <1> QED BY <1>1, <1>2, <1>3, OwnStays

LEMMA StillOwn ==
    ASSUME IInv, IInv', Own, LaneCalm, ShellCalm, UNCHANGED ctl PROVE Own'
  BY OwnStays DEF CtlCalm

\* The controllers writing a launcher of lane b after this step.
NobodyWrites(b) == \A d \in Controller : ctl'[d].pc \in Untyped => ctl'[d].b # b

LEMMA NoneWriting ==
    ASSUME IInv, Own, CtlCalm, NEW b \in Body,
           lane[b].state \notin Starting \cup {"destroyed"} \/ Over(b, lane[b].gen)
    PROVE  NobodyWrites(b)
  <1> SUFFICES ASSUME NEW d \in Controller, ctl'[d].pc \in Untyped, ctl'[d].b = b PROVE FALSE
    BY DEF NobodyWrites
  <1>1. ctl[d].pc \in Untyped /\ ctl[d].b = b
    BY Vocabulary DEF CtlCalm, Dispatches
  <1>2. lane[b].gen = ctl[d].snap.gen /\ lane[b].state \in {ctl[d].snap.state, "destroyed"}
    BY <1>1 DEF Own, StepKnown
  <1>3. ctl[d].snap.state \in Starting
    BY <1>1, DispatcherKnown, Vocabulary
  <1>4. ~Over(b, lane[b].gen)
    BY <1>1, <1>2 DEF Over, Writing
  <1> QED BY <1>2, <1>3, <1>4

\* A lane whose generation is not its foreground job has no agent there.
LEMMA NoAgent ==
    ASSUME Own, NEW b \in Body, lane[b].state \notin Admitted \/ fore[b] # lane[b].gen
    PROVE  fore[b] \notin Gen
  BY DEF Own, LaneKnown

LEMMA NotReady ==
    ASSUME Own, NEW b \in Body, lane[b].state \notin Admitted PROVE typed[b] \cap script[b] = {}
  BY DEF Own, LaneKnown

LEMMA RestsCalm ==
    ASSUME IInv, Own, NEW b \in Body, NEW st, LaneRests(b, st), st \notin Admitted,
           fore[b] \notin Gen, lane[b].gen \notin typed[b] \cap script[b],
           st = "destroyed" \/ NobodyWrites(b)
    PROVE  LaneCalm
  <1>1. LaneLeaves(b)
    BY DEF LaneRests, LaneLeaves, NobodyWrites, Owned
  <1> QED BY <1>1 DEF LaneCalm, LaneRests

\* A lane at rest, or whose launcher is gone and whose agent is not there.
LEMMA LeavesCalm ==
    ASSUME IInv, Own, CtlCalm, NEW b \in Body, NEW st \in {"destroyed"} \cup Idle, LaneRests(b, st),
           \/ lane[b].state \notin Admitted \cup {"destroyed"}
           \/ Over(b, lane[b].gen) /\ fore[b] # lane[b].gen
    PROVE  LaneCalm
  <1>1. fore[b] \notin Gen
    BY NoAgent
  <1>2. lane[b].gen \notin typed[b] \cap script[b]
    BY NotReady DEF Over
  <1>3. NobodyWrites(b)
    BY NoneWriting, Vocabulary
  <1>4. st \notin Admitted
    BY DEF Idle, Admitted, Starting
  <1> QED BY <1>1, <1>2, <1>3, <1>4, RestsCalm

LEMMA RunsCalm ==
    ASSUME IInv, Own, NEW b \in Body, NEW job \in {ShellJob, lane[b].gen}, NEW k, LaneRuns(b, job, k),
           Over(b, lane[b].gen), k # NoKey => akey[b][lane[b].gen] = k
    PROVE  LaneCalm
  <1>1. LaneGoes(b)
    BY DEF LaneRuns, LaneGoes, Owned
  <1> QED BY <1>1 DEF LaneCalm, LaneRuns

LEMMA KeyKept ==
    ASSUME Own, NEW b \in Body, lane[b].state \in Admitted, lane[b].key # NoKey
    PROVE  akey[b][lane[b].gen] = lane[b].key
  BY DEF Own, LaneKnown

LEMMA ShellCalms ==
    ASSUME IInv, Own, NEW b \in Body, NEW g,
           \/ EndJob(b) \/ EndBody(b, "closed") \/ EndBody(b, "dead") \/ BootBody(b)
           \/ UnlinkScript(b, g) \/ LoseLine(b, g)
    PROVE  ShellCalm
  <1> USE DEF IInv, TypeOK, ShellTypeOK, ShellCalm, Over
  <1>1. CASE EndJob(b)
    BY <1>1 DEF EndJob
  <1>2. CASE EndBody(b, "closed") \/ EndBody(b, "dead")
    BY <1>2 DEF EndBody
  <1>3. CASE BootBody(b)
    BY <1>3 DEF BootBody
  <1>4. CASE UnlinkScript(b, g)
    BY <1>4 DEF UnlinkScript
  <1>5. CASE LoseLine(b, g)
    BY <1>5 DEF LoseLine
  <1> QED BY <1>1, <1>2, <1>3, <1>4, <1>5

----------------------------------------------------------------------------
(* settle_lane and recover_lane_dispatch keep Own                           *)

LEMMA CarelessSteps ==
    /\ {"ready", "observe", "reread", "look", "mark", "settled", "settleRecord", "dispatch",
        "create", "boot", "open", "abort", "abortLane", "close", "closed"} \subseteq Careless
    /\ Step \ Special \subseteq Careless
  BY DEF Careless, Step, Special, Fenced, Dispatching, Undoing, Recovering, Newborn

LEMMA SettlesOwn ==
    ASSUME IInv, IInv', Own, LaneCalm, ShellCalm, NEW c \in Controller, Settles(c) PROVE Own'
  BY CarelessSteps, CarelessOwn DEF Settles

LEMMA PlainOwn ==
    ASSUME IInv, IInv', Own, NEW c \in Controller, NEW pc \in Careless, Moves(c, pc),
           UNCHANGED <<lane, shellVars>>
    PROVE  Own'
  BY LaneSettled, ShellSettled, CarelessOwn

LEMMA ObserveDeadOwn ==
    ASSUME IInv, IInv', Birth, Own, NEW c \in Controller, ObserveDead(c) PROVE Own'
  <1> DEFINE b == ctl[c].b
  <1>1. b \in Body /\ UNCHANGED shellVars /\ fore[b] = ShellJob /\ typed[b] = {}
    BY ObserveDeadMoves DEF Birth, Ended
  <1>2. CASE LaneRests(b, "destroyed") /\ Moves(c, "mark")
    <2>1. LaneCalm
      <3>1. "destroyed" \notin Admitted
        BY DEF Admitted, Starting
      <3> QED BY <1>1, <1>2, <3>1, RestsCalm, Vocabulary
    <2> QED BY <1>1, <1>2, <2>1, ShellSettled, CarelessSteps, CarelessOwn
  <1> QED BY <1>1, <1>2, ObserveDeadMoves, PlainOwn, CarelessSteps

\* Without stalls, an abandoned dispatch has no controller.
LEMMA ObserveAliveOwn ==
    ASSUME Calm, IInv, IInv', Own, NEW c \in Controller, ObserveAlive(c) PROVE Own'
  <1> DEFINE b == ctl[c].b
             g == ctl[c].snap.gen
  <1>1. UNCHANGED <<lane, shellVars>> /\ b \in Body /\ g \in 0 .. MaxGen
    BY Known DEF ObserveAlive, storeVars, At, PcOK, LaneRecord
  <1>2. CASE Abandoned(b, ctl[c].snap) /\ Goto(c, "recUnlink")
    <2>1. Moves(c, "recUnlink") /\ ctl'[c].b = b /\ ctl'[c].snap = ctl[c].snap
      BY <1>2, GotoMoves
    <2>2. CtlCalm
      BY <2>1, MovesCalm DEF Fenced, Dispatching, Undoing
    <2>3. ~InDispatch(b, g)
      BY <1>2 DEF Abandoned, Calm
    <2>4. \A h \in Body : h = b => (~InDispatch(h, g) => ~InDispatch(h, g)')
      BY <1>1, <2>1, <2>2, FreeStays
    <2>5. StepKnown(c)'
      <3>1. "recUnlink" \notin Untyped
        BY DEF Untyped, Undoing
      <3> QED BY <1>1, <2>1, <2>3, <2>4, <3>1 DEF Moves, StepKnown, InDispatch
    <2>6. \A d \in Controller : ctl'[d] = ctl[d] \/ StepKnown(d)'
      BY <2>1, <2>5 DEF Moves, Alone
    <2> QED BY <1>1, <2>2, <2>6, OwnStays, LaneSettled, ShellSettled
  <1>3. CASE Goto(c, "reread") \/ Goto(c, "settled")
    BY <1>1, <1>3, GotoMoves, PlainOwn, CarelessSteps
  <1> QED BY <1>2, <1>3 DEF ObserveAlive

LEMMA LookOwn ==
    ASSUME IInv, IInv', Own, NEW c \in Controller, Look(c) PROVE Own'
  <1> DEFINE b == ctl[c].b
  <1>1. b \in Body /\ UNCHANGED shellVars
    BY LookMoves
  <1>2. CASE /\ LaneRests(b, "provider_exited") /\ lane[b].state = "provider_running"
             /\ fore[b] = ShellJob /\ Moves(c, "mark")
    <2>1. lane[b].gen # ShellJob
      BY <1>1, <1>2, Vocabulary DEF IInv, LaneGen, Reached, Admitted
    <2>2. Over(b, lane[b].gen)
      BY <1>1, <1>2 DEF Own, LaneKnown
    <2>3. CtlCalm
      BY <1>2, MovesCalm, CarelessSteps DEF Careless
    <2>4. LaneCalm
      BY <1>1, <1>2, <2>1, <2>2, <2>3, LeavesCalm DEF Idle
    <2> QED BY <1>1, <1>2, <2>4, ShellSettled, CarelessSteps, CarelessOwn
  <1> QED BY <1>1, <1>2, LookMoves, PlainOwn, CarelessSteps

\* What a recovery knows of the generation it recovers.
LEMMA RecoveringKnown ==
    ASSUME IInv, NEW c \in Controller, ctl[c].pc \in Recovering
    PROVE  ctl[c].b \in Body /\ ctl[c].snap.gen \in Gen
  BY Known DEF PcOK, Reached, Recovering

\* A step of a recovery: what StepKnown asks at the next one.
LEMMA RecoversOwn ==
    ASSUME IInv, IInv', Own, LaneCalm, ShellCalm,
           NEW c \in Controller, NEW pc \in {"recLook", "recRevoke", "recFinish"},
           ctl[c].pc \in Recovering,
           Moves(c, pc), ctl'[c].b = ctl[c].b, ctl'[c].snap = ctl[c].snap,
           ctl[c].snap.gen \notin script'[ctl[c].b],
           pc = "recLook" \/ fore'[ctl[c].b] # ctl[c].snap.gen
    PROVE  Own'
  <1> DEFINE b == ctl[c].b
             g == ctl[c].snap.gen
  <1>1. b \in Body /\ g \in Gen /\ g \in 0 .. MaxGen
    BY RecoveringKnown, GenAssumption DEF Gen
  <1>2. pc \notin Fenced /\ pc \notin Untyped \cup {"publish", "kill", "killed"}
    BY Vocabulary DEF Recovering
  <1>3. CtlCalm
    BY <1>2, MovesCalm
  <1>4. ~InDispatch(b, g)
    BY DEF Own, StepKnown
  <1>5. \A h \in Body : h = b => ~InDispatch(h, g)'
    BY <1>1, <1>3, <1>4, FreeStays
  <1>6. \A h \in Body : h = b => ~Writing(h, g)'
    BY <1>5, Vocabulary DEF Writing, InDispatch, Fenced
  <1>7. StepKnown(c)'
    BY <1>1, <1>2, <1>5, <1>6 DEF Moves, StepKnown, InDispatch, Over, Writing
  <1>8. \A d \in Controller : ctl'[d] = ctl[d] \/ StepKnown(d)'
    BY <1>7 DEF Moves, Alone
  <1> QED BY <1>3, <1>8, OwnStays

LEMMA RecoverUnlinkOwn ==
    ASSUME IInv, IInv', Own, NEW c \in Controller, RecoverUnlink(c) PROVE Own'
  <1> DEFINE b == ctl[c].b
             g == ctl[c].snap.gen
             ran == g \notin script[b]
             pc == IF ran THEN "recLook" ELSE "recRevoke"
  <1>1. ctl[c].pc \in Recovering /\ b \in Body /\ g \in Gen
    BY RecoveringKnown DEF RecoverUnlink, At, Recovering
  <1>2. UNCHANGED lane /\ UnlinkScript(b, g)
    BY DEF RecoverUnlink, storeVars
  <1>3. ctl' = [ctl EXCEPT ![c].pc = pc, ![c].flag = ran]
    BY DEF RecoverUnlink
  <1>4. Moves(c, pc) /\ ctl'[c].b = b /\ ctl'[c].snap = ctl[c].snap
    <2> HIDE DEF pc, ran
    <2> QED BY <1>3, UnlinkMoves
  <1>5. g \notin script'[b] /\ fore' = fore
    BY <1>1, <1>2, Known DEF UnlinkScript, ShellGood, ShellTypeOK
  <1>6. g \in script[b] => fore[b] # g
    BY <1>1 DEF Own, LaneKnown, Over
  <1> QED BY <1>1, <1>2, <1>4, <1>5, <1>6, RecoversOwn, LaneSettled, ShellCalms

LEMMA RecoverLookOwn ==
    ASSUME IInv, IInv', Own, NEW c \in Controller, RecoverLook(c) PROVE Own'
  <1> DEFINE b == ctl[c].b
             g == ctl[c].snap.gen
  <1>1. ctl[c].pc \in Recovering /\ b \in Body /\ g \in Gen /\ UNCHANGED shellVars
    BY RecoveringKnown, RecoverLookMoves DEF RecoverLook, At, Recovering
  <1>2. Over(b, g)
    BY DEF Own, StepKnown, RecoverLook, At
  <1>3. CASE LaneRuns(b, fore[b], lane[b].key) /\ Current(b, g) /\ fore[b] # ShellJob /\ Settles(c)
    <2>1. fore[b] = lane[b].gen
      <3>1. fore[b] \in Gen
        BY <1>1, <1>3, Known, GenAssumption
           DEF Own, LaneKnown, ShellGood, ShellTypeOK, Job, Gen, ShellJob, UserJob
      <3> QED BY <1>1, <3>1 DEF Own, LaneKnown
    <2>2. LaneCalm
      BY <1>1, <1>2, <1>3, <2>1, KeyKept, RunsCalm DEF Current
    <2> QED BY <1>1, <1>3, <2>2, ShellSettled, SettlesOwn
  <1>4. CASE UNCHANGED lane /\ Settles(c)
    BY <1>1, <1>4, LaneSettled, ShellSettled, SettlesOwn
  <1>5. CASE /\ UNCHANGED lane /\ fore[b] = ShellJob
             /\ Moves(c, "recRevoke") /\ ctl'[c].b = b /\ ctl'[c].snap = ctl[c].snap
    <2>1. g \notin script'[b] /\ fore'[b] # g
      BY <1>1, <1>2, <1>5, Vocabulary DEF shellVars, Over
    <2> QED BY <1>1, <1>5, <2>1, LaneSettled, ShellSettled, RecoversOwn
  <1> QED BY <1>3, <1>4, <1>5, RecoverLookMoves

LEMMA RecoverRevokeOwn ==
    ASSUME IInv, IInv', Own, NEW c \in Controller, RecoverRevoke(c) PROVE Own'
  <1>1. /\ ctl[c].pc = "recRevoke" /\ ctl[c].pc \in Recovering /\ UNCHANGED <<lane, shellVars>>
        /\ Goto(c, "recFinish")
    BY DEF RecoverRevoke, At, Recovering
  <1>2. ctl[c].snap.gen \notin script'[ctl[c].b] /\ fore'[ctl[c].b] # ctl[c].snap.gen
    BY <1>1 DEF Own, StepKnown, Over, shellVars
  <1> QED BY <1>1, <1>2, GotoMoves, RecoversOwn, LaneSettled, ShellSettled

LEMMA RecoverFinishOwn ==
    ASSUME IInv, IInv', Own, NEW c \in Controller, RecoverFinish(c) PROVE Own'
  <1> DEFINE b == ctl[c].b
             g == ctl[c].snap.gen
  <1>1. b \in Body /\ UNCHANGED shellVars /\ Over(b, g) /\ fore[b] # g
    BY RecoverFinishMoves DEF Own, StepKnown, RecoverFinish, At
  <1>2. ASSUME NEW st \in Idle, LaneRests(b, st), Current(b, g), NEW pc \in Careless, Moves(c, pc)
        PROVE  Own'
    <2>1. CtlCalm
      BY <1>2, MovesCalm DEF Careless
    <2>2. LaneCalm
      BY <1>1, <1>2, <2>1, LeavesCalm DEF Current
    <2> QED BY <1>1, <1>2, <2>2, ShellSettled, CarelessOwn
  <1>3. CASE UNCHANGED lane /\ Settles(c)
    BY <1>1, <1>3, LaneSettled, ShellSettled, SettlesOwn
  <1> QED BY <1>2, <1>3, RecoverFinishMoves, CarelessSteps DEF Settles

\* A running agent is stopped under the generation it was read with.
LEMMA AfterSettleOwn ==
    ASSUME IInv, IInv', Own, NEW c \in Controller, AfterSettle(c) PROVE Own'
  <1> DEFINE s == ctl[c].snap
  <1>1. UNCHANGED <<lane, shellVars>>
    BY AfterSettleMoves
  <1>2. CASE /\ HasAgent(s) /\ Moves(c, "kill") /\ ctl'[c].b = ctl[c].b /\ ctl'[c].snap = s
    <2>1. s.fg = s.gen
      BY <1>2 DEF HasAgent, Own, SnapKnown, Owned
    <2>2. "kill" \notin Untyped \cup Recovering /\ "kill" \notin Fenced
      BY DEF Untyped, Undoing, Recovering, Fenced, Dispatching
    <2>3. CtlCalm
      BY <1>2, <2>2, MovesCalm
    <2>4. StepKnown(c)'
      BY <1>2, <2>1, <2>2 DEF Moves, StepKnown
    <2>5. \A d \in Controller : ctl'[d] = ctl[d] \/ StepKnown(d)'
      BY <1>2, <2>4 DEF Moves, Alone
    <2> QED BY <1>1, <2>3, <2>5, OwnStays, LaneSettled, ShellSettled
  <1>3. CASE Settles(c) \/ Moves(c, "settleRecord") \/ Moves(c, "close")
    BY <1>1, <1>3, PlainOwn, CarelessSteps, SettlesOwn, LaneSettled, ShellSettled
  <1> QED BY <1>2, <1>3, AfterSettleMoves

LEMMA SettlingOwn ==
    ASSUME Calm, IInv, IInv', Birth, Own, NEW c \in Controller, Settling(c) PROVE Own'
  <1>1. CASE ObserveNothing(c) \/ Reread(c) \/ Mark(c) \/ SettleRecord(c)
    BY <1>1, PlainMoves, PlainOwn, CarelessSteps
  <1> QED BY <1>1, ObserveDeadOwn, ObserveAliveOwn, LookOwn, RecoverUnlinkOwn, RecoverLookOwn,
             RecoverRevokeOwn, RecoverFinishOwn, AfterSettleOwn DEF Settling

----------------------------------------------------------------------------
(* stop, destroy and create keep Own                                        *)

LEMMA KillOwn ==
    ASSUME IInv, IInv', Own, NEW c \in Controller, Kill(c) PROVE Own'
  <1> DEFINE b == ctl[c].b
             g == ctl[c].snap.gen
  <1>1. b \in Body /\ UNCHANGED lane /\ ctl[c].snap.fg = g /\ g \in Gen /\ ctl[c].pc = "kill"
    <2>1. ctl[c].pc = "kill" /\ ctl[c].snap.state \in Admitted
      BY Known DEF Kill, At, PcOK, Admitted
    <2> QED BY <2>1, KillMoves, Known DEF PcOK, Reached, Own, StepKnown
  <1>2. CASE UNCHANGED shellVars /\ Settles(c)
    BY <1>1, <1>2, LaneSettled, ShellSettled, SettlesOwn
  <1>3. CASE /\ fore[b] = ctl[c].snap.fg /\ EndJob(b)
             /\ Moves(c, "killed") /\ ctl'[c].b = b /\ ctl'[c].snap = ctl[c].snap
    <2>1. Over(b, g) /\ g \in 0 .. MaxGen
      BY <1>1, <1>3 DEF Own, LaneKnown, Gen
    <2>2. ShellCalm /\ fore'[b] # g
      BY <1>1, <1>3, ShellCalms, Vocabulary, Known DEF EndJob, ShellGood, ShellTypeOK
    <2>3. "killed" \notin Untyped \cup Recovering /\ "killed" \notin Fenced
      BY DEF Untyped, Undoing, Recovering, Fenced, Dispatching
    <2>4. CtlCalm
      BY <1>3, <2>3, MovesCalm
    <2>5. \A h \in Body : h = b => (Over(h, g) => Over(h, g)')
      BY <1>3, <2>1, <2>2, <2>4, OverStays
    <2>6. StepKnown(c)'
      BY <1>1, <1>3, <2>1, <2>2, <2>3, <2>5 DEF Moves, StepKnown, Over, Writing
    <2>7. \A d \in Controller : ctl'[d] = ctl[d] \/ StepKnown(d)'
      BY <1>3, <2>6 DEF Moves, Alone
    <2> QED BY <1>1, <2>2, <2>4, <2>7, OwnStays, LaneSettled
  <1> QED BY <1>2, <1>3, KillMoves

LEMMA KilledOwn ==
    ASSUME IInv, IInv', Own, NEW c \in Controller, Killed(c) PROVE Own'
  <1> DEFINE b == ctl[c].b
             g == ctl[c].snap.gen
  <1>1. b \in Body /\ UNCHANGED shellVars /\ Over(b, g) /\ fore[b] # g
    BY KilledMoves DEF Own, StepKnown, Killed, At
  <1>2. CASE LaneRests(b, "provider_exited") /\ Same(b, ctl[c].snap) /\ Moves(c, "mark")
    <2>1. CtlCalm
      BY <1>2, MovesCalm, CarelessSteps DEF Careless
    <2>2. LaneCalm
      BY <1>1, <1>2, <2>1, LeavesCalm DEF Same, Idle
    <2> QED BY <1>1, <1>2, <2>2, ShellSettled, CarelessOwn, CarelessSteps
  <1> QED BY <1>1, <1>2, KilledMoves, LaneSettled, ShellSettled, SettlesOwn

\* A lane that is born, opened, closed or aborted is not admitted.
LEMMA RestsOwn ==
    ASSUME IInv, IInv', Own, NEW c \in Controller, NEW pc \in Careless, Moves(c, pc),
           NEW b \in Body, NEW st \in {"destroyed"} \cup Idle, LaneRests(b, st), UNCHANGED shellVars,
           lane[b].state \in Idle \cup {"provisional"}
    PROVE  Own'
  <1>1. CtlCalm
    BY MovesCalm DEF Careless
  <1>2. lane[b].state \notin Admitted \cup {"destroyed"}
    BY DEF Idle, Admitted, Starting
  <1>3. LaneCalm
    BY <1>1, <1>2, LeavesCalm
  <1> QED BY <1>3, ShellSettled, CarelessOwn

LEMMA CreateOwn ==
    ASSUME IInv, IInv', Own, NEW c \in Controller, Create(c) PROVE Own'
  <1>1. CASE Finish(c) /\ UNCHANGED lane
    BY <1>1, FinishMoves, PlainOwn, CarelessSteps DEF Create
  <1>2. ASSUME NEW b \in Body, CreateLane(b),
               ctl' = [ctl EXCEPT ![c].pc = "boot", ![c].b = b, ![c].snap = lane'[b]]
        PROVE  Own'
    <2>1. Moves(c, "boot")
      <3>1. \A r \in Control : \A s : LET q == [r EXCEPT !.pc = "boot", !.b = b, !.snap = s]
                                  IN  q.pc = "boot" /\ q.b = b /\ q.snap = s
        BY DEF Control
      <3> DEFINE s == lane'[b]
      <3>2. ctl' = [ctl EXCEPT ![c] = [ctl[c] EXCEPT !.pc = "boot", !.b = b, !.snap = s]]
        BY <1>2, Known
      <3> HIDE DEF s
      <3>3. ctl'[c] = [ctl[c] EXCEPT !.pc = "boot", !.b = b, !.snap = s] /\ Alone(c)
        BY <3>2, Known DEF Alone
      <3>4. ctl'[c].pc = "boot" /\ ctl'[c].b = b /\ ctl'[c].snap = s
        BY <3>1, <3>3, Known
      <3> QED BY <3>3, <3>4 DEF Moves, Snapped, s
    <2>2. CtlCalm
      BY <2>1, MovesCalm, CarelessSteps DEF Careless
    <2>3. lane[b].state = "absent" /\ lane[b].state \notin Admitted \cup {"destroyed"}
      BY <1>2 DEF CreateLane, Admitted, Starting
    <2>4. /\ \A d \in Body \ {b} : lane'[d] = lane[d]
          /\ lane'[b].state = "provisional" /\ lane'[b].gen = lane[b].gen /\ lane'[b].fg = lane[b].fg
      BY <1>2, Known DEF CreateLane, LaneRecord
    <2>5. lane'[b].state \notin Admitted
      BY <2>4 DEF Admitted, Starting
    <2>6. NobodyWrites(b) /\ fore[b] \notin Gen /\ typed[b] \cap script[b] = {}
      BY <2>2, <2>3, NoneWriting, NoAgent, NotReady, Vocabulary
    <2>7. Owned(lane'[b])
      BY <2>4 DEF Own, LaneKnown, Owned
    <2>8. LaneCalm
      BY <2>4, <2>5, <2>6, <2>7 DEF LaneCalm, LaneLeaves, NobodyWrites
    <2> QED BY <2>1, <2>8, ShellSettled, CarelessOwn, CarelessSteps DEF Create
  <1> QED BY <1>1, <1>2 DEF Create

LEMMA LifecycleOwn ==
    ASSUME IInv, IInv', Own, NEW c \in Controller, Lifecycle(c) PROVE Own'
  <1> DEFINE b == ctl[c].b
  <1>1. CASE Close(c)
    BY <1>1, CloseMoves, ShellCalms, LaneSettled, CarelessOwn, CarelessSteps
  <1>2. CASE Closed(c)
    BY <1>2, ClosedMoves, RestsOwn, PlainOwn, CarelessSteps
  <1>3. CASE Boot(c)
    BY <1>3, BootMoves, ShellCalms, ShellSettled, LaneSettled, CarelessOwn, CarelessSteps
  <1>4. CASE Open(c)
    <2>1. "shell_idle" \in Idle
      BY DEF Idle
    <2> QED BY <1>4, <2>1, OpenMoves, RestsOwn, PlainOwn, CarelessSteps
  <1>5. CASE Abort(c)
    BY <1>5, AbortMoves, ShellCalms, LaneSettled, CarelessOwn, CarelessSteps
  <1>6. CASE AbortLane(c)
    BY <1>6, AbortLaneMoves, RestsOwn, PlainOwn, CarelessSteps
  <1> QED BY <1>1, <1>2, <1>3, <1>4, <1>5, <1>6, KillOwn, KilledOwn, CreateOwn DEF Lifecycle

----------------------------------------------------------------------------
(* dispatch_provider_generation keeps Own                                   *)

\* A dispatch that has typed nothing goes on, or undoes itself.
LEMMA UntypedOwn ==
    ASSUME IInv, IInv', Own, ShellCalm, UNCHANGED lane, NEW c \in Controller,
           NEW pc \in Untyped, ctl[c].pc \in Untyped, FencedMoves(c, pc)
    PROVE  Own'
  <1> DEFINE b == ctl[c].b
             g == ctl[c].snap.gen
  <1>1. b \in Body /\ g \in Gen
    BY DispatcherKnown, Vocabulary
  <1>2. CtlCalm
    BY FencedCalm, Vocabulary
  <1>3. /\ fore[b] # g /\ g \notin typed[b] /\ lane[b].gen = g
        /\ lane[b].state \in {ctl[c].snap.state, "destroyed"}
    BY DEF Own, StepKnown
  <1>4. fore'[b] # g /\ g \notin typed'[b]
    BY <1>1, <1>3, Vocabulary DEF ShellCalm
  <1>5. pc \notin Recovering \cup {"publish", "kill", "killed"}
    BY Vocabulary
  <1>6. StepKnown(c)'
    BY <1>3, <1>4, <1>5 DEF FencedMoves, Moves, StepKnown, Recovering
  <1>7. \A d \in Controller : ctl'[d] = ctl[d] \/ StepKnown(d)'
    BY <1>6 DEF FencedMoves, Moves, Alone
  <1> QED BY <1>2, <1>7, OwnStays, LaneSettled

\* A dispatch that gives up goes to recover its own generation: nobody else
\* dispatches it.
LEMMA GivesUpOwn ==
    ASSUME IInv, IInv', Own, UNCHANGED <<lane, shellVars>>, NEW c \in Controller,
           ctl[c].pc \in Fenced, FencedMoves(c, "recUnlink")
    PROVE  Own'
  <1> DEFINE b == ctl[c].b
             g == ctl[c].snap.gen
  <1>1. b \in Body /\ g \in Gen
    BY DispatcherKnown
  <1>2. "recUnlink" \notin Fenced
    BY DEF Fenced, Dispatching, Undoing
  <1>3. CtlCalm
    BY <1>2, Vocabulary, FencedCalm
  <1>4. ASSUME NEW d \in Controller, ctl'[d].pc \in Fenced, ctl'[d].b = b, ctl'[d].snap.gen = g
        PROVE  FALSE
    <2>1. d # c
      BY <1>2, <1>4 DEF FencedMoves, Moves
    <2>2. ctl[d].pc \in Fenced /\ ctl[d].b = b /\ ctl[d].snap.gen = g
      BY <1>4, <2>1 DEF FencedMoves, Moves, Alone
    <2> QED BY <2>1, <2>2 DEF IInv, GenerationOwned, Fenced
  <1>5. StepKnown(c)'
    <2>1. "recUnlink" \notin Untyped \cup {"publish", "kill", "killed"}
      BY DEF Untyped, Undoing
    <2>2. ctl'[c].pc = "recUnlink" /\ ctl'[c].b = b /\ ctl'[c].snap.gen = g
      BY DEF FencedMoves, Moves
    <2>3. ~InDispatch(ctl[c].b, ctl[c].snap.gen)'
      BY <1>4, <2>2 DEF InDispatch, Fenced
    <2> QED BY <2>1, <2>2, <2>3 DEF StepKnown, InDispatch
  <1>6. \A d \in Controller : ctl'[d] = ctl[d] \/ StepKnown(d)'
    BY <1>5 DEF FencedMoves, Moves, Alone
  <1> QED BY <1>3, <1>6, OwnStays, LaneSettled, ShellSettled

LEMMA WriteOwn ==
    ASSUME IInv, IInv', Own, NEW c \in Controller, Write(c) PROVE Own'
  <1> DEFINE b == ctl[c].b
             g == ctl[c].snap.gen
  <1>1. ctl[c].pc \in Untyped /\ UNCHANGED lane
    BY DEF Write, At, Untyped, storeVars
  <1>2. b \in Body /\ g \in Gen
    BY <1>1, DispatcherKnown, Vocabulary
  <1>3. PICK pc \in {"type", "undoScript"} : FencedMoves(c, pc)
    BY FencedGoes DEF Write
  <1>4. pc \in Untyped
    BY DEF Untyped, Undoing
  <1>5. CASE UNCHANGED shellVars
    BY <1>1, <1>3, <1>4, <1>5, ShellSettled, UntypedOwn
  <1>6. CASE WriteScript(b, g)
    <2>1. g \notin typed[b]
      BY <1>1 DEF Own, StepKnown
    <2>2. ~Over(b, g)
      BY <1>1 DEF Over, Writing
    <2>3. /\ \A d \in Body \ {b} : script'[d] = script[d]
          /\ script'[b] = script[b] \cup {g}
          /\ fore' = fore /\ typed' = typed /\ akey' = akey
      BY <1>2, <1>6, Known DEF WriteScript, ShellGood, ShellTypeOK
    <2>4. ShellCalm
      BY <2>1, <2>2, <2>3 DEF ShellCalm, Over
    <2> QED BY <1>1, <1>3, <1>4, <2>4, UntypedOwn
  <1> QED BY <1>5, <1>6 DEF Write

\* The line is typed into a live body, so into a lane that still starts.
LEMMA TypeOwn ==
    ASSUME IInv, IInv', Birth, Own, NEW c \in Controller, Type(c) PROVE Own'
  <1> DEFINE b == ctl[c].b
             g == ctl[c].snap.gen
  <1>1. ctl[c].pc \in Untyped /\ ctl[c].pc \in Fenced /\ UNCHANGED lane
    BY DEF Type, At, Untyped, Fenced, Dispatching, storeVars
  <1>2. b \in Body /\ g \in Gen /\ ctl[c].snap.state \in Starting
    BY <1>1, DispatcherKnown
  <1>3. /\ fore[b] # g /\ g \notin typed[b] /\ lane[b].gen = g
        /\ lane[b].state \in {ctl[c].snap.state, "destroyed"}
    BY <1>1 DEF Own, StepKnown
  <1>4. CASE UNCHANGED shellVars /\ Goto(c, "undoScript")
    <2>1. "undoScript" \in Untyped
      BY DEF Untyped, Undoing
    <2> QED BY <1>1, <1>4, <2>1, FencedGoes, ShellSettled, UntypedOwn
  <1>5. CASE UNCHANGED shellVars /\ Goto(c, "recUnlink")
    BY <1>1, <1>5, FencedGoes, GivesUpOwn
  <1>6. CASE body[b] = "up" /\ TypeLine(b, g) /\ Goto(c, "await")
    <2>1. lane[b].state \in Starting /\ lane[b].state \in Admitted
      BY <1>2, <1>3, <1>6, Vocabulary DEF Birth
    <2>2. FencedMoves(c, "await")
      BY <1>6, FencedGoes
    <2>3. CtlCalm
      BY <1>1, <2>2, FencedCalm, Vocabulary
    <2>4. /\ \A d \in Body \ {b} : typed'[d] = typed[d]
          /\ typed'[b] = typed[b] \cup {g}
          /\ fore' = fore /\ script' = script /\ akey' = akey
      BY <1>2, <1>6, Known DEF TypeLine, ShellGood, ShellTypeOK
    <2>5. ASSUME NEW d \in Controller \ {c}, ctl[d].pc \in Untyped PROVE ctl[d].b # b
      <3>1. ctl[d].b = b => ctl[d].snap.gen = g
        BY <1>3, <2>5 DEF Own, StepKnown
      <3> QED BY <1>1, <2>5, <3>1, Vocabulary DEF IInv, GenerationOwned, Fenced
    <2>6. \A a \in Body, h \in 0 .. MaxGen : Over(a, h) => Over(a, h)'
      <3> SUFFICES ASSUME NEW a \in Body, NEW h \in 0 .. MaxGen, Over(a, h) PROVE Over(a, h)'
        OBVIOUS
      <3>1. h \notin script'[a]
        BY <2>4 DEF Over
      <3>2. ASSUME NEW d \in Controller, ctl'[d].pc \in Untyped, ctl'[d].b = a, ctl'[d].snap.gen = h
            PROVE  FALSE
        <4>1. ctl[d].pc \in Untyped /\ ctl[d].b = a /\ ctl[d].snap.gen = h
          BY <2>3, <3>2, Vocabulary DEF CtlCalm, Dispatches
        <4> QED BY <4>1 DEF Over, Writing
      <3> QED BY <3>1, <3>2 DEF Over, Writing
    <2>7. ASSUME NEW a \in Body PROVE LaneKnown(a)'
      <3>1. LaneKnown(a) /\ lane[a].gen \in 0 .. MaxGen /\ Gen \subseteq 0 .. MaxGen
        BY Known DEF Own, IInv, TypeOK, StoreTypeOK, LaneRecord, Gen
      <3>2. /\ \A h \in typed'[a] : h <= lane[a].gen
            /\ \A h \in typed'[a] \cap script'[a] : lane[a].state \in Admitted /\ lane[a].gen = h
        BY <1>3, <2>1, <2>4, <3>1 DEF LaneKnown
      <3>3. /\ fore[a] \in Gen => Over(a, fore[a])'
            /\ lane[a].state = "provider_running" => Over(a, lane[a].gen)'
        <4>1. /\ fore[a] \in Gen => Over(a, fore[a])
              /\ lane[a].state = "provider_running" => Over(a, lane[a].gen)
          BY <3>1 DEF LaneKnown
        <4>2. /\ Over(a, fore[a]) /\ fore[a] \in Gen => Over(a, fore[a])'
              /\ Over(a, lane[a].gen) => Over(a, lane[a].gen)'
          BY <1>1, <2>4, <2>6, <3>1
        <4> QED BY <4>1, <4>2
      <3> QED BY <1>1, <2>4, <3>1, <3>2, <3>3 DEF LaneKnown, Over, Writing, Owned
    <2>8. SnapKnown(c)' /\ \A d \in Controller : SnapKnown(d)'
      <3>1. \A a \in Body : lane[a].gen <= lane'[a].gen /\ Owned(lane'[a])
        BY <1>1, <2>7, GenAssumption DEF LaneKnown, IInv, TypeOK, StoreTypeOK, LaneRecord
      <3> QED BY <2>3, <3>1, SnapStays DEF CtlCalm
    <2>9. StepKnown(c)'
      <3>1. "await" \notin Untyped \cup Recovering \cup {"publish", "kill", "killed"}
        BY DEF Untyped, Undoing, Recovering
      <3> QED BY <2>2, <3>1 DEF FencedMoves, Moves, StepKnown, Recovering
    <2>10. ASSUME NEW d \in Controller \ {c} PROVE StepKnown(d)'
      <3> DEFINE a == ctl[d].b
                 h == ctl[d].snap.gen
      <3>1. ctl'[d] = ctl[d] /\ StepKnown(d) /\ h \in 0 .. MaxGen
        BY <2>2, Known DEF FencedMoves, Moves, Alone, Own, LaneRecord
      <3>2. \A e \in Body : e = a => /\ (Over(e, h) => Over(e, h)')
                                     /\ (~InDispatch(e, h) => ~InDispatch(e, h)')
        BY <2>3, <2>6, <3>1, FreeStays
      <3>3. ctl[d].pc \in Untyped => h \notin typed'[a]
        <4>1. ctl[d].pc \in Untyped => a \in Body /\ a # b /\ h \notin typed[a]
          BY <2>5, <3>1, DispatcherKnown, Vocabulary DEF StepKnown
        <4> QED BY <2>4, <4>1
      <3>4. ctl[d].pc \in Recovering \cup {"publish", "killed"} => a \in Body
        BY Known DEF PcOK, Recovering
      <3> QED BY <1>1, <2>4, <3>1, <3>2, <3>3, <3>4 DEF StepKnown, Over, Writing, InDispatch, Recovering
    <2> QED BY <2>7, <2>8, <2>9, <2>10 DEF Own
  <1> QED BY <1>4, <1>5, <1>6 DEF Type

LEMMA AwaitOwn ==
    ASSUME IInv, IInv', Own, NEW c \in Controller, Await(c) PROVE Own'
  <1> DEFINE b == ctl[c].b
             g == ctl[c].snap.gen
  <1>1. UNCHANGED <<lane, shellVars>> /\ b \in Body /\ ctl[c].pc \in Fenced /\ g \in Gen
    BY AwaitMoves, DispatcherKnown DEF Await, At, Fenced, Dispatching
  <1>2. CASE FencedMoves(c, "publish") /\ fore[b] # ShellJob /\ ctl'[c].snap.fg = fore[b]
    <2>1. CtlCalm
      <3>1. "publish" \notin Untyped
        BY DEF Untyped, Undoing
      <3> QED BY <1>1, <1>2, <3>1, FencedCalm
    <2>2. fore[b] \in Gen /\ lane[b].gen = fore[b] /\ Over(b, fore[b])
      <3>1. fore[b] \in Gen
        BY <1>1, <1>2, Known, GenAssumption
           DEF Own, LaneKnown, ShellGood, ShellTypeOK, Job, Gen, ShellJob, UserJob
      <3> QED BY <1>1, <3>1 DEF Own, LaneKnown
    <2>3. g <= lane[b].gen
      BY <1>1 DEF Own, SnapKnown
    <2>4. ctl'[c].b = b /\ ctl'[c].snap.gen = g /\ ctl'[c].pc = "publish"
      BY <1>2 DEF FencedMoves, Moves
    <2>5. \A h \in Body : h = b => (Over(h, g) => Over(h, g)')
      BY <1>1, <2>1, <2>4, OverStays, ShellSettled, GenAssumption DEF Gen
    <2>6. StepKnown(c)'
      <3>1. "publish" \notin Untyped \cup Recovering
        BY DEF Untyped, Undoing, Recovering
      <3>2. CASE g = lane[b].gen
        BY <1>1, <1>2, <2>2, <2>4, <2>5, <3>1, <3>2 DEF StepKnown, Over, Writing
      <3>3. CASE g < lane[b].gen
        BY <1>1, <2>4, <3>1, <3>3 DEF StepKnown
      <3> QED BY <1>1, <2>2, <2>3, <3>2, <3>3, GenAssumption DEF Gen
    <2>7. \A d \in Controller : ctl'[d] = ctl[d] \/ StepKnown(d)'
      BY <1>2, <2>6 DEF FencedMoves, Moves, Alone
    <2> QED BY <1>1, <2>1, <2>7, OwnStays, LaneSettled, ShellSettled
  <1> QED BY <1>1, <1>2, AwaitMoves, GivesUpOwn

\* The job it saw is the agent of its generation, if that is still the lane's.
LEMMA PublishOwn ==
    ASSUME IInv, IInv', Own, NEW c \in Controller, Publish(c) PROVE Own'
  <1> DEFINE b == ctl[c].b
             g == ctl[c].snap.gen
  <1>1. UNCHANGED shellVars /\ b \in Body /\ ctl[c].pc \in Fenced /\ g \in Gen
    BY PublishMoves, DispatcherKnown DEF Publish, At, Fenced, Dispatching
  <1>2. CASE LaneRuns(b, ctl[c].snap.fg, lane[b].key) /\ Current(b, g) /\ Moves(c, "ready")
    <2>1. ctl[c].snap.fg = lane[b].gen /\ Over(b, lane[b].gen)
      <3>1. (ctl[c].snap.fg = g /\ Over(b, g)) \/ g < lane[b].gen
        BY DEF Own, StepKnown, Publish, At
      <3> QED BY <1>1, <1>2, <3>1, GenAssumption DEF Current, Gen
    <2>2. LaneCalm
      BY <1>1, <1>2, <2>1, KeyKept, RunsCalm DEF Current
    <2> QED BY <1>1, <1>2, <2>2, ShellSettled, CarelessOwn, CarelessSteps
  <1> QED BY <1>1, <1>2, PublishMoves, GivesUpOwn

\* The lane it gives back is still in the generation it took.
LEMMA UndoLaneOwn ==
    ASSUME IInv, IInv', Own, NEW c \in Controller, UndoLane(c) PROVE Own'
  <1> DEFINE b == ctl[c].b
             g == ctl[c].snap.gen
  <1>1. /\ UNCHANGED shellVars /\ b \in Body /\ Moves(c, "ready")
        /\ ctl[c].pc \in Untyped /\ ctl[c].pc \in Fenced
    BY UndoLaneMoves DEF UndoLane, At, Untyped, Fenced, Undoing
  <1>2. CASE LaneRests(b, "shell_idle") /\ lane[b].state = ctl[c].snap.state
    <2>1. fore[b] # g /\ g \notin typed[b] /\ lane[b].gen = g
      BY <1>1 DEF Own, StepKnown
    <2>2. ASSUME NEW d \in Controller, ctl'[d].pc \in Untyped, ctl'[d].b = b PROVE FALSE
      <3>1. d # c
        BY <1>1, <2>2, Vocabulary DEF Moves
      <3>2. ctl[d].pc \in Untyped /\ ctl[d].b = b
        BY <1>1, <2>2, <3>1 DEF Moves, Alone
      <3>3. ctl[d].snap.gen = g
        BY <2>1, <3>2 DEF Own, StepKnown
      <3> QED BY <1>1, <3>1, <3>2, <3>3, Vocabulary DEF IInv, GenerationOwned, Fenced
    <2>3. LaneCalm
      <3>1. "shell_idle" \notin Admitted
        BY DEF Admitted, Starting
      <3> QED BY <1>1, <1>2, <2>1, <2>2, <3>1, NoAgent, RestsCalm DEF NobodyWrites
    <2> QED BY <1>1, <2>3, ShellSettled, CarelessOwn, CarelessSteps
  <1> QED BY <1>1, <1>2, UndoLaneMoves, PlainOwn, CarelessSteps

\* A new generation: nothing of it exists yet.
LEMMA DispatchOwn ==
    ASSUME IInv, IInv', Own, NEW c \in Controller, Dispatch(c) PROVE Own'
  <1> DEFINE b == ctl[c].b
  <1>1. b \in Body /\ UNCHANGED shellVars
    BY DispatchMoves
  <1>2. CASE /\ lane[b].state \in Idle /\ lane[b].gen < MaxGen
             /\ \A d \in Body \ {b} : lane'[d] = lane[d]
             /\ lane'[b].state \in Starting /\ lane'[b].gen = lane[b].gen + 1
             /\ lane'[b].fg = ShellJob /\ lane'[b].key = NoKey
             /\ Moves(c, "reserve") /\ ctl'[c].b = b /\ ctl'[c].snap = lane'[b]
    <2> DEFINE G == lane[b].gen + 1
    <2>0. /\ fore' = fore /\ typed' = typed /\ script' = script /\ akey' = akey
      BY <1>1 DEF shellVars
    <2>1. /\ lane[b].state \notin Admitted \cup Starting \cup {"destroyed", "provider_running"}
          /\ lane[b].gen \in Nat /\ G \in Gen
      BY <1>1, <1>2, Known, GenAssumption DEF Idle, Admitted, Starting, Gen, LaneRecord
    <2>2. LaneKnown(b) /\ fore[b] \notin Gen /\ typed[b] \cap script[b] = {}
      BY <1>1, <2>1, NoAgent, NotReady DEF Own
    <2>3. G \notin typed[b]
      BY <2>1, <2>2 DEF LaneKnown
    <2>4. ASSUME NEW d \in Controller \ {c}, ctl[d].pc \in Untyped PROVE ctl[d].b # b
      <3>1. lane[ctl[d].b].state \in {ctl[d].snap.state, "destroyed"} /\ ctl[d].snap.state \in Starting
        BY <2>4, DispatcherKnown, Vocabulary DEF Own, StepKnown
      <3> QED BY <2>1, <3>1
    <2>5. ASSUME NEW a \in Body, NEW h \in 0 .. MaxGen, Over(a, h), a # b \/ h # G
          PROVE  Over(a, h)'
      <3>1. ASSUME NEW d \in Controller, ctl'[d].pc \in Untyped, ctl'[d].b = a, ctl'[d].snap.gen = h
            PROVE  FALSE
        <4>1. d # c
          BY <1>2, <2>5, <3>1
        <4>2. ctl[d].pc \in Untyped /\ ctl[d].b = a /\ ctl[d].snap.gen = h
          BY <1>2, <3>1, <4>1 DEF Moves, Alone
        <4> QED BY <2>5, <4>2 DEF Over, Writing
      <3> QED BY <2>0, <2>5, <3>1 DEF Over, Writing
    <2>6. ASSUME NEW a \in Body, NEW h \in 0 .. MaxGen, ~InDispatch(a, h), a # b \/ h # G
          PROVE  ~InDispatch(a, h)'
      <3>1. ASSUME NEW d \in Controller, ctl'[d].pc \in Fenced, ctl'[d].b = a, ctl'[d].snap.gen = h
            PROVE  FALSE
        <4>1. d # c
          BY <1>2, <2>6, <3>1
        <4>2. ctl[d].pc \in Fenced /\ ctl[d].b = a /\ ctl[d].snap.gen = h
          BY <1>2, <3>1, <4>1 DEF Moves, Alone
        <4> QED BY <2>6, <4>2 DEF InDispatch, Fenced
      <3> QED BY <3>1 DEF InDispatch, Fenced
    <2>7. ASSUME NEW a \in Body PROVE LaneKnown(a)'
      <3>1. LaneKnown(a) /\ lane[a].gen \in 0 .. MaxGen /\ Gen \subseteq 0 .. MaxGen
        BY Known DEF Own, IInv, TypeOK, StoreTypeOK, LaneRecord, Gen
      <3>2. CASE a = b
        <4>1. fore'[b] # UserJob /\ fore'[b] \notin Gen
          BY <1>1, <2>0, <2>2 DEF LaneKnown
        <4>2. \A h \in typed'[b] : h <= lane'[b].gen
          BY <1>1, <1>2, <2>0, <2>1, <2>2, Known DEF LaneKnown, ShellGood, ShellTypeOK, Gen
        <4>3. typed'[b] \cap script'[b] = {}
          BY <2>0, <2>2
        <4> QED BY <1>2, <3>2, <4>1, <4>2, <4>3, Vocabulary DEF LaneKnown, Owned
      <3>3. CASE a # b
        <4>1. /\ fore[a] \in Gen => Over(a, fore[a])
              /\ lane[a].state = "provider_running" => Over(a, lane[a].gen)
          BY <3>1 DEF LaneKnown
        <4>2. /\ Over(a, fore[a]) /\ fore[a] \in Gen => Over(a, fore[a])'
              /\ Over(a, lane[a].gen) => Over(a, lane[a].gen)'
          <5>1. \A h \in 0 .. MaxGen : Over(a, h) => Over(a, h)'
            BY <2>5, <3>3
          <5>2. lane'[a].gen = lane[a].gen /\ fore'[a] = fore[a]
            BY <1>2, <2>0, <3>3
          <5> QED BY <3>1, <5>1, <5>2
        <4> QED BY <1>2, <2>0, <3>1, <3>3, <4>1, <4>2 DEF LaneKnown, Over, Writing, Owned
      <3> QED BY <3>2, <3>3
    <2>8. ASSUME NEW d \in Controller PROVE SnapKnown(d)'
      <3>1. \A a \in Body : lane[a].gen <= lane'[a].gen /\ Owned(lane'[a])
        <4> SUFFICES ASSUME NEW a \in Body PROVE lane[a].gen <= lane'[a].gen /\ Owned(lane'[a])
          OBVIOUS
        <4>1. lane[a].gen \in Nat
          BY GenAssumption DEF IInv, TypeOK, StoreTypeOK, LaneRecord
        <4>2. lane'[a].gen = lane[a].gen \/ lane'[a].gen = lane[a].gen + 1
          BY <1>2
        <4>3. Owned(lane'[a])
          BY <2>7 DEF LaneKnown
        <4> QED BY <4>1, <4>2, <4>3
      <3> QED BY <1>2, <3>1, SnapStays DEF Moves, Alone
    <2>9. StepKnown(c)'
      <3>1. "reserve" \in Untyped /\ "reserve" \notin Recovering \cup {"publish", "kill", "killed"}
        BY DEF Untyped, Recovering
      <3>2. fore'[b] # G /\ G \notin typed'[b]
        BY <2>0, <2>1, <2>2, <2>3
      <3> QED BY <1>2, <3>1, <3>2 DEF Moves, StepKnown, Recovering
    <2>10. ASSUME NEW d \in Controller \ {c} PROVE StepKnown(d)'
      <3> DEFINE a == ctl[d].b
                 h == ctl[d].snap.gen
                 pc == ctl[d].pc
      <3>1. ctl'[d] = ctl[d] /\ StepKnown(d) /\ SnapKnown(d) /\ h \in 0 .. MaxGen
        BY <1>2, Known DEF Moves, Alone, Own, LaneRecord
      <3>2. CASE pc \in Untyped
        <4>1. a \in Body /\ a # b /\ pc \notin Recovering \cup {"publish", "kill", "killed"}
          BY <2>4, <3>2, DispatcherKnown, Vocabulary
        <4> QED BY <1>2, <2>0, <3>1, <3>2, <4>1 DEF StepKnown, Recovering
      <3>3. CASE pc \in Recovering \cup {"publish", "killed"}
        <4>1. a \in Body /\ pc \notin Untyped
          BY <3>3, Known DEF PcOK, Recovering, Untyped, Undoing
        <4>2. h <= lane[a].gen /\ (a # b \/ h # G)
          BY <2>1, <3>1, <4>1 DEF SnapKnown
        <4>3. PICK e, k : e = a /\ k = h
          OBVIOUS
        <4>5. e \in Body /\ k \in 0 .. MaxGen /\ (e # b \/ k # G)
          BY <3>1, <4>1, <4>2, <4>3
        <4>6. Over(e, k) => Over(e, k)'
          BY <2>5, <4>5
        <4>7. ~InDispatch(e, k) => ~InDispatch(e, k)'
          BY <2>6, <4>5
        <4>4. lane[a].gen <= lane'[a].gen /\ (h < lane[a].gen => h < lane'[a].gen)
          <5>1. lane[a].gen \in Nat /\ h \in Nat
            BY <3>1, <4>1, GenAssumption DEF IInv, TypeOK, StoreTypeOK, LaneRecord
          <5>2. lane'[a].gen = lane[a].gen \/ lane'[a].gen = lane[a].gen + 1
            BY <1>2, <4>1
          <5> QED BY <5>1, <5>2
        <4> QED BY <2>0, <3>1, <3>3, <4>1, <4>3, <4>4, <4>6, <4>7
             DEF StepKnown, Over, Writing, InDispatch, Recovering
      <3>4. CASE pc \notin Untyped \cup Recovering \cup {"publish", "killed"}
        BY <3>1, <3>4 DEF StepKnown, Recovering
      <3> QED BY <3>2, <3>3, <3>4
    <2> QED BY <2>7, <2>8, <2>9, <2>10 DEF Own
  <1> QED BY <1>1, <1>2, DispatchMoves, PlainOwn, CarelessSteps

LEMMA DispatchersOwn ==
    ASSUME IInv, IInv', Birth, Own, NEW c \in Controller, Dispatchers(c) PROVE Own'
  <1>0. {"write", "undoScript", "undoLaunch", "undoLane"} \subseteq Untyped
    BY DEF Untyped, Undoing
  <1>1. CASE ReserveLaunch(c)
    <2>1. /\ ctl[c].pc \in Untyped /\ UNCHANGED <<lane, shellVars>>
          /\ Goto(c, "write") \/ Goto(c, "undoScript")
      BY <1>1 DEF ReserveLaunch, At, Untyped
    <2> QED BY <1>0, <2>1, FencedGoes, ShellSettled, UntypedOwn
  <1>2. CASE UndoScript(c)
    <2>1. /\ ctl[c].pc \in Untyped /\ UNCHANGED lane /\ Goto(c, "undoLaunch")
          /\ UnlinkScript(ctl[c].b, ctl[c].snap.gen)
      BY <1>2 DEF UndoScript, At, Untyped, Undoing, storeVars
    <2>2. ShellCalm
      BY <2>1, DispatcherKnown, Vocabulary, ShellCalms
    <2> QED BY <1>0, <2>1, <2>2, FencedGoes, UntypedOwn
  <1>3. CASE UndoLaunch(c)
    <2>1. ctl[c].pc \in Untyped /\ UNCHANGED <<lane, shellVars>> /\ Goto(c, "undoLane")
      BY <1>3 DEF UndoLaunch, At, Untyped, Undoing
    <2> QED BY <1>0, <2>1, FencedGoes, ShellSettled, UntypedOwn
  <1> QED BY <1>1, <1>2, <1>3, DispatchOwn, WriteOwn, TypeOwn, AwaitOwn, PublishOwn, UndoLaneOwn
       DEF Dispatchers

----------------------------------------------------------------------------
(* Hooks and the world keep Own                                             *)

LEMMA HookOwn ==
    ASSUME IInv, IInv', Own, NEW b \in Body, NEW g \in Gen, HookClaim(b, g) \/ HookRebind(b, g)
    PROVE  Own'
  <1>1. UNCHANGED <<ctl, shellVars>> /\ fore[b] = g
    BY HookMoves DEF AgentUp
  <1>2. lane[b].gen = g /\ Over(b, g)
    BY <1>1 DEF Own, LaneKnown
  <1>3. CASE LaneRuns(b, lane[b].fg, akey[b][g])
    <2>1. lane[b].fg \in {ShellJob, lane[b].gen}
      BY DEF Own, LaneKnown, Owned
    <2>2. LaneCalm
      BY <1>2, <1>3, <2>1, RunsCalm
    <2> QED BY <1>1, <2>2, ShellSettled, StillOwn
  <1> QED BY <1>1, <1>3, HookMoves, LaneSettled, ShellSettled, StillOwn

\* The agent that starts is that of a generation still waiting for it.
LEMMA RunLauncherOwn ==
    ASSUME IInv, IInv', Own, NEW b \in Body, NEW g \in Gen, RunLauncher(b, g),
           UNCHANGED <<storeVars, ctl>>
    PROVE  Own'
  <1>1. g \in typed[b] /\ g \in script[b] /\ lane' = lane /\ ctl' = ctl
    BY DEF RunLauncher, storeVars
  <1>2. lane[b].state \in Admitted /\ lane[b].gen = g /\ ~Over(b, g)
    BY <1>1 DEF Own, LaneKnown, Over
  <1>3. lane[b].state \in Starting /\ lane[b].key = NoKey
    BY <1>2 DEF Own, LaneKnown, Admitted
  <1>4. /\ \A a \in Body \ {b} : fore'[a] = fore[a] /\ typed'[a] = typed[a]
                                 /\ script'[a] = script[a] /\ akey'[a] = akey[a]
        /\ fore'[b] = g /\ typed'[b] = typed[b] \ {g} /\ script'[b] = script[b] \ {g}
    BY DEF RunLauncher, IInv, TypeOK, ShellTypeOK
  <1>5. ASSUME NEW d \in Controller, ctl[d].pc \in Untyped PROVE ctl[d].b # b
    BY <1>1, <1>2, <1>5 DEF Own, StepKnown
  <1>6. ASSUME NEW a \in Body, NEW h, Over(a, h) PROVE Over(a, h)'
    BY <1>1, <1>4, <1>6 DEF Over, Writing
  <1>7. Over(b, g)'
    BY <1>1, <1>4, <1>5 DEF Over, Writing
  <1>8. ASSUME NEW a \in Body PROVE LaneKnown(a)'
    <2>1. LaneKnown(a) /\ fore[a] \in Job
      BY DEF Own, IInv, TypeOK, ShellTypeOK
    <2>2. CASE a = b
      <3>1. /\ fore'[b] # UserJob /\ Over(b, fore[b])'
            /\ \A h \in typed'[b] : h <= lane'[b].gen
            /\ \A h \in typed'[b] \cap script'[b] : lane'[b].state \in Admitted /\ lane'[b].gen = h
        BY <1>1, <1>4, <1>7, <2>1, <2>2, Vocabulary DEF LaneKnown
      <3>2. lane[b].state # "provider_running"
        BY <1>3, Vocabulary
      <3> QED BY <1>1, <1>2, <1>3, <1>4, <2>1, <2>2, <3>1, <3>2 DEF LaneKnown, Owned
    <2>3. CASE a # b
      <3>1. /\ fore[a] \in Gen => Over(a, fore[a])
            /\ lane[a].state = "provider_running" => Over(a, lane[a].gen)
        BY <2>1 DEF LaneKnown
      <3>2. /\ fore[a] \in Gen => Over(a, fore[a])'
            /\ lane[a].state = "provider_running" => Over(a, lane[a].gen)'
        BY <1>1, <1>4, <1>6, <2>3, <3>1
      <3> QED BY <1>1, <1>4, <2>1, <2>3, <3>2 DEF LaneKnown, Over, Writing, Owned
    <2> QED BY <2>2, <2>3
  <1>9. ASSUME NEW d \in Controller PROVE SnapKnown(d)' /\ StepKnown(d)'
    <2> DEFINE pc == ctl[d].pc
    <2>1. SnapKnown(d) /\ StepKnown(d) /\ ctl'[d] = ctl[d] /\ lane' = lane
      BY <1>1 DEF Own
    <2>2. PICK a, h : a = ctl[d].b /\ h = ctl[d].snap.gen
      OBVIOUS
    <2>3. SnapKnown(d)'
      BY <1>1, <2>1 DEF SnapKnown, Owned
    <2>4. CASE pc \in Untyped
      <3>1. a \in Body /\ a # b /\ pc \notin Recovering \cup {"publish", "kill", "killed"}
        BY <1>5, <2>2, <2>4, DispatcherKnown, Vocabulary
      <3> QED BY <1>4, <2>1, <2>2, <2>3, <2>4, <3>1 DEF StepKnown, Recovering
    <2>5. CASE pc \in Recovering \cup {"publish", "killed"}
      <3>1. a \in Body /\ pc \notin Untyped
        BY <2>2, <2>5, Known DEF PcOK, Recovering, Untyped, Undoing
      <3>2. Over(a, h) => Over(a, h)'
        BY <1>6, <3>1
      <3>3. pc \in {"recRevoke", "recFinish", "killed"} => fore'[a] # h
        <4>1. pc \in {"recRevoke", "recFinish", "killed"} => Over(a, h) /\ fore[a] # h
          BY <2>1, <2>2 DEF StepKnown
        <4>2. CASE a = b
          BY <1>2, <1>4, <4>1, <4>2
        <4>3. CASE a # b
          BY <1>4, <3>1, <4>1, <4>3
        <4> QED BY <4>2, <4>3
      <3>4. pc # "kill"
        BY <2>5 DEF Recovering
      <3> QED BY <2>1, <2>2, <2>3, <2>5, <3>1, <3>2, <3>3, <3>4
           DEF StepKnown, Over, Writing, InDispatch, Recovering
    <2>6. CASE pc \notin Untyped \cup Recovering \cup {"publish", "killed"}
      BY <2>1, <2>3, <2>6 DEF StepKnown, Recovering
    <2> QED BY <2>3, <2>4, <2>5, <2>6
  <1> QED BY <1>8, <1>9 DEF Own

\* Nobody types into a lane's shell.
LEMMA WorldOwn ==
    ASSUME Calm, IInv, IInv', Own, NEW b \in Body, World(b) PROVE Own'
  <1>1. UNCHANGED <<storeVars, ctl>> /\ lane' = lane
    BY DEF World, storeVars
  <1>2. ~UserStartsJob(b)
    BY DEF Calm, UserStartsJob, IInv, TypeOK, ShellTypeOK
  <1>3. ASSUME NEW g \in Gen, LoseLine(b, g) PROVE Own'
    BY <1>1, <1>3, ShellCalms, LaneSettled, StillOwn
  <1>4. CASE JobExits(b) \/ BodyDies(b)
    BY <1>1, <1>4, ShellCalms, LaneSettled, StillOwn DEF JobExits, BodyDies
  <1> QED BY <1>1, <1>2, <1>3, <1>4, RunLauncherOwn DEF World

LEMMA OwnKept ==
    ASSUME Calm, IInv, IInv', Birth, Own, [Next]_vars PROVE Own'
  <1>1. ASSUME NEW c \in Controller,
               \/ \E b \in Body : Command(c, b)
               \/ StartNew(c) \/ \E k \in Key : Resume(c, k)
               \/ Crash(c)
        PROVE  Own'
    BY <1>1, PlainMoves, PlainOwn, CarelessSteps
  <1>2. ASSUME NEW c \in Controller, Continue(c) PROVE Own'
    BY <1>2, SettlingOwn, DispatchersOwn, LifecycleOwn DEF Continue
  <1>3. ASSUME UNCHANGED <<lane, ctl, shellVars>> PROVE Own'
    BY <1>3, StillOwn, LaneSettled, ShellSettled
  <1>4. ASSUME NEW b \in Body, NEW g \in Gen, CapabilityExpires(b, g) PROVE Own'
    BY <1>3, <1>4 DEF CapabilityExpires
  <1>5. ASSUME NEW k \in Key, DestroyConversation(k) PROVE Own'
    BY <1>3, <1>5 DEF DestroyConversation
  <1>6. CASE UNCHANGED vars
    BY <1>3, <1>6 DEF vars, shellVars
  <1> QED BY <1>1, <1>2, <1>4, <1>5, <1>6, HookOwn, WorldOwn DEF Next

----------------------------------------------------------------------------
(* Without stalls and without people: the theorems                          *)

LEMMA InitCalm ==
    Init => Birth /\ Own
  <1> SUFFICES ASSUME Init PROVE Birth /\ Own
    OBVIOUS
  <1>1. /\ \A b \in Body : lane[b] = NoLane /\ body[b] = "none" /\ fore[b] = ShellJob
                           /\ typed[b] = {} /\ script[b] = {}
        /\ \A c \in Controller : ctl[c] = Ready
    BY DEF Init, StoreInit, ShellInit
  <1>2. /\ Ready.pc = "ready" /\ Ready.b = NoBody /\ Ready.snap = NoLane
        /\ NoLane.state = "absent" /\ NoLane.gen = 0 /\ NoLane.fg = 0
    BY DEF Ready, NoLane
  <1>3. NoBody \notin Body
    BY KeyAssumption
  <1>4. Birth
    BY <1>1, <1>2, <1>3 DEF Birth, BirthKnown, Newborn
  <1>5. ASSUME NEW b \in Body PROVE LaneKnown(b)
    <2>1. fore[b] \notin Gen /\ fore[b] # UserJob
      BY <1>1, GenAssumption DEF Gen, ShellJob, UserJob
    <2>2. lane[b].state \notin Admitted \cup Starting \cup {"provider_running"}
      BY <1>1, <1>2 DEF Admitted, Starting
    <2>3. Owned(lane[b])
      BY <1>1, <1>2 DEF Owned, ShellJob
    <2> QED BY <1>1, <2>1, <2>2, <2>3 DEF LaneKnown
  <1>6. ASSUME NEW c \in Controller PROVE SnapKnown(c) /\ StepKnown(c)
    <2>1. "ready" \notin Untyped \cup Recovering \cup {"publish", "killed", "kill"}
      BY DEF Untyped, Undoing, Recovering
    <2> QED BY <1>1, <1>2, <1>3, <2>1 DEF SnapKnown, StepKnown, Recovering
  <1> QED BY <1>4, <1>5, <1>6 DEF Own

\* Every controller moves by itself.
LEMMA MovesAlone ==
    ASSUME IInv, NEW d \in Controller,
           \/ \E b \in Body : Command(d, b)
           \/ StartNew(d) \/ \E k \in Key : Resume(d, k)
           \/ Continue(d) \/ Crash(d)
    PROVE  Alone(d)
  <1>1. CASE \/ \E b \in Body : Command(d, b)
             \/ StartNew(d) \/ \E k \in Key : Resume(d, k)
             \/ ObserveNothing(d) \/ Reread(d) \/ Mark(d) \/ SettleRecord(d) \/ Crash(d)
    BY <1>1, PlainMoves DEF Moves
  <1>2. CASE ObserveDead(d) \/ Look(d) \/ AfterSettle(d)
    BY <1>2, ObserveDeadMoves, LookMoves, AfterSettleMoves DEF Moves, Settles
  <1>3. CASE ObserveAlive(d) \/ RecoverRevoke(d)
    BY <1>3, GotoMoves DEF Moves, ObserveAlive, RecoverRevoke
  <1>4. CASE RecoverUnlink(d)
    BY <1>4, Known DEF RecoverUnlink, Alone
  <1>5. CASE RecoverLook(d) \/ RecoverFinish(d)
    BY <1>5, RecoverLookMoves, RecoverFinishMoves DEF Moves, Settles
  <1>6. CASE Kill(d) \/ Killed(d) \/ Close(d) \/ Closed(d)
    BY <1>6, KillMoves, KilledMoves, CloseMoves, ClosedMoves DEF Moves, Settles
  <1>7. CASE Boot(d) \/ Open(d) \/ Abort(d) \/ AbortLane(d)
    BY <1>7, BootMoves, OpenMoves, AbortMoves, AbortLaneMoves DEF Moves
  <1>8. CASE Create(d)
    BY <1>8, Known DEF Create, Finish, Alone
  <1>9. CASE ReserveLaunch(d) \/ Write(d) \/ Type(d) \/ UndoScript(d) \/ UndoLaunch(d)
    BY <1>9, GotoMoves DEF ReserveLaunch, Write, Type, UndoScript, UndoLaunch, Moves
  <1>10. CASE Dispatch(d) \/ Await(d) \/ Publish(d) \/ UndoLane(d)
    BY <1>10, DispatchMoves, AwaitMoves, PublishMoves, UndoLaneMoves DEF FencedMoves, Moves
  <1> QED BY <1>1, <1>2, <1>3, <1>4, <1>5, <1>6, <1>7, <1>8, <1>9, <1>10
          DEF Continue, Settling, Dispatchers, Lifecycle

LEMMA OnlyKillKills ==
    ASSUME NEW c \in Controller, ctl[c].pc = "kill", Continue(c) PROVE Kill(c)
  <1>1. ~Settling(c)
    BY DEF Settling, ObserveDead, ObserveAlive, ObserveNothing, Reread, Look, Mark, RecoverUnlink,
           RecoverLook, RecoverRevoke, RecoverFinish, AfterSettle, SettleRecord, At
  <1>2. ~Dispatchers(c)
    BY DEF Dispatchers, Dispatch, ReserveLaunch, Write, Type, Await, Publish, UndoScript,
           UndoLaunch, UndoLane, At
  <1>3. Lifecycle(c) => Kill(c)
    BY DEF Lifecycle, Killed, Close, Closed, Create, Boot, Open, Abort, AbortLane, At
  <1> QED BY <1>1, <1>2, <1>3 DEF Continue

\* What a stop does, by the generation it read.
KillsOwn == \A c \in Controller : At(c, "kill") /\ ctl'[c].pc = "killed"
               => fore[ctl[c].b] = ctl[c].snap.gen

LEMMA KillKept ==
    IInv /\ Own /\ [Next]_vars => [KillsOwn]_vars
  <1> SUFFICES ASSUME IInv, Own, Next, NEW c \in Controller, ctl[c].pc = "kill", ctl'[c].pc = "killed"
               PROVE  fore[ctl[c].b] = ctl[c].snap.gen
    BY DEF KillsOwn, At
  <1>1. ctl[c].snap.fg = ctl[c].snap.gen
    BY DEF Own, StepKnown
  <1>2. CASE Kill(c)
    <2>1. ~Settles(c)
      BY DEF Settles, Moves
    <2> QED BY <1>1, <1>2, <2>1, KillMoves
  <1>3. ~UNCHANGED ctl
    OBVIOUS
  <1>4. ~\E b \in Body, g \in Gen : HookClaim(b, g) \/ HookRebind(b, g) \/ CapabilityExpires(b, g)
    BY <1>3 DEF HookClaim, HookRebind, CapabilityExpires
  <1>5. ~(\E b \in Body : World(b)) /\ ~\E k \in Key : DestroyConversation(k)
    BY <1>3 DEF World, DestroyConversation
  <1>6. PICK d \in Controller : \/ \E b \in Body : Command(d, b)
                                \/ StartNew(d) \/ \E k \in Key : Resume(d, k)
                                \/ Continue(d) \/ Crash(d)
    BY <1>4, <1>5 DEF Next
  <1>7. d = c
    BY <1>6, MovesAlone DEF Alone
  <1>8. Continue(c)
    <2>1. ~(\E b \in Body : Command(c, b)) /\ ~StartNew(c) /\ ~\E k \in Key : Resume(c, k)
      BY DEF Command, StartNew, Resume, At
    <2>2. ~Crash(c)
      BY FinishMoves DEF Crash, Moves
    <2> QED BY <1>6, <1>7, <2>1, <2>2
  <1> QED BY <1>2, <1>8, OnlyKillKills

LEMMA CalmInvariance ==
    ASSUME Calm PROVE Spec => [](IInv /\ Birth /\ Own)
  <1>1. Init => IInv /\ Birth /\ Own
    BY InitInv, InitCalm
  <1>2. IInv /\ Birth /\ Own /\ [Next]_vars => (IInv /\ Birth /\ Own)'
    BY NextInv, BirthKept, OwnKept
  <1> QED BY <1>1, <1>2, PTL DEF Spec

\* Without stalls and without people in its shell, a lane recorded as idle has
\* no agent, in any number of lanes and controllers, whatever is killed and
\* whatever expires (settle_lane, recover_lane_dispatch).
THEOREM IdleIsFree ==
    ASSUME Calm PROVE Spec => []IdleMeansNoAgent
  <1>1. Own => IdleMeansNoAgent
    BY DEF Own, LaneKnown, IdleMeansNoAgent, Idle, Admitted, Starting
  <1> QED BY <1>1, CalmInvariance, PTL

\* The foreground job recorded for a lane is its own generation's agent, or none.
THEOREM ForegroundTrusted ==
    ASSUME Calm PROVE Spec => []ForegroundIsOwn
  <1>1. Own => ForegroundIsOwn
    BY DEF Own, LaneKnown, ForegroundIsOwn, Owned
  <1> QED BY <1>1, CalmInvariance, PTL

\* A conversation bound into an admitted lane is the one its own agent opened.
THEOREM BindingTrusted ==
    ASSUME Calm PROVE Spec => []BoundByOwnAgent
  <1>1. Own => BoundByOwnAgent
    BY DEF Own, LaneKnown, BoundByOwnAgent
  <1> QED BY <1>1, CalmInvariance, PTL

\* A stop ends the agent of the generation it read, never what replaced it.
THEOREM StopTrusted ==
    ASSUME Calm PROVE Spec => StopsOnlyItsAgent
  <1>1. IInv /\ Birth /\ Own /\ [Next]_vars => [KillsOwn]_vars
    BY KillKept
  <1> QED BY <1>1, CalmInvariance, PTL DEF Spec, StopsOnlyItsAgent, KillsOwn
=============================================================================
