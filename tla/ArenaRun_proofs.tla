------------------------- MODULE ArenaRun_proofs -------------------------
(***************************************************************************)
(* Proofs about ArenaRun for any number of executions of a campaign, of    *)
(* runs, messages, checks, judges, troubles and prints: what the replay of *)
(* an event log says is what the worker of its run was typed, and a log    *)
(* that ends has all its evidence.                                         *)
(***************************************************************************)
EXTENDS ArenaRun, FiniteSetTheorems, SequenceTheorems, TLAPS

-----------------------------------------------------------------------------
(* The inductive invariant, over the record c of a coordinator, the         *)
(* directory s of a run and the worker w of a run.                          *)

Outside == {"idle", "look", "report", "halt", "done"}
Reading == {"reader", "read", "reopen"}
Making  == {"make", "lockfile", "flock"}
Starting == {"recover", "prepare", "variant", "start"}
Working == Starting \cup {"started", "control", "decide", "send", "deadline", "collect", "evidence"}

InRun(c) == c.pc \in Inside \cup {"leave"}

Places == Outside \cup Reading \cup Making \cup Inside \cup {"leave"}

\* Where a coordinator goes on once it has appended what it is appending.
Place(c) == IF c.pc \in {"append", "snapshot"} THEN c.then ELSE c.pc

\* What is appended, and where a coordinator goes on then.
Notes == {"check_started", "check_completed", "judge_started", "judge_completed", "artifact_recorded"}
Appends ==
    {<<"run_reserved", "recover">>, <<"recovery_recorded", "prepare">>, <<"case_prepared", "variant">>,
     <<"variant_prepared", "start">>, <<"worker_started", "control">>,
     <<"delivery_acknowledged", "deadline">>, <<"script_event_skipped", "deadline">>,
     <<"delivery_requested", "send">>, <<"delivery_sent", "deadline">>,
     <<"controller_failed", "collect">>, <<"controller_stopped", "collect">>, <<"wall_timeout", "collect">>,
     <<"controller_failed", "error">>, <<"run_resumed", "gate">>, <<"run_error", "leave">>,
     <<"run_finished", "leave">>} \cup (Notes \X {"evidence"})

CoordRecord ==
    [pc : Places, at : Nat \ {0},
     ev : Event \cup {Ev("none")}, state : State, then : Places,
     seen : Gone \cup {"absent", "running"}, read : Nat, step : Nat,
     fresh : BOOLEAN, mine : BOOLEAN, exit : {"halt", "next", "gone"}]

CoordShape(c) ==
    /\ c.pc \notin Outside => c.at <= Len(Assignments)
    /\ c.pc \in {"append", "snapshot"} => <<c.ev.type, c.then>> \in Appends
    /\ Place(c) \in Outside \cup Reading \cup Making \cup Starting => ~c.mine

Types == /\ TypeOK /\ coord \in [Coord -> CoordRecord]
         /\ \A p \in Coord : CoordShape(coord[p])

\* A coordinator in a run holds its lock, and nobody else has it; a run is
\* made by one coordinator, who is alone with it until there is a log.
Turns ==
    /\ \A p \in Coord : InRun(coord[p]) => flock[Here(p)].writer = p
    /\ \A r \in Run : flock[r].writer # Nobody =>
         InRun(coord[flock[r].writer]) /\ Here(flock[r].writer) = r
    /\ \A r \in Run : ~store[r].made =>
         /\ store[r].log = <<>> /\ flock[r].writer = Nobody
         /\ \A p \in Coord : coord[p].pc \in {"lockfile", "flock"} => Here(p) # r
    /\ \A p \in Coord : coord[p].pc \in {"lockfile", "flock"} =>
         /\ store[Here(p)].log = <<>> /\ flock[Here(p)].writer = Nobody
         /\ \A q \in Coord \ {p} : coord[q].pc \in {"lockfile", "flock"} => Here(q) # Here(p)

\* What the log says of the messages is true of the terminal: one more than
\* were settled may have been typed, and then was asked for in the log.
Truthful(s, w) ==
    LET n == Count(s.log, Settling)
        asked == Count(s.log, {"delivery_requested"})
        sent == Count(s.log, {"delivery_sent"})
    IN /\ n <= NumEvents
       /\ Len(w.got) \in {n, n + 1} /\ asked \in {n, n + 1} /\ sent <= asked
       /\ Len(w.got) = n + 1 => asked = n + 1
       /\ sent >= n + 1 => Len(w.got) = n + 1

\* The artifacts of the first k - 1 entries of the plan.
Files(k) == {Plan[j].of : j \in {i \in 1 .. k - 1 : IsFile(Plan[i])}}

\* A log that ends has its evidence, and no error came before its end.
Evidenced(s) ==
    Finished(s.log) > 0 => /\ Finished(s.log) = 1 /\ ErrorsAfterEnd(s.log)
                           /\ s.files = Evidence /\ Recorded(s.log) = Evidence

\* What a coordinator in a run knows of its log ...
Known(c, s) ==
    /\ Place(c) \in Working \cup {"error"} => Finished(s.log) = 0
    /\ Place(c) \in Working => Count(s.log, {"run_error"}) = 0
    /\ Place(c) \in Working \ {"evidence"} => Count(s.log, Collected) = 0
    /\ Place(c) = "evidence" =>
         /\ c.step \in 1 .. Len(Plan) + 1 /\ Files(c.step) \subseteq s.files
         /\ Recorded(IF c.pc = "append" THEN Append(s.log, c.ev) ELSE s.log) = Files(c.step)

\* ... and of what it is about to append, or to type.
Pending(c, s, w) ==
    LET n == Count(s.log, Settling)
        asked == Count(s.log, {"delivery_requested"})
        sent == Count(s.log, {"delivery_sent"})
    IN /\ c.pc = "append" =>
            /\ c.ev.type \in Settling => sent >= n + 1 /\ n < NumEvents
            /\ c.ev.type = "delivery_requested" => asked = n /\ n < NumEvents
            /\ c.ev.type = "delivery_sent" => Len(w.got) = n + 1 /\ sent <= n
            /\ c.ev.type = "run_finished" =>
                 /\ Finished(s.log) = 0 /\ Count(s.log, {"run_error"}) = 0
                 /\ s.files = Evidence /\ Recorded(s.log) = Evidence
       /\ c.pc \in {"snapshot", "send"} /\ Place(c) = "send" =>
            asked = n + 1 /\ Len(w.got) = n /\ n < NumEvents

\* A worker that runs and is nobody's fault has a coordinator to stop it.
Attended(w) == w.state = "running" /\ ~w.loose
Minded(c, w) == ~c.mine /\ c.pc # "started" => ~Attended(w)

RunOK(r) == /\ Truthful(store[r], worker[r]) /\ Evidenced(store[r])
            /\ Attended(worker[r]) => flock[r].writer # Nobody

CoordOK(p) == InRun(coord[p]) =>
    /\ Known(coord[p], store[Here(p)])
    /\ Pending(coord[p], store[Here(p)], worker[Here(p)])
    /\ Minded(coord[p], worker[Here(p)])

IInv ==
    /\ Types /\ Turns
    /\ \A r \in Run : RunOK(r)
    /\ \A p \in Coord : CoordOK(p)
    /\ report => \A r \in Run : Finished(store[r].log) > 0

-----------------------------------------------------------------------------
(* Counting in a log                                                        *)

LEMMA CountFinite ==
    ASSUME NEW log \in Seq(Event), NEW T
    PROVE  /\ {k \in DOMAIN log : log[k].type \in T} \subseteq 1 .. Len(log)
           /\ IsFiniteSet({k \in DOMAIN log : log[k].type \in T})
           /\ Count(log, T) \in Nat
  <1>1. {k \in DOMAIN log : log[k].type \in T} \subseteq 1 .. Len(log)
    BY LenProperties
  <1>2. IsFiniteSet(1 .. Len(log))
    BY FS_Interval, LenProperties
  <1>3. IsFiniteSet({k \in DOMAIN log : log[k].type \in T})
    BY <1>1, <1>2, FS_Subset
  <1> QED BY <1>1, <1>3, FS_CardinalityType DEF Count

LEMMA CountEmpty ==
    ASSUME NEW T PROVE Count(<<>>, T) = 0
  <1>1. {k \in DOMAIN <<>> : <<>>[k].type \in T} = {}
    OBVIOUS
  <1> QED BY <1>1, FS_EmptySet DEF Count

LEMMA CountZero ==
    ASSUME NEW log \in Seq(Event), NEW T, Count(log, T) = 0
    PROVE  \A k \in DOMAIN log : log[k].type \notin T
  <1>1. {k \in DOMAIN log : log[k].type \in T} = {}
    BY CountFinite, FS_EmptySet DEF Count
  <1> QED BY <1>1

LEMMA CountMonotone ==
    ASSUME NEW log \in Seq(Event), NEW T, NEW U, T \subseteq U
    PROVE  Count(log, T) <= Count(log, U)
  <1>1. {k \in DOMAIN log : log[k].type \in T} \subseteq {k \in DOMAIN log : log[k].type \in U}
    OBVIOUS
  <1> QED BY <1>1, CountFinite, FS_Subset DEF Count

LEMMA CountAppend ==
    ASSUME NEW log \in Seq(Event), NEW e \in Event, NEW T
    PROVE  Count(Append(log, e), T) = IF e.type \in T THEN Count(log, T) + 1 ELSE Count(log, T)
  <1> DEFINE A == {k \in DOMAIN log : log[k].type \in T}
             B == {k \in DOMAIN Append(log, e) : Append(log, e)[k].type \in T}
  <1>1. /\ DOMAIN log = 1 .. Len(log) /\ DOMAIN Append(log, e) = 1 .. Len(log) + 1
        /\ Len(log) \in Nat
        /\ \A k \in 1 .. Len(log) : Append(log, e)[k] = log[k]
        /\ Append(log, e)[Len(log) + 1] = e
    BY AppendProperties, LenProperties
  <1>2. CASE e.type \in T
    <2>1. B = A \cup {Len(log) + 1} /\ Len(log) + 1 \notin A
      BY <1>1, <1>2
    <2>2. IsFiniteSet(A)
      BY CountFinite
    <2> QED BY <1>2, <2>1, <2>2, FS_AddElement DEF Count
  <1>3. CASE e.type \notin T
    <2>1. B = A
      BY <1>1, <1>3
    <2> QED BY <1>3, <2>1 DEF Count
  <1> QED BY <1>2, <1>3

LEMMA RecordedAppend ==
    ASSUME NEW log \in Seq(Event), NEW e \in Event
    PROVE  Recorded(Append(log, e)) = Recorded(log) \cup (IF IsFile(e) THEN {e.of} ELSE {})
  <1>1. /\ DOMAIN log = 1 .. Len(log) /\ DOMAIN Append(log, e) = 1 .. Len(log) + 1
        /\ Len(log) \in Nat
        /\ \A k \in 1 .. Len(log) : Append(log, e)[k] = log[k]
        /\ Append(log, e)[Len(log) + 1] = e
    BY AppendProperties, LenProperties
  <1>2. \A k : k \in 1 .. Len(log) + 1 <=> k \in 1 .. Len(log) \/ k = Len(log) + 1
    BY <1>1
  <1> QED BY <1>1, <1>2 DEF Recorded, IsFile

LEMMA ErrorsAppend ==
    ASSUME NEW log \in Seq(Event), NEW e \in Event, ErrorsAfterEnd(log),
           e.type = "run_error" => Finished(log) > 0
    PROVE  ErrorsAfterEnd(Append(log, e))
  <1>1. /\ DOMAIN log = 1 .. Len(log) /\ DOMAIN Append(log, e) = 1 .. Len(log) + 1
        /\ Len(log) \in Nat
        /\ \A k \in 1 .. Len(log) : Append(log, e)[k] = log[k]
        /\ Append(log, e)[Len(log) + 1] = e
    BY AppendProperties, LenProperties
  <1>2. ASSUME NEW k \in 1 .. Len(log), log[k].type = "run_error"
        PROVE  \E j \in 1 .. k : Append(log, e)[j].type = "run_finished"
    <2>1. PICK j \in 1 .. k : log[j].type = "run_finished"
      BY <1>1, <1>2 DEF ErrorsAfterEnd
    <2> QED BY <1>1, <2>1
  <1>3. ASSUME e.type = "run_error"
        PROVE  \E j \in 1 .. Len(log) + 1 : Append(log, e)[j].type = "run_finished"
    <2>1. {k \in DOMAIN log : log[k].type \in {"run_finished"}} # {}
      <3>1. Count(log, {"run_finished"}) > 0
        BY <1>3 DEF Finished
      <3> DEFINE A == {k \in DOMAIN log : log[k].type \in {"run_finished"}}
      <3>2. Cardinality(A) > 0
        BY <3>1 DEF Count
      <3> HIDE DEF A
      <3>3. A # {}
        BY <3>2, FS_EmptySet
      <3> QED BY <3>3 DEF A
    <2>2. PICK j \in 1 .. Len(log) : log[j].type = "run_finished"
      BY <1>1, <2>1
    <2> QED BY <1>1, <2>2
  <1> QED BY <1>1, <1>2, <1>3 DEF ErrorsAfterEnd

LEMMA NoErrors ==
    ASSUME NEW log \in Seq(Event), Count(log, {"run_error"}) = 0 PROVE ErrorsAfterEnd(log)
  BY CountZero DEF ErrorsAfterEnd

\* A log without evidence or error says so in every way it is asked.
LEMMA Uncollected ==
    ASSUME NEW log \in Seq(Event), Count(log, Collected) = 0
    PROVE  Finished(log) = 0 /\ Count(log, {"run_error"}) = 0 /\ Recorded(log) = {}
  <1>1. Count(log, {"run_finished"}) <= 0 /\ Count(log, {"run_error"}) <= 0
    BY CountMonotone DEF Collected
  <1>2. Count(log, {"run_finished"}) \in Nat /\ Count(log, {"run_error"}) \in Nat
    BY CountFinite
  <1>3. \A k \in DOMAIN log : log[k].type # "artifact_recorded"
    BY CountZero DEF Collected
  <1> QED BY <1>1, <1>2, <1>3 DEF Finished, Recorded

-----------------------------------------------------------------------------
(* The plan                                                                 *)

Noted == {e \in Event : e.type \in Notes}

LEMMA EventsTyped ==
    /\ \A t \in EventType : Ev(t) \in Event /\ Ev(t).type = t
    /\ \A t \in EventType, i \in 0 .. NumEvents :
         EvMsg(t, i) \in Event /\ EvMsg(t, i).type = t
    /\ \A t \in EventType, name \in Name :
         EvOf(t, name) \in Event /\ EvOf(t, name).type = t /\ EvOf(t, name).of = name
  <1>1. <<"", "", "">> \in Name /\ 0 \in 0 .. NumEvents
    <2>1. "" \in Subject
      BY DEF Subject
    <2>2. 0 \in 0 .. NumEvents
      BY ArenaAssumption
    <2> QED BY <2>1, <2>2 DEF Name
  <1>2. ASSUME NEW t \in EventType PROVE Ev(t) \in Event /\ Ev(t).type = t
    <2>1. ASSUME NEW n \in Name, NEW i \in 0 .. NumEvents
          PROVE  [type |-> t, of |-> n, msg |-> i, mark |-> 0] \in Event
      BY DEF Event
    <2>2. Ev(t) \in Event
      BY <1>1, <2>1 DEF Ev
    <2>3. Ev(t).type = t
      BY DEF Ev
    <2> QED BY <2>2, <2>3
  <1>3. ASSUME NEW e \in Event
        PROVE  /\ \A i \in 0 .. NumEvents : [e EXCEPT !.msg = i] \in Event /\ [e EXCEPT !.msg = i].type = e.type
               /\ \A n \in Name : /\ [e EXCEPT !.of = n] \in Event
                                  /\ [e EXCEPT !.of = n].type = e.type /\ [e EXCEPT !.of = n].of = n
    BY DEF Event
  <1>4. ASSUME NEW t \in EventType, NEW i \in 0 .. NumEvents
        PROVE  EvMsg(t, i) \in Event /\ EvMsg(t, i).type = t
    <2> DEFINE e == Ev(t)
    <2>1. e \in Event /\ e.type = t
      BY <1>2
    <2> HIDE DEF e
    <2>2. [e EXCEPT !.msg = i] \in Event /\ [e EXCEPT !.msg = i].type = t
      BY <1>3, <2>1
    <2> QED BY <2>2 DEF EvMsg, e
  <1>5. ASSUME NEW t \in EventType, NEW name \in Name
        PROVE  EvOf(t, name) \in Event /\ EvOf(t, name).type = t /\ EvOf(t, name).of = name
    <2> DEFINE e == Ev(t)
    <2>1. e \in Event /\ e.type = t
      BY <1>2
    <2> HIDE DEF e
    <2>2. /\ [e EXCEPT !.of = name] \in Event /\ [e EXCEPT !.of = name].type = t
          /\ [e EXCEPT !.of = name].of = name
      BY <1>3, <2>1
    <2> QED BY <2>2 DEF EvOf, e
  <1> QED BY <1>2, <1>4, <1>5

\* A message sent, with how much had been printed then.
LEMMA SentTyped ==
    ASSUME NEW i \in 0 .. NumEvents, NEW m \in Nat
    PROVE  /\ [EvMsg("delivery_sent", i) EXCEPT !.mark = m] \in Event
           /\ [EvMsg("delivery_sent", i) EXCEPT !.mark = m].type = "delivery_sent"
  <1> DEFINE e == EvMsg("delivery_sent", i)
  <1>1. e \in Event /\ e.type = "delivery_sent"
    BY EventsTyped DEF EventType
  <1> HIDE DEF e
  <1>2. [e EXCEPT !.mark = m] \in Event /\ [e EXCEPT !.mark = m].type = "delivery_sent"
    BY <1>1 DEF Event
  <1> QED BY <1>2 DEF e

LEMMA FourEach ==
    ASSUME NEW S, NEW ids \in Seq(S), NEW F,
           \A id \in S : F[id] \in [1 .. 4 -> Noted]
    PROVE  [k \in 1 .. 4 * Len(ids) |-> F[ids[(k + 3) \div 4]][1 + ((k - 1) % 4)]] \in Seq(Noted)
  <1>1. ASSUME NEW k \in 1 .. 4 * Len(ids)
        PROVE  (k + 3) \div 4 \in 1 .. Len(ids) /\ 1 + ((k - 1) % 4) \in 1 .. 4
    BY LenProperties
  <1>2. \A k \in 1 .. 4 * Len(ids) : F[ids[(k + 3) \div 4]][1 + ((k - 1) % 4)] \in Noted
    BY <1>1, ElementOfSeq
  <1>3. 4 * Len(ids) \in Nat
    BY LenProperties
  <1> QED BY <1>2, <1>3, SeqDef

LEMMA SubjectsTyped == Checks \in Seq(Subject) /\ Judges \in Seq(Subject) /\ "" \in Subject
  <1>1. ASSUME NEW s \in Seq(STRING), \A k \in DOMAIN s : s[k] \in Subject PROVE s \in Seq(Subject)
    <2>1. Len(s) \in Nat /\ s \in [1 .. Len(s) -> STRING]
      BY LenProperties
    <2>2. s \in [1 .. Len(s) -> Subject]
      BY <1>1, <2>1
    <2> QED BY <2>1, <2>2, SeqDef
  <1>2. /\ \A k \in DOMAIN Checks : Checks[k] \in Subject
        /\ \A k \in DOMAIN Judges : Judges[k] \in Subject
        /\ "" \in Subject
    BY DEF Subject
  <1> QED BY <1>1, <1>2, ArenaAssumption

LEMMA CheckNoted == \A id \in Subject : CheckEvidence(id) \in [1 .. 4 -> Noted]
  <1> SUFFICES ASSUME NEW id \in Subject PROVE CheckEvidence(id) \in [1 .. 4 -> Noted]
    OBVIOUS
  <1>1. <<"checks", id, "stdout">> \in Name /\ <<"checks", id, "json">> \in Name
    BY DEF Name
  <1>2. /\ Artifact("checks", id, "stdout") \in Noted /\ Artifact("checks", id, "json") \in Noted
        /\ Ev("check_started") \in Noted /\ Ev("check_completed") \in Noted
    BY <1>1, EventsTyped DEF Artifact, Noted, Notes, EventType
  <1> QED BY <1>2 DEF CheckEvidence

LEMMA JudgeNoted == \A id \in Subject : JudgeEvidence(id) \in [1 .. 4 -> Noted]
  <1> SUFFICES ASSUME NEW id \in Subject PROVE JudgeEvidence(id) \in [1 .. 4 -> Noted]
    OBVIOUS
  <1>1. <<"judges", id, "raw.stdout">> \in Name /\ <<"judges", id, "result.json">> \in Name
    BY DEF Name
  <1>2. /\ Artifact("judges", id, "raw.stdout") \in Noted /\ Artifact("judges", id, "result.json") \in Noted
        /\ Ev("judge_started") \in Noted /\ Ev("judge_completed") \in Noted
    BY <1>1, EventsTyped DEF Artifact, Noted, Notes, EventType
  <1> QED BY <1>2 DEF JudgeEvidence

LEMMA PlanTyped == Plan \in Seq(Noted)
  <1> DEFINE checks == [k \in 1 .. 4 * Len(Checks) |-> CheckEvidence(Checks[(k + 3) \div 4])[1 + ((k - 1) % 4)]]
             judges == [k \in 1 .. 4 * Len(Judges) |-> JudgeEvidence(Judges[(k + 3) \div 4])[1 + ((k - 1) % 4)]]
             before == <<Artifact("worker", "", "terminal.log"), Artifact("worker", "", "tmux-result.json"),
                         Artifact("worker", "", "workspace.diff")>>
             checked == <<Artifact("checks", "", "summary.json")>>
             judged == <<EvOf("artifact_recorded", Summary)>>
  <1>1. checks \in Seq(Noted)
    <2> DEFINE F == [id \in Subject |-> CheckEvidence(id)]
    <2>1. \A id \in Subject : F[id] \in [1 .. 4 -> Noted]
      BY CheckNoted
    <2>2. ASSUME NEW k \in 1 .. 4 * Len(Checks)
          PROVE  F[Checks[(k + 3) \div 4]] = CheckEvidence(Checks[(k + 3) \div 4])
      <3>1. (k + 3) \div 4 \in 1 .. Len(Checks)
        BY ArenaAssumption, LenProperties
      <3> QED BY <3>1, SubjectsTyped, ElementOfSeq
    <2> HIDE DEF F
    <2>3. [k \in 1 .. 4 * Len(Checks) |-> F[Checks[(k + 3) \div 4]][1 + ((k - 1) % 4)]] \in Seq(Noted)
      BY <2>1, FourEach, SubjectsTyped
    <2>4. checks = [k \in 1 .. 4 * Len(Checks) |-> F[Checks[(k + 3) \div 4]][1 + ((k - 1) % 4)]]
      BY <2>2
    <2> QED BY <2>3, <2>4
  <1>2. judges \in Seq(Noted)
    <2> DEFINE F == [id \in Subject |-> JudgeEvidence(id)]
    <2>1. \A id \in Subject : F[id] \in [1 .. 4 -> Noted]
      BY JudgeNoted
    <2>2. ASSUME NEW k \in 1 .. 4 * Len(Judges)
          PROVE  F[Judges[(k + 3) \div 4]] = JudgeEvidence(Judges[(k + 3) \div 4])
      <3>1. (k + 3) \div 4 \in 1 .. Len(Judges)
        BY ArenaAssumption, LenProperties
      <3> QED BY <3>1, SubjectsTyped, ElementOfSeq
    <2> HIDE DEF F
    <2>3. [k \in 1 .. 4 * Len(Judges) |-> F[Judges[(k + 3) \div 4]][1 + ((k - 1) % 4)]] \in Seq(Noted)
      BY <2>1, FourEach, SubjectsTyped
    <2>4. judges = [k \in 1 .. 4 * Len(Judges) |-> F[Judges[(k + 3) \div 4]][1 + ((k - 1) % 4)]]
      BY <2>2
    <2> QED BY <2>3, <2>4
  <1>3. /\ <<"worker", "", "terminal.log">> \in Name /\ <<"worker", "", "tmux-result.json">> \in Name
        /\ <<"worker", "", "workspace.diff">> \in Name /\ <<"checks", "", "summary.json">> \in Name
        /\ Summary \in Name
    BY SubjectsTyped DEF Name, Summary
  <1>4. \A name \in Name : EvOf("artifact_recorded", name) \in Noted
    BY EventsTyped DEF Noted, Notes, EventType
  <1>5. before \in Seq(Noted) /\ checked \in Seq(Noted) /\ judged \in Seq(Noted)
    <2>1. \A a, b, c \in Noted : <<a, b, c>> \in Seq(Noted) /\ <<a>> \in Seq(Noted)
      OBVIOUS
    <2> QED BY <2>1, <1>3, <1>4 DEF Artifact
  <1>6. \A a, b \in Seq(Noted) : a \o b \in Seq(Noted)
    BY ConcatProperties
  <1>7. Plan = before \o checks \o checked \o judges \o judged
    BY DEF Plan
  <1> HIDE DEF checks, judges, before, checked, judged
  <1> QED BY <1>1, <1>2, <1>5, <1>6, <1>7

LEMMA PlanEntries ==
    /\ Len(Plan) \in Nat /\ DOMAIN Plan = 1 .. Len(Plan)
    /\ \A k \in 1 .. Len(Plan) : Plan[k] \in Event /\ Plan[k].type \in Notes
  BY PlanTyped, LenProperties, ElementOfSeq DEF Noted

LEMMA FilesOfPlan ==
    /\ Files(1) = {} /\ Files(Len(Plan) + 1) = Evidence /\ Evidence \subseteq Name
    /\ \A k \in 1 .. Len(Plan) :
         /\ Files(k + 1) = Files(k) \cup (IF IsFile(Plan[k]) THEN {Plan[k].of} ELSE {})
         /\ Files(k) \subseteq Evidence
         /\ IsFile(Plan[k]) => Plan[k].of \in Evidence
  <1>1. Files(1) = {}
    BY DEF Files
  <1>2. Files(Len(Plan) + 1) = Evidence
    BY PlanEntries DEF Files, Evidence
  <1>3. Evidence \subseteq Name
    BY PlanEntries DEF Evidence, Event
  <1>4. ASSUME NEW k \in 1 .. Len(Plan)
        PROVE  /\ Files(k + 1) = Files(k) \cup (IF IsFile(Plan[k]) THEN {Plan[k].of} ELSE {})
               /\ Files(k) \subseteq Evidence
               /\ IsFile(Plan[k]) => Plan[k].of \in Evidence
    <2>1. \A i : i \in 1 .. (k + 1) - 1 <=> i \in 1 .. k - 1 \/ i = k
      BY PlanEntries
    <2>2. \A i \in 1 .. k - 1 : i \in DOMAIN Plan
      BY PlanEntries
    <2>3. k \in DOMAIN Plan
      BY PlanEntries
    <2> QED BY <2>1, <2>2, <2>3 DEF Files, Evidence
  <1> QED BY <1>1, <1>2, <1>3, <1>4

-----------------------------------------------------------------------------
(* The records                                                              *)

StoreRecord ==
    [made : BOOLEAN, lockfile : BOOLEAN, torn : BOOLEAN, log : Seq(Event),
     snap : [at : Nat, state : State], files : SUBSET Evidence, private : {"none", "made", "ready"}]
FlockRecord == [writer : Coord \cup {Nobody}, readers : SUBSET Coord]
WorkerRecord ==
    [state : Gone \cup {"absent", "running"}, got : Seq(1..NumEvents), out : Seq(1..NumEvents),
     loose : BOOLEAN]

LEMMA Typed ==
    TypeOK <=> /\ store \in [Run -> StoreRecord] /\ flock \in [Run -> FlockRecord]
               /\ worker \in [Run -> WorkerRecord] /\ report \in BOOLEAN
  BY DEF TypeOK, StoreRecord, FlockRecord, WorkerRecord

LEMMA AppendingShape ==
    ASSUME NEW c \in CoordRecord, NEW e \in Event, NEW state \in State, NEW then \in Places
    PROVE  LET d == Appending(c, e, state, then) IN
           /\ d \in CoordRecord /\ d.pc = "append" /\ d.ev = e /\ d.then = then
           /\ d.at = c.at /\ d.step = c.step /\ d.mine = c.mine /\ d.fresh = c.fresh
  <1>1. "append" \in Places
    BY DEF Places, Inside
  <1> QED BY <1>1 DEF CoordRecord, Appending

LEMMA GoShape ==
    ASSUME NEW c \in CoordRecord, NEW pc \in Places
    PROVE  LET d == [c EXCEPT !.pc = pc] IN
           /\ d \in CoordRecord /\ d.pc = pc /\ d.ev = c.ev /\ d.then = c.then
           /\ d.at = c.at /\ d.step = c.step /\ d.mine = c.mine
  BY DEF CoordRecord

\* Where a coordinator in a run is.
LEMMA RunTyped ==
    ASSUME IInv, NEW p \in Coord, coord[p].pc \notin Outside
    PROVE  /\ coord[p] \in CoordRecord /\ Here(p) \in Run
           /\ store[Here(p)] \in StoreRecord /\ worker[Here(p)] \in WorkerRecord
           /\ flock[Here(p)] \in FlockRecord
           /\ store[Here(p)].log \in Seq(Event)
  <1>1. coord[p] \in CoordRecord
    BY DEF IInv, Types
  <1>2. coord[p].at \in 1 .. Len(Assignments)
    <2>1. coord[p].at \in Nat /\ coord[p].at # 0
      BY <1>1 DEF CoordRecord
    <2>2. coord[p].at <= Len(Assignments)
      BY DEF IInv, Types, CoordShape
    <2>3. Len(Assignments) \in Nat
      BY ArenaAssumption, LenProperties
    <2> QED BY <2>1, <2>2, <2>3
  <1>3. Here(p) \in Run
    BY <1>2, ArenaAssumption, ElementOfSeq DEF Here
  <1>4. store[Here(p)] \in StoreRecord /\ worker[Here(p)] \in WorkerRecord /\ flock[Here(p)] \in FlockRecord
    BY <1>3, Typed DEF IInv, Types
  <1> QED BY <1>1, <1>3, <1>4 DEF StoreRecord

LEMMA InRunInside ==
    ASSUME NEW c, InRun(c)
    PROVE  c.pc \notin Outside /\ c.pc \notin {"lockfile", "flock"}
  BY DEF InRun, Inside, Outside

\* A step of a coordinator within its run keeps the invariant of the others.
LEMMA Within ==
    ASSUME IInv, NEW p \in Coord, InRun(coord[p]),
           coord' \in [Coord -> CoordRecord], \A q \in Coord \ {p} : coord'[q] = coord[q],
           InRun(coord'[p]), coord'[p].at = coord[p].at, CoordShape(coord'[p]),
           store' \in [Run -> StoreRecord], worker' \in [Run -> WorkerRecord],
           \A r \in Run \ {Here(p)} : store'[r] = store[r] /\ worker'[r] = worker[r],
           store'[Here(p)].made = store[Here(p)].made, flock' = flock, report' = report,
           Finished(store[Here(p)].log) > 0 => Finished(store'[Here(p)].log) > 0,
           Truthful(store'[Here(p)], worker'[Here(p)]), Evidenced(store'[Here(p)]),
           Known(coord'[p], store'[Here(p)]),
           Pending(coord'[p], store'[Here(p)], worker'[Here(p)]),
           Minded(coord'[p], worker'[Here(p)])
    PROVE  IInv'
  <1>1. coord[p].pc \notin Outside
    BY InRunInside
  <1>2. Here(p) \in Run /\ flock[Here(p)].writer = p /\ p # Nobody
    BY <1>1, RunTyped, ArenaAssumption DEF IInv, Turns
  <1>3. Here(p)' = Here(p) /\ \A q \in Coord : Here(q)' = Here(q)
    BY DEF Here
  <1>4. Types'
    <2>1. TypeOK'
      <3>1. report' \in BOOLEAN /\ flock' \in [Run -> FlockRecord]
        BY Typed DEF IInv, Types
      <3> QED BY <3>1 DEF TypeOK, StoreRecord, FlockRecord, WorkerRecord
    <2>2. \A q \in Coord : CoordShape(coord'[q])
      BY DEF IInv, Types
    <2> QED BY <2>1, <2>2 DEF Types
  <1>5. Turns'
    <2>1. \A q \in Coord : InRun(coord'[q]) => InRun(coord[q])
      OBVIOUS
    <2>2. \A q \in Coord : InRun(coord[q]) => InRun(coord'[q])
      OBVIOUS
    <2>3. coord'[p].pc \notin {"lockfile", "flock"} /\ coord[p].pc \notin {"lockfile", "flock"}
      BY InRunInside
    <2>4. \A q \in Coord : coord'[q].pc \in {"lockfile", "flock"} => q # p /\ coord[q].pc \in {"lockfile", "flock"}
      BY <2>3
    <2>5. store[Here(p)].made
      BY <1>2 DEF IInv, Turns
    <2>6. \A r \in Run : ~store'[r].made => r # Here(p) /\ ~store[r].made
      BY <2>5
    <2>7. \A q \in Coord : InRun(coord'[q]) => flock'[Here(q)'].writer = q
      BY <2>1, <1>3 DEF IInv, Turns
    <2>8. (\A r \in Run : flock[r].writer # Nobody =>
             InRun(coord[flock[r].writer]) /\ Here(flock[r].writer) = r)'
      <3> SUFFICES ASSUME NEW r \in Run, flock[r].writer # Nobody
                   PROVE  /\ InRun(coord'[flock[r].writer])
                          /\ Assignments[coord'[flock[r].writer].at] = r
        BY DEF Here
      <3>1. flock[r].writer \in Coord
        BY Typed DEF IInv, Types, FlockRecord
      <3>2. InRun(coord[flock[r].writer]) /\ Here(flock[r].writer) = r
        BY DEF IInv, Turns
      <3>3. coord'[flock[r].writer].at = coord[flock[r].writer].at
        BY <3>1
      <3> QED BY <3>1, <3>2, <3>3, <2>2 DEF Here
    <2>9. \A r \in Run : ~store'[r].made =>
            /\ store'[r].log = <<>> /\ flock'[r].writer = Nobody
            /\ \A q \in Coord : coord'[q].pc \in {"lockfile", "flock"} => Here(q)' # r
      BY <2>4, <2>6, <1>3 DEF IInv, Turns
    <2>10. \A q \in Coord : coord'[q].pc \in {"lockfile", "flock"} =>
            /\ store'[Here(q)'].log = <<>> /\ flock'[Here(q)'].writer = Nobody
            /\ \A o \in Coord \ {q} : coord'[o].pc \in {"lockfile", "flock"} => Here(o)' # Here(q)'
      <3> SUFFICES ASSUME NEW q \in Coord, coord'[q].pc \in {"lockfile", "flock"}
                   PROVE  /\ store'[Here(q)].log = <<>> /\ flock[Here(q)].writer = Nobody
                          /\ \A o \in Coord \ {q} :
                               coord'[o].pc \in {"lockfile", "flock"} => Here(o) # Here(q)
        BY <1>3
      <3>1. q # p /\ coord[q].pc \in {"lockfile", "flock"}
        BY <2>4
      <3>2. /\ store[Here(q)].log = <<>> /\ flock[Here(q)].writer = Nobody
            /\ \A o \in Coord \ {q} : coord[o].pc \in {"lockfile", "flock"} => Here(o) # Here(q)
        BY <3>1 DEF IInv, Turns
      <3>3. Here(q) \in Run
        BY <3>1, RunTyped DEF Outside
      <3>4. Here(q) # Here(p)
        BY <3>2, <1>2
      <3> QED BY <3>1, <3>2, <3>3, <3>4, <2>4
    <2> QED BY <2>7, <2>8, <2>9, <2>10 DEF Turns
  <1>6. \A r \in Run : RunOK(r)'
    <2> SUFFICES ASSUME NEW r \in Run PROVE RunOK(r)'
      OBVIOUS
    <2>1. CASE r = Here(p)
      BY <2>1, <1>2 DEF RunOK
    <2>2. CASE r # Here(p)
      <3>1. RunOK(r) /\ store'[r] = store[r] /\ worker'[r] = worker[r]
        BY <2>2 DEF IInv
      <3> QED BY <3>1 DEF RunOK
    <2> QED BY <2>1, <2>2
  <1>7. \A q \in Coord : CoordOK(q)'
    <2> SUFFICES ASSUME NEW q \in Coord, InRun(coord'[q])
                 PROVE  /\ Known(coord'[q], store'[Here(q)'])
                        /\ Pending(coord'[q], store'[Here(q)'], worker'[Here(q)'])
                        /\ Minded(coord'[q], worker'[Here(q)'])
      BY DEF CoordOK
    <2>1. CASE q = p
      BY <2>1, <1>3
    <2>2. CASE q # p
      <3>1. InRun(coord[q]) /\ coord'[q] = coord[q]
        BY <2>2
      <3>2. flock[Here(q)].writer = q /\ Here(q) \in Run
        BY <3>1, InRunInside, RunTyped DEF IInv, Turns
      <3>3. Here(q) # Here(p)
        BY <3>2, <2>2, <1>2
      <3> QED BY <3>1, <3>2, <3>3, <1>3 DEF IInv, CoordOK
    <2> QED BY <2>1, <2>2
  <1>8. report' => \A r \in Run : Finished(store'[r].log) > 0
    <2>1. ASSUME report, NEW r \in Run PROVE Finished(store[r].log) > 0
      BY <2>1 DEF IInv
    <2>2. ASSUME report, NEW r \in Run PROVE Finished(store'[r].log) > 0
      <3>1. CASE r = Here(p)
        BY <2>1, <2>2, <3>1
      <3>2. CASE r # Here(p)
        BY <2>1, <2>2, <3>2
      <3> QED BY <3>1, <3>2
    <2> QED BY <2>2
  <1> QED BY <1>4, <1>5, <1>6, <1>7, <1>8 DEF IInv

-----------------------------------------------------------------------------
(* Steps within a run that leave its log to others                          *)

LEMMA PlacesOfAppends ==
    \A type, then : <<type, then>> \in Appends =>
        /\ then \in Places /\ then \in Inside \cup {"leave"} /\ then \notin {"append", "snapshot", "started"}
        /\ then \notin Outside \cup Reading \cup Making
        /\ type = "run_finished" => then = "leave"
        /\ type = "run_error" => then = "leave"
        /\ then = "send" <=> type = "delivery_requested"
        /\ type \in Notes <=> then = "evidence"
        /\ type \in Settling \cup {"delivery_sent"} => then = "deadline"
  BY DEF Appends, Notes, Places, Inside, Outside, Reading, Making, Settling

LEMMA Quietly ==
    ASSUME IInv, NEW p \in Coord, InRun(coord[p]), NEW d \in CoordRecord,
           coord' = [coord EXCEPT ![p] = d], InRun(d), d.at = coord[p].at, CoordShape(d),
           UNCHANGED <<store, flock, worker, report>>,
           Known(d, store[Here(p)]), Pending(d, store[Here(p)], worker[Here(p)]), Minded(d, worker[Here(p)])
    PROVE  IInv'
  <1>1. coord \in [Coord -> CoordRecord]
    BY DEF IInv, Types
  <1>2. coord' \in [Coord -> CoordRecord] /\ coord'[p] = d /\ \A q \in Coord \ {p} : coord'[q] = coord[q]
    BY <1>1
  <1>3. store \in [Run -> StoreRecord] /\ worker \in [Run -> WorkerRecord]
    BY Typed DEF IInv, Types
  <1>4. Here(p) \in Run
    BY InRunInside, RunTyped
  <1>5. RunOK(Here(p))
    BY <1>4 DEF IInv
  <1> QED BY <1>2, <1>3, <1>5, Within DEF RunOK

\* What a coordinator knows of a log that nothing was collected for.
LEMMA Onward ==
    ASSUME NEW c, NEW d, NEW s, NEW t, t.log = s.log,
           Known(c, s), Place(c) \in Working \ {"evidence"}, Place(d) # "evidence"
    PROVE  Known(d, t)
  BY DEF Known, Working

LEMMA Going ==
    ASSUME IInv, NEW p \in Coord, coord[p].pc \in Working \ {"evidence", "started"},
           NEW d \in CoordRecord, coord' = [coord EXCEPT ![p] = d],
           d.pc \in {"control", "decide", "collect", "error"}, d.at = coord[p].at, d.mine = coord[p].mine,
           UNCHANGED <<store, flock, worker, report>>
    PROVE  IInv'
  <1>1. InRun(coord[p]) /\ InRun(d)
    BY DEF InRun, Inside, Working, Starting
  <1>2. Place(coord[p]) \in Working \ {"evidence"} /\ Place(d) = d.pc
    BY DEF Place, Working, Starting
  <1>3. CoordOK(p) /\ CoordShape(coord[p])
    BY DEF IInv, Types
  <1>4. Known(d, store[Here(p)])
    BY <1>1, <1>2, <1>3, Onward DEF CoordOK
  <1>5. Pending(d, store[Here(p)], worker[Here(p)])
    BY <1>2 DEF Pending
  <1>6. Minded(d, worker[Here(p)])
    BY <1>1, <1>3 DEF CoordOK, Minded
  <1>7. CoordShape(d)
    BY <1>1, <1>2, <1>3, InRunInside DEF CoordShape, Outside, Reading, Making, Starting
  <1> QED BY <1>1, <1>4, <1>5, <1>6, <1>7, Quietly

LEMMA Jotting ==
    ASSUME IInv, NEW p \in Coord, coord[p].pc \in Working \ {"evidence", "started"},
           NEW e \in Event, NEW state \in State, NEW then,
           LogThen(p, e, state, then), <<e.type, then>> \in Appends, then # "evidence",
           then \in Starting => coord[p].pc \in Starting,
           \A d : d.pc = "append" /\ d.ev = e => Pending(d, store[Here(p)], worker[Here(p)]),
           UNCHANGED <<store, flock, worker, report>>
    PROVE  IInv'
  <1> DEFINE d == Appending(coord[p], e, state, then)
  <1>1. InRun(coord[p])
    BY DEF InRun, Inside, Working, Starting
  <1>2. coord[p] \in CoordRecord /\ CoordOK(p) /\ CoordShape(coord[p])
    BY DEF IInv, Types
  <1>3. then \in Places
    BY PlacesOfAppends
  <1>4. /\ d \in CoordRecord /\ d.pc = "append" /\ d.ev = e /\ d.then = then
        /\ d.at = coord[p].at /\ d.mine = coord[p].mine
    BY <1>2, <1>3, AppendingShape
  <1>5. coord' = [coord EXCEPT ![p] = d]
    BY DEF LogThen
  <1> HIDE DEF d
  <1>6. Place(coord[p]) = coord[p].pc /\ Place(d) = then
    BY <1>4 DEF Place, Working, Starting
  <1>7. Known(d, store[Here(p)])
    BY <1>1, <1>2, <1>6, Onward DEF CoordOK
  <1>8. Pending(d, store[Here(p)], worker[Here(p)])
    BY <1>4
  <1>9. Minded(d, worker[Here(p)])
    BY <1>1, <1>2, <1>4 DEF CoordOK, Minded
  <1>10. CoordShape(d)
    BY <1>1, <1>2, <1>4, <1>6, InRunInside, PlacesOfAppends DEF CoordShape
  <1>11. InRun(d)
    BY <1>4 DEF InRun, Inside
  <1> QED BY <1>1, <1>4, <1>5, <1>7, <1>8, <1>9, <1>10, <1>11, Quietly

-----------------------------------------------------------------------------
(* One lemma for each step a coordinator takes in a run                     *)

LEMMA PrepareKeeps ==
    ASSUME IInv, NEW p \in Coord, PrepareCase(p) \/ PrepareVariant(p) PROVE IInv'
  <1>1. Ev("case_prepared") \in Event /\ Ev("case_prepared").type = "case_prepared"
    BY EventsTyped DEF EventType
  <1>2. Ev("variant_prepared") \in Event /\ Ev("variant_prepared").type = "variant_prepared"
    BY EventsTyped DEF EventType
  <1>3. "preparing" \in State
    BY DEF State
  <1>4. CASE PrepareCase(p)
    <2> DEFINE e == Ev("case_prepared")
    <2>1. e \in Event /\ e.type = "case_prepared"
      BY <1>1
    <2>2. LogThen(p, e, "preparing", "variant") /\ coord[p].pc = "prepare"
          /\ UNCHANGED <<store, flock, worker, report>>
      BY <1>4 DEF PrepareCase, At
    <2> HIDE DEF e
    <2>3. \A d : d.pc = "append" /\ d.ev = e => Pending(d, store[Here(p)], worker[Here(p)])
      BY <2>1 DEF Pending, Settling
    <2> QED BY <2>1, <2>2, <2>3, <1>3, Jotting DEF Appends, Working, Starting
  <1>5. CASE PrepareVariant(p)
    <2> DEFINE e == Ev("variant_prepared")
    <2>1. e \in Event /\ e.type = "variant_prepared"
      BY <1>2
    <2>2. LogThen(p, e, "preparing", "start") /\ coord[p].pc = "variant"
          /\ UNCHANGED <<store, flock, worker, report>>
      BY <1>5 DEF PrepareVariant, At
    <2> HIDE DEF e
    <2>3. \A d : d.pc = "append" /\ d.ev = e => Pending(d, store[Here(p)], worker[Here(p)])
      BY <2>1 DEF Pending, Settling
    <2> QED BY <2>1, <2>2, <2>3, <1>3, Jotting DEF Appends, Working, Starting
  <1> QED BY <1>4, <1>5

\* The number of the message at hand.
LEMMA MessageAtHand ==
    ASSUME IInv, NEW p \in Coord, InRun(coord[p])
    PROVE  /\ NextMsg(Log(p)) = Count(Log(p), Settling) + 1
           /\ Count(Log(p), Settling) \in 0 .. NumEvents
           /\ Count(Log(p), {"delivery_requested"}) \in Nat /\ Count(Log(p), {"delivery_sent"}) \in Nat
           /\ Log(p) = store[Here(p)].log
           /\ Truthful(store[Here(p)], worker[Here(p)])
  <1>1. store[Here(p)].log \in Seq(Event) /\ Here(p) \in Run
    BY InRunInside, RunTyped
  <1>2. Truthful(store[Here(p)], worker[Here(p)])
    BY <1>1 DEF IInv, RunOK
  <1>3. /\ Count(store[Here(p)].log, Settling) \in Nat
        /\ Count(store[Here(p)].log, {"delivery_requested"}) \in Nat
        /\ Count(store[Here(p)].log, {"delivery_sent"}) \in Nat
    BY <1>1, CountFinite
  <1>4. Count(store[Here(p)].log, Settling) <= NumEvents
    BY <1>2 DEF Truthful
  <1> QED BY <1>2, <1>3, <1>4, ArenaAssumption DEF NextMsg, Log

LEMMA DecideKeeps ==
    ASSUME IInv, NEW p \in Coord, Acknowledge(p) \/ GiveUp(p) \/ FailUnknown(p) \/ TimeIsUp(p)
    PROVE  IInv'
  <1>1. coord[p].pc \in {"decide", "deadline"} /\ UNCHANGED <<store, flock, worker, report>>
    BY DEF Acknowledge, GiveUp, FailUnknown, TimeIsUp, At
  <1>2. InRun(coord[p]) /\ coord[p].pc \in Working \ {"evidence", "started"}
    BY <1>1 DEF InRun, Inside, Working, Starting
  <1> DEFINE i == NextMsg(Log(p))
  <1>3. /\ Count(Log(p), Settling) \in 0 .. NumEvents /\ i = Count(Log(p), Settling) + 1
        /\ Log(p) = store[Here(p)].log /\ NumEvents \in Nat
    BY <1>2, MessageAtHand, ArenaAssumption
  <1>4. {"failed", "stopping", "controlling"} \subseteq State
    BY DEF State
  <1>5. ~Over(p) => i \in 1 .. NumEvents
    BY <1>3 DEF Over
  <1>6. ASSUME NEW type \in {"delivery_acknowledged", "script_event_skipped", "controller_failed",
                             "controller_stopped"}, i \in 1 .. NumEvents
        PROVE  EvMsg(type, i) \in Event /\ EvMsg(type, i).type = type
    BY <1>3, <1>6, EventsTyped DEF EventType, Settling, Ending
  <1>7. ASSUME NEW d, d.pc = "append", d.ev.type \in Settling, ~Over(p), Sent(Log(p))
        PROVE  Pending(d, store[Here(p)], worker[Here(p)])
    BY <1>3, <1>5, <1>7 DEF Pending, Sent, Settling
  <1>8. ASSUME NEW d, d.pc = "append",
               d.ev.type \in {"controller_failed", "controller_stopped", "wall_timeout"}
        PROVE  Pending(d, store[Here(p)], worker[Here(p)])
    BY <1>8 DEF Pending, Settling
  <1>9. ASSUME NEW e \in Event, e.type \in Settling, ~Over(p), Sent(Log(p)), LogThen(p, e, "controlling", "deadline")
        PROVE  IInv'
    <2>1. <<e.type, "deadline">> \in Appends
      BY <1>9 DEF Settling, Appends
    <2>2. \A d : d.pc = "append" /\ d.ev = e => Pending(d, store[Here(p)], worker[Here(p)])
      BY <1>7, <1>9
    <2> QED BY <1>1, <1>2, <1>4, <1>9, <2>1, <2>2, Jotting DEF Starting
  <1>10. ASSUME NEW e \in Event, e.type \in {"controller_failed", "controller_stopped", "wall_timeout"},
                NEW state \in State, LogThen(p, e, state, "collect")
        PROVE  IInv'
    <2>1. <<e.type, "collect">> \in Appends
      BY <1>10 DEF Appends
    <2>2. \A d : d.pc = "append" /\ d.ev = e => Pending(d, store[Here(p)], worker[Here(p)])
      BY <1>8, <1>10
    <2> QED BY <1>1, <1>2, <1>10, <2>1, <2>2, Jotting DEF Starting
  <1> HIDE DEF i
  <1>11. CASE Acknowledge(p)
    <2>1. /\ ~Over(p) /\ Sent(Log(p))
          /\ LogThen(p, EvMsg("delivery_acknowledged", i), "controlling", "deadline")
      BY <1>11 DEF Acknowledge, i
    <2>2. /\ EvMsg("delivery_acknowledged", i) \in Event
          /\ EvMsg("delivery_acknowledged", i).type = "delivery_acknowledged"
      BY <1>5, <1>6, <2>1
    <2>3. EvMsg("delivery_acknowledged", i).type \in Settling
      BY <2>2 DEF Settling
    <2> QED BY <1>9, <2>1, <2>2, <2>3
  <1>12. CASE GiveUp(p)
    <2>1. ~Over(p) /\ Sent(Log(p)) /\ i \in 1 .. NumEvents
      BY <1>12, <1>5 DEF GiveUp
    <2>2. OnTimeout[i] \in {"fail", "skip", "stop"}
      BY <2>1, ArenaAssumption
    <2>3. CASE OnTimeout[i] = "fail"
      <3>1. LogThen(p, EvMsg("controller_failed", i), "failed", "collect")
        BY <1>12, <2>3 DEF GiveUp, i
      <3>2. EvMsg("controller_failed", i) \in Event /\ EvMsg("controller_failed", i).type = "controller_failed"
        BY <1>6, <2>1
      <3> QED BY <3>1, <3>2, <1>4, <1>10
    <2>4. CASE OnTimeout[i] = "stop"
      <3>1. LogThen(p, EvMsg("controller_stopped", i), "stopping", "collect")
        BY <1>12, <2>4 DEF GiveUp, i
      <3>2. EvMsg("controller_stopped", i) \in Event /\ EvMsg("controller_stopped", i).type = "controller_stopped"
        BY <1>6, <2>1
      <3> QED BY <3>1, <3>2, <1>4, <1>10
    <2>5. CASE OnTimeout[i] = "skip"
      <3>1. LogThen(p, EvMsg("script_event_skipped", i), "controlling", "deadline")
        BY <1>12, <2>5 DEF GiveUp, i
      <3>2. /\ EvMsg("script_event_skipped", i) \in Event
            /\ EvMsg("script_event_skipped", i).type = "script_event_skipped"
        BY <1>6, <2>1
      <3>3. EvMsg("script_event_skipped", i).type \in Settling
        BY <3>2 DEF Settling
      <3> QED BY <3>1, <3>2, <3>3, <2>1, <1>9
    <2> QED BY <2>2, <2>3, <2>4, <2>5
  <1>13. CASE FailUnknown(p)
    <2>1. LogThen(p, EvMsg("controller_failed", i), "failed", "collect") /\ i \in 1 .. NumEvents
      BY <1>13, <1>5 DEF FailUnknown, i
    <2>2. EvMsg("controller_failed", i) \in Event /\ EvMsg("controller_failed", i).type = "controller_failed"
      BY <1>6, <2>1
    <2> QED BY <2>1, <2>2, <1>4, <1>10
  <1>14. CASE TimeIsUp(p)
    <2>1. LogThen(p, Ev("wall_timeout"), "stopping", "collect")
      BY <1>14 DEF TimeIsUp
    <2>2. Ev("wall_timeout") \in Event /\ Ev("wall_timeout").type = "wall_timeout"
      BY EventsTyped DEF EventType
    <2> QED BY <2>1, <2>2, <1>4, <1>10
  <1> QED BY <1>11, <1>12, <1>13, <1>14

LEMMA GoKeeps ==
    ASSUME IInv, NEW p \in Coord, Observe(p) \/ Complete(p) \/ GoOn(p) \/ NotThere(p)
    PROVE  IInv'
  <1>1. coord[p].pc \in {"control", "decide", "deadline"} /\ UNCHANGED <<store, flock, worker, report>>
    BY DEF Observe, Complete, GoOn, NotThere, At
  <1>2. coord[p].pc \in Working \ {"evidence", "started"} /\ coord[p].pc \notin Outside
    BY <1>1 DEF Working, Starting, Outside
  <1>3. coord[p] \in CoordRecord /\ worker[Here(p)] \in WorkerRecord
    BY <1>2, RunTyped
  <1>4. {"control", "decide", "collect", "error"} \subseteq Places
    BY DEF Places, Inside
  <1>5. ASSUME NEW pc \in {"collect", "error"}, Go(p, pc) PROVE IInv'
    <2> DEFINE d == [coord[p] EXCEPT !.pc = pc]
    <2>1. d \in CoordRecord /\ d.pc = pc /\ d.at = coord[p].at /\ d.mine = coord[p].mine
      BY <1>3, <1>4, GoShape
    <2>2. coord' = [coord EXCEPT ![p] = d]
      BY <1>5 DEF Go
    <2> HIDE DEF d
    <2> QED BY <1>1, <1>2, <2>1, <2>2, Going
  <1>6. CASE Complete(p) \/ NotThere(p)
    BY <1>5, <1>6 DEF Complete, NotThere
  <1>7. CASE Observe(p)
    <2> DEFINE d == [coord[p] EXCEPT !.pc = "decide", !.seen = View(p).state, !.read = View(p).read]
    <2>1. coord' = [coord EXCEPT ![p] = d]
      BY <1>7 DEF Observe
    <2>2. View(p).state \in Gone \cup {"absent", "running"} /\ View(p).read \in Nat
      BY <1>3, LenProperties DEF View, WorkerRecord
    <2>3. d \in CoordRecord /\ d.pc = "decide" /\ d.at = coord[p].at /\ d.mine = coord[p].mine
      BY <1>3, <1>4, <2>2 DEF CoordRecord
    <2> HIDE DEF d
    <2> QED BY <1>1, <1>2, <2>1, <2>3, Going
  <1>8. CASE GoOn(p)
    <2> DEFINE d == [coord[p] EXCEPT !.pc = "control", !.seen = "absent", !.read = 0]
    <2>1. coord' = [coord EXCEPT ![p] = d]
      BY <1>8 DEF GoOn
    <2>2. d \in CoordRecord /\ d.pc = "control" /\ d.at = coord[p].at /\ d.mine = coord[p].mine
      BY <1>3, <1>4 DEF CoordRecord
    <2> HIDE DEF d
    <2> QED BY <1>1, <1>2, <2>1, <2>2, Going
  <1> QED BY <1>6, <1>7, <1>8

LEMMA DeliverKeeps ==
    ASSUME IInv, NEW p \in Coord, Deliver(p) PROVE IInv'
  <1>1. coord[p].pc = "decide" /\ MayDeliver(p) /\ UNCHANGED <<store, flock, worker, report>>
    BY DEF Deliver, At
  <1>2. coord[p].pc \in Working \ {"evidence", "started"} /\ InRun(coord[p]) /\ coord[p].pc \notin Outside
    BY <1>1 DEF Working, Starting, InRun, Inside, Outside
  <1> DEFINE i == NextMsg(Log(p))
             n == Count(Log(p), Settling)
             asked == Count(Log(p), {"delivery_requested"})
  <1>3. /\ n \in 0 .. NumEvents /\ i = n + 1 /\ asked \in Nat /\ Log(p) = store[Here(p)].log
        /\ asked \in {n, n + 1} /\ NumEvents \in Nat
    BY <1>2, MessageAtHand, ArenaAssumption DEF Truthful
  <1>4. asked = n /\ n < NumEvents /\ i \in 0 .. NumEvents
    BY <1>1, <1>3 DEF MayDeliver, Over, Asked
  <1>5. CASE asked >= MaxInterventions
    <2> DEFINE d == [coord[p] EXCEPT !.pc = "error"]
    <2>1. "error" \in Places /\ coord[p] \in CoordRecord
      BY <1>2, RunTyped DEF Places, Inside
    <2>2. d \in CoordRecord /\ d.pc = "error" /\ d.at = coord[p].at /\ d.mine = coord[p].mine
      BY <2>1, GoShape
    <2>3. coord' = [coord EXCEPT ![p] = d]
      BY <1>5 DEF Deliver, Go
    <2> HIDE DEF d
    <2> QED BY <1>1, <1>2, <2>2, <2>3, Going
  <1>6. CASE ~(asked >= MaxInterventions)
    <2> DEFINE e == EvMsg("delivery_requested", i)
    <2>1. e \in Event /\ e.type = "delivery_requested"
      BY <1>4, EventsTyped DEF EventType
    <2>2. LogThen(p, e, "delivering", "send")
      BY <1>6 DEF Deliver
    <2> HIDE DEF e
    <2>3. \A d : d.pc = "append" /\ d.ev = e => Pending(d, store[Here(p)], worker[Here(p)])
      BY <1>3, <1>4, <2>1 DEF Pending, Settling
    <2>4. <<e.type, "send">> \in Appends /\ "delivering" \in State
      BY <2>1 DEF Appends, State
    <2> QED BY <1>1, <1>2, <2>1, <2>2, <2>3, <2>4, Jotting DEF Starting
  <1> QED BY <1>5, <1>6

LEMMA FailKeeps ==
    ASSUME IInv, NEW p \in Coord, Fail(p) PROVE IInv'
  <1>1. /\ coord[p].pc \in {"recover", "prepare", "variant", "control", "collect", "evidence"}
        /\ UNCHANGED <<store, flock, worker, report>>
    BY DEF Fail
  <1>2. coord[p].pc \in Working \ {"started"} /\ InRun(coord[p]) /\ coord[p].pc \notin Outside
    BY <1>1 DEF Working, Starting, InRun, Inside, Outside
  <1> DEFINE d == [coord[p] EXCEPT !.pc = "error"]
  <1>3. "error" \in Places /\ coord[p] \in CoordRecord
    BY <1>2, RunTyped DEF Places, Inside
  <1>4. d \in CoordRecord /\ d.pc = "error" /\ d.at = coord[p].at /\ d.mine = coord[p].mine
    BY <1>3, GoShape
  <1>5. coord' = [coord EXCEPT ![p] = d]
    BY DEF Fail, Go
  <1> HIDE DEF d
  <1>6. CASE coord[p].pc # "evidence"
    BY <1>1, <1>2, <1>4, <1>5, <1>6, Going
  <1>7. CASE coord[p].pc = "evidence"
    <2>1. CoordOK(p) /\ CoordShape(coord[p])
      BY DEF IInv, Types
    <2>2. Known(d, store[Here(p)])
      BY <1>2, <1>4, <1>7, <2>1 DEF CoordOK, Known, Place, Working, Starting
    <2>3. Pending(d, store[Here(p)], worker[Here(p)]) /\ Minded(d, worker[Here(p)])
      BY <1>2, <1>4, <1>7, <2>1 DEF CoordOK, Pending, Minded
    <2>4. CoordShape(d) /\ InRun(d)
      BY <1>2, <1>4, <2>1 DEF CoordShape, Place, Outside, Reading, Making, Starting, InRun, Inside
    <2> QED BY <1>1, <1>2, <1>4, <1>5, <2>2, <2>3, <2>4, Quietly
  <1> QED BY <1>6, <1>7

LEMMA RecordErrorKeeps ==
    ASSUME IInv, NEW p \in Coord, RecordError(p) PROVE IInv'
  <1>1. coord[p].pc = "error" /\ UNCHANGED <<store, flock, worker, report>>
    BY DEF RecordError, At
  <1>2. InRun(coord[p]) /\ coord[p].pc \notin Outside
    BY <1>1 DEF InRun, Inside, Outside
  <1> DEFINE e == Ev("run_error")
             d == Appending(coord[p], e, "failed", "leave")
  <1>3. coord[p] \in CoordRecord /\ CoordOK(p) /\ CoordShape(coord[p])
    BY DEF IInv, Types
  <1>4. e \in Event /\ e.type = "run_error" /\ "failed" \in State /\ "leave" \in Places
    BY EventsTyped DEF EventType, State, Places
  <1>5. coord' = [coord EXCEPT ![p] = d]
    BY DEF RecordError, LogThen
  <1> HIDE DEF e
  <1>6. /\ d \in CoordRecord /\ d.pc = "append" /\ d.ev = e /\ d.then = "leave"
        /\ d.at = coord[p].at /\ d.mine = coord[p].mine
    BY <1>3, <1>4, AppendingShape
  <1> HIDE DEF d
  <1>7. Known(d, store[Here(p)])
    BY <1>6 DEF Known, Place, Working, Starting
  <1>8. Pending(d, store[Here(p)], worker[Here(p)]) /\ Minded(d, worker[Here(p)])
    BY <1>1, <1>2, <1>3, <1>4, <1>6 DEF Pending, Settling, CoordOK, Minded
  <1>9. CoordShape(d) /\ InRun(d)
    BY <1>2, <1>3, <1>4, <1>6
    DEF CoordShape, Place, Appends, Outside, Reading, Making, Starting, InRun, Inside
  <1> QED BY <1>1, <1>2, <1>5, <1>6, <1>7, <1>8, <1>9, Quietly

LEMMA FinishRunKeeps ==
    ASSUME IInv, NEW p \in Coord, FinishRun(p) PROVE IInv'
  <1>1. coord[p].pc = "evidence" /\ coord[p].step > Len(Plan) /\ UNCHANGED <<store, flock, worker, report>>
    BY DEF FinishRun, At
  <1>2. InRun(coord[p]) /\ coord[p].pc \notin Outside
    BY <1>1 DEF InRun, Inside, Outside
  <1>3. coord[p] \in CoordRecord /\ CoordOK(p) /\ CoordShape(coord[p]) /\ store[Here(p)] \in StoreRecord
    BY <1>2, RunTyped DEF IInv, Types
  <1> DEFINE e == Ev("run_finished")
             state == IF coord[p].seen = "completed" /\ NextMsg(Log(p)) = NumEvents + 1
                      THEN "completed" ELSE "failed"
             a == Appending(coord[p], e, state, "leave")
             d == [a EXCEPT !.exit = "next"]
  <1>4. e \in Event /\ e.type = "run_finished" /\ state \in State /\ "leave" \in Places
    BY EventsTyped DEF EventType, State, Places
  <1>5. coord' = [coord EXCEPT ![p] = d]
    BY DEF FinishRun
  <1> HIDE DEF e, state
  <1>6. /\ a \in CoordRecord /\ a.pc = "append" /\ a.ev = e /\ a.then = "leave"
        /\ a.at = coord[p].at /\ a.mine = coord[p].mine
    BY <1>3, <1>4, AppendingShape
  <1> HIDE DEF a
  <1>7. /\ d \in CoordRecord /\ d.pc = "append" /\ d.ev = e /\ d.then = "leave"
        /\ d.at = coord[p].at /\ d.mine = coord[p].mine
    BY <1>6 DEF CoordRecord
  <1> HIDE DEF d
  <1>8. Known(d, store[Here(p)])
    BY <1>7 DEF Known, Place, Working, Starting
  <1>9. /\ Finished(store[Here(p)].log) = 0 /\ Count(store[Here(p)].log, {"run_error"}) = 0
        /\ store[Here(p)].files = Evidence /\ Recorded(store[Here(p)].log) = Evidence
    <2>1. Known(coord[p], store[Here(p)]) /\ Place(coord[p]) = "evidence"
      BY <1>1, <1>2, <1>3 DEF CoordOK, Place
    <2>2. coord[p].step \in 1 .. Len(Plan) + 1 /\ coord[p].step = Len(Plan) + 1
      BY <2>1, <1>1, PlanEntries DEF Known
    <2>3. Files(Len(Plan) + 1) = Evidence
      BY FilesOfPlan
    <2>4. store[Here(p)].files \subseteq Evidence
      BY <1>3 DEF StoreRecord
    <2> QED BY <1>1, <2>1, <2>2, <2>3, <2>4 DEF Known, Working
  <1>10. Pending(d, store[Here(p)], worker[Here(p)])
    BY <1>4, <1>7, <1>9 DEF Pending, Settling
  <1>11. Minded(d, worker[Here(p)])
    BY <1>1, <1>2, <1>3, <1>7 DEF CoordOK, Minded
  <1>12. CoordShape(d) /\ InRun(d)
    BY <1>2, <1>3, <1>4, <1>7
    DEF CoordShape, Place, Appends, Outside, Reading, Making, Starting, InRun, Inside
  <1> QED BY <1>1, <1>2, <1>5, <1>7, <1>8, <1>10, <1>11, <1>12, Quietly

\* A step within a run that writes to its directory or to its worker.
LEMMA Writing ==
    ASSUME IInv, NEW p \in Coord, InRun(coord[p]),
           NEW d \in CoordRecord, coord' = [coord EXCEPT ![p] = d], InRun(d), d.at = coord[p].at, CoordShape(d),
           NEW s \in StoreRecord, store' = [store EXCEPT ![Here(p)] = s],
           NEW w \in WorkerRecord, worker' = [worker EXCEPT ![Here(p)] = w],
           UNCHANGED <<flock, report>>, s.made = store[Here(p)].made,
           Finished(store[Here(p)].log) > 0 => Finished(s.log) > 0,
           Truthful(s, w), Evidenced(s), Known(d, s), Pending(d, s, w), Minded(d, w)
    PROVE  IInv'
  <1>1. coord \in [Coord -> CoordRecord] /\ store \in [Run -> StoreRecord] /\ worker \in [Run -> WorkerRecord]
    BY Typed DEF IInv, Types
  <1>2. Here(p) \in Run
    BY InRunInside, RunTyped
  <1>3. coord' \in [Coord -> CoordRecord] /\ coord'[p] = d /\ \A q \in Coord \ {p} : coord'[q] = coord[q]
    BY <1>1
  <1>4. /\ store' \in [Run -> StoreRecord] /\ store'[Here(p)] = s
        /\ worker' \in [Run -> WorkerRecord] /\ worker'[Here(p)] = w
        /\ \A r \in Run \ {Here(p)} : store'[r] = store[r] /\ worker'[r] = worker[r]
    BY <1>1, <1>2
  <1> QED BY <1>3, <1>4, Within

LEMMA WriteRecoveryKeeps ==
    ASSUME IInv, NEW p \in Coord, WriteRecovery(p) PROVE IInv'
  <1>1. coord[p].pc = "recover" /\ UNCHANGED <<flock, worker, report>>
    BY DEF WriteRecovery, At
  <1>2. InRun(coord[p]) /\ coord[p].pc \notin Outside
    BY <1>1 DEF InRun, Inside, Outside
  <1>3. /\ coord[p] \in CoordRecord /\ CoordOK(p) /\ CoordShape(coord[p]) /\ Here(p) \in Run
        /\ store[Here(p)] \in StoreRecord /\ worker[Here(p)] \in WorkerRecord /\ RunOK(Here(p))
    BY <1>2, RunTyped DEF IInv, Types
  <1> DEFINE e == Ev("recovery_recorded")
             d == Appending(coord[p], e, "preparing", "prepare")
             s == [store[Here(p)] EXCEPT !.private = "made"]
             w == worker[Here(p)]
  <1>4. e \in Event /\ e.type = "recovery_recorded" /\ "preparing" \in State /\ "prepare" \in Places
    BY EventsTyped DEF EventType, State, Places, Inside
  <1>5. /\ coord' = [coord EXCEPT ![p] = d] /\ store' = [store EXCEPT ![Here(p)] = s]
        /\ worker' = [worker EXCEPT ![Here(p)] = w]
    BY <1>1, Typed DEF WriteRecovery, LogThen, IInv, Types
  <1> HIDE DEF e
  <1>6. /\ d \in CoordRecord /\ d.pc = "append" /\ d.ev = e /\ d.then = "prepare"
        /\ d.at = coord[p].at /\ d.mine = coord[p].mine
    BY <1>3, <1>4, AppendingShape
  <1> HIDE DEF d
  <1>7. s \in StoreRecord /\ s.made = store[Here(p)].made /\ s.log = store[Here(p)].log
        /\ s.files = store[Here(p)].files
    BY <1>3 DEF StoreRecord
  <1> HIDE DEF s
  <1>8. Truthful(s, w) /\ Evidenced(s)
    BY <1>3, <1>7 DEF RunOK, Truthful, Evidenced
  <1>9. Known(d, s)
    <2>1. Place(coord[p]) \in Working \ {"evidence"} /\ Place(d) # "evidence"
      BY <1>1, <1>6 DEF Place, Working, Starting
    <2> QED BY <1>2, <1>3, <1>7, <2>1, Onward DEF CoordOK
  <1>10. Pending(d, s, w) /\ Minded(d, w)
    BY <1>1, <1>2, <1>3, <1>4, <1>6 DEF Pending, Settling, CoordOK, Minded
  <1>11. CoordShape(d) /\ InRun(d)
    BY <1>1, <1>2, <1>3, <1>4, <1>6
    DEF CoordShape, Place, Appends, Outside, Reading, Making, Starting, InRun, Inside
  <1> QED BY <1>1, <1>2, <1>3, <1>5, <1>6, <1>7, <1>8, <1>9, <1>10, <1>11, Writing

\* Starting a worker, with or without a word of it.
LEMMA StartKeeps ==
    ASSUME IInv, NEW p \in Coord, StartWorker(p) \/ StartFails(p) PROVE IInv'
  <1>1. coord[p].pc = "start" /\ UNCHANGED <<flock, report>>
    BY DEF StartWorker, StartFails, At
  <1>2. InRun(coord[p]) /\ coord[p].pc \notin Outside
    BY <1>1 DEF InRun, Inside, Outside
  <1>3. /\ coord[p] \in CoordRecord /\ CoordOK(p) /\ CoordShape(coord[p]) /\ Here(p) \in Run
        /\ store[Here(p)] \in StoreRecord /\ worker[Here(p)] \in WorkerRecord /\ RunOK(Here(p))
        /\ store \in [Run -> StoreRecord] /\ worker \in [Run -> WorkerRecord]
    BY <1>2, RunTyped, Typed DEF IInv, Types
  <1>4. PICK pc \in {"started", "error"}, w \in WorkerRecord :
          /\ Go(p, pc) /\ worker' = [worker EXCEPT ![Here(p)] = w] /\ w.got = worker[Here(p)].got
          /\ pc = "error" /\ Attended(w) => Attended(worker[Here(p)])
    <2> DEFINE w1 == [worker[Here(p)] EXCEPT !.state = "running"]
               w2 == [worker[Here(p)] EXCEPT !.state = "running", !.loose = TRUE]
    <2>1. /\ w1 \in WorkerRecord /\ w2 \in WorkerRecord
          /\ w1.got = worker[Here(p)].got /\ w2.got = worker[Here(p)].got /\ ~Attended(w2)
      BY <1>3 DEF WorkerRecord, Attended
    <2>2. CASE StartWorker(p)
      <3>1. Go(p, "started") /\ worker' = [worker EXCEPT ![Here(p)] = w1]
        BY <1>3, <2>2 DEF StartWorker
      <3> HIDE DEF w1, w2
      <3> QED BY <2>1, <3>1
    <2>3. CASE StartFails(p)
      <3>1. Go(p, "error")
        BY <2>3 DEF StartFails
      <3>2. \/ worker' = [worker EXCEPT ![Here(p)] = worker[Here(p)]]
            \/ worker' = [worker EXCEPT ![Here(p)] = w2]
        BY <1>3, <2>3 DEF StartFails, HalfStarted
      <3> HIDE DEF w1, w2
      <3> QED BY <1>3, <2>1, <3>1, <3>2
    <2> QED BY <2>2, <2>3
  <1> DEFINE s == [store[Here(p)] EXCEPT !.private = "ready"]
             d == [coord[p] EXCEPT !.pc = pc]
  <1>5. store' = [store EXCEPT ![Here(p)] = s] /\ coord' = [coord EXCEPT ![p] = d]
    BY <1>3, <1>4 DEF StartWorker, StartFails, HalfStarted, Go
  <1>6. s \in StoreRecord /\ s.made = store[Here(p)].made /\ s.log = store[Here(p)].log
        /\ s.files = store[Here(p)].files
    BY <1>3 DEF StoreRecord
  <1>7. d \in CoordRecord /\ d.pc = pc /\ d.at = coord[p].at /\ d.mine = coord[p].mine
    <2>1. pc \in Places
      BY <1>4 DEF Places, Inside
    <2> QED BY <1>3, <2>1, GoShape
  <1> HIDE DEF s, d
  <1>8. Truthful(s, w) /\ Evidenced(s)
    BY <1>3, <1>4, <1>6 DEF RunOK, Truthful, Evidenced
  <1>9. Known(d, s)
    <2>1. Place(coord[p]) \in Working \ {"evidence"} /\ Place(d) # "evidence"
      BY <1>1, <1>4, <1>7 DEF Place, Working, Starting
    <2> QED BY <1>2, <1>3, <1>6, <2>1, Onward DEF CoordOK
  <1>10. Pending(d, s, w)
    BY <1>4, <1>7 DEF Pending
  <1>11. Minded(d, w)
    BY <1>1, <1>2, <1>3, <1>4, <1>7 DEF Minded, CoordOK
  <1>12. CoordShape(d) /\ InRun(d)
    BY <1>1, <1>2, <1>3, <1>4, <1>7
    DEF CoordShape, Place, Outside, Reading, Making, Starting, InRun, Inside
  <1> QED BY <1>1, <1>2, <1>4, <1>5, <1>6, <1>7, <1>8, <1>9, <1>10, <1>11, <1>12, Writing

LEMMA RecordStartKeeps ==
    ASSUME IInv, NEW p \in Coord, RecordStart(p) PROVE IInv'
  <1>1. coord[p].pc = "started" /\ UNCHANGED <<store, flock, worker, report>>
    BY DEF RecordStart, At
  <1>2. InRun(coord[p]) /\ coord[p].pc \notin Outside
    BY <1>1 DEF InRun, Inside, Outside
  <1>3. coord[p] \in CoordRecord /\ CoordOK(p) /\ CoordShape(coord[p])
    BY <1>2, RunTyped DEF IInv, Types
  <1> DEFINE e == Ev("worker_started")
             a == Appending(coord[p], e, "controlling", "control")
             d == [a EXCEPT !.mine = TRUE]
  <1>4. e \in Event /\ e.type = "worker_started" /\ "controlling" \in State /\ "control" \in Places
    BY EventsTyped DEF EventType, State, Places, Inside
  <1>5. coord' = [coord EXCEPT ![p] = d]
    BY DEF RecordStart
  <1> HIDE DEF e
  <1>6. a \in CoordRecord /\ a.pc = "append" /\ a.ev = e /\ a.then = "control" /\ a.at = coord[p].at
    BY <1>3, <1>4, AppendingShape
  <1> HIDE DEF a
  <1>7. d \in CoordRecord /\ d.pc = "append" /\ d.ev = e /\ d.then = "control" /\ d.at = coord[p].at /\ d.mine
    BY <1>6 DEF CoordRecord
  <1> HIDE DEF d
  <1>8. Known(d, store[Here(p)])
    <2>1. Place(coord[p]) \in Working \ {"evidence"} /\ Place(d) # "evidence"
      BY <1>1, <1>7 DEF Place, Working, Starting
    <2> QED BY <1>2, <1>3, <2>1, Onward DEF CoordOK
  <1>9. Pending(d, store[Here(p)], worker[Here(p)]) /\ Minded(d, worker[Here(p)])
    BY <1>4, <1>7 DEF Pending, Settling, Minded
  <1>10. CoordShape(d) /\ InRun(d)
    BY <1>2, <1>3, <1>4, <1>7
    DEF CoordShape, Place, Appends, Outside, Reading, Making, Starting, InRun, Inside
  <1> QED BY <1>1, <1>2, <1>5, <1>7, <1>8, <1>9, <1>10, Quietly

\* Typing a message, or failing to before or after it was typed.
LEMMA SendKeeps ==
    ASSUME IInv, NEW p \in Coord, Send(p) \/ SendFails(p) PROVE IInv'
  <1>1. coord[p].pc = "send" /\ UNCHANGED <<store, flock, report>>
    BY DEF Send, SendFails, At
  <1>2. InRun(coord[p]) /\ coord[p].pc \notin Outside
    BY <1>1 DEF InRun, Inside, Outside
  <1>3. /\ coord[p] \in CoordRecord /\ CoordOK(p) /\ CoordShape(coord[p]) /\ Here(p) \in Run
        /\ store[Here(p)] \in StoreRecord /\ worker[Here(p)] \in WorkerRecord /\ RunOK(Here(p))
        /\ store \in [Run -> StoreRecord] /\ worker \in [Run -> WorkerRecord]
    BY <1>2, RunTyped, Typed DEF IInv, Types
  <1> DEFINE n == Count(store[Here(p)].log, Settling)
             i == NextMsg(Log(p))
             typed == [worker[Here(p)] EXCEPT !.got = Append(worker[Here(p)].got, i)]
  <1>4. /\ n \in 0 .. NumEvents /\ i = n + 1 /\ NumEvents \in Nat /\ n < NumEvents
        /\ Len(worker[Here(p)].got) = n /\ Count(store[Here(p)].log, {"delivery_requested"}) = n + 1
        /\ Count(store[Here(p)].log, {"delivery_sent"}) \in Nat
        /\ Count(store[Here(p)].log, {"delivery_sent"}) <= n
    <2>1. Truthful(store[Here(p)], worker[Here(p)]) /\ n \in 0 .. NumEvents /\ i = n + 1
          /\ Count(store[Here(p)].log, {"delivery_sent"}) \in Nat
      BY <1>2, MessageAtHand
    <2>2. /\ n < NumEvents /\ Len(worker[Here(p)].got) = n
          /\ Count(store[Here(p)].log, {"delivery_requested"}) = n + 1
      BY <1>1, <1>2, <1>3 DEF CoordOK, Pending, Place
    <2> QED BY <2>1, <2>2, ArenaAssumption DEF Truthful
  <1>5. i \in 1 .. NumEvents
    BY <1>4
  <1>6. /\ typed \in WorkerRecord /\ Len(typed.got) = n + 1
        /\ Attended(typed) => Attended(worker[Here(p)])
    <2>1. Append(worker[Here(p)].got, i) \in Seq(1 .. NumEvents) /\ Len(Append(worker[Here(p)].got, i)) = n + 1
      BY <1>3, <1>4, <1>5, AppendProperties DEF WorkerRecord
    <2> QED BY <1>3, <2>1 DEF WorkerRecord, Attended
  <1>7. PICK e \in Event, state \in State, then \in {"deadline", "error"}, w \in {worker[Here(p)], typed} :
          /\ LogThen(p, e, state, then) /\ worker' = [worker EXCEPT ![Here(p)] = w]
          /\ \/ e.type = "delivery_sent" /\ w = typed /\ then = "deadline"
             \/ e.type = "controller_failed" /\ then = "error"
    <2>1. CASE Send(p)
      <3> DEFINE e == [EvMsg("delivery_sent", i) EXCEPT !.mark = coord[p].read]
      <3>1. coord[p].read \in Nat /\ i \in 0 .. NumEvents
        BY <1>3, <1>4 DEF CoordRecord
      <3>2. e \in Event /\ e.type = "delivery_sent"
        BY <3>1, SentTyped
      <3>3. LogThen(p, e, "awaiting_ack", "deadline") /\ worker' = [worker EXCEPT ![Here(p)] = typed]
        BY <1>3, <2>1 DEF Send
      <3>4. "awaiting_ack" \in State
        BY DEF State
      <3> HIDE DEF e, typed
      <3> QED BY <3>2, <3>3, <3>4
    <2>2. CASE SendFails(p)
      <3> DEFINE e == EvMsg("controller_failed", i)
      <3>1. e \in Event /\ e.type = "controller_failed"
        <4>1. "controller_failed" \in EventType /\ i \in 0 .. NumEvents
          BY <1>4 DEF EventType, Ending
        <4> QED BY <4>1, EventsTyped
      <3>2. LogThen(p, e, "failed", "error")
        BY <2>2 DEF SendFails
      <3>3. \/ worker' = [worker EXCEPT ![Here(p)] = worker[Here(p)]]
            \/ worker' = [worker EXCEPT ![Here(p)] = typed]
        BY <1>3, <2>2 DEF SendFails
      <3>4. "failed" \in State
        BY DEF State
      <3> HIDE DEF e, typed
      <3> QED BY <3>1, <3>2, <3>3, <3>4
    <2> QED BY <2>1, <2>2
  <1> DEFINE s == store[Here(p)]
             d == Appending(coord[p], e, state, then)
  <1>8. store' = [store EXCEPT ![Here(p)] = s] /\ coord' = [coord EXCEPT ![p] = d]
    BY <1>1, <1>3, <1>7 DEF LogThen
  <1> HIDE DEF i, typed
  <1>9. /\ d \in CoordRecord /\ d.pc = "append" /\ d.ev = e /\ d.then = then
        /\ d.at = coord[p].at /\ d.mine = coord[p].mine
    <2>1. then \in Places
      BY <1>7 DEF Places, Inside
    <2> QED BY <1>3, <2>1, AppendingShape
  <1> HIDE DEF d
  <1>10. w \in WorkerRecord /\ (Attended(w) => Attended(worker[Here(p)])) /\ Len(w.got) \in {n, n + 1}
    BY <1>3, <1>4, <1>6, <1>7
  <1>11. Truthful(s, w) /\ Evidenced(s)
    BY <1>3, <1>4, <1>10 DEF RunOK, Truthful
  <1>12. Known(d, s)
    <2>1. Place(coord[p]) \in Working \ {"evidence"} /\ Place(d) # "evidence"
      BY <1>1, <1>7, <1>9 DEF Place, Working, Starting
    <2> QED BY <1>2, <1>3, <2>1, Onward DEF CoordOK
  <1>13. Pending(d, s, w)
    BY <1>4, <1>6, <1>7, <1>9 DEF Pending, Settling
  <1>14. Minded(d, w)
    BY <1>1, <1>2, <1>3, <1>9, <1>10 DEF Minded, CoordOK
  <1>15. CoordShape(d) /\ InRun(d)
    BY <1>2, <1>3, <1>7, <1>9
    DEF CoordShape, Place, Appends, Outside, Reading, Making, Starting, InRun, Inside
  <1> QED BY <1>1, <1>2, <1>3, <1>7, <1>8, <1>9, <1>10, <1>11, <1>12, <1>13, <1>14, <1>15, Writing

LEMMA StopShape ==
    ASSUME NEW w \in WorkerRecord
    PROVE  /\ StopWorker(w) \in WorkerRecord /\ StopWorker(w).got = w.got /\ ~Attended(StopWorker(w))
           /\ StopWorker(w).state # "running"
  BY DEF StopWorker, WorkerRecord, Attended, Gone

LEMMA CollectKeeps ==
    ASSUME IInv, NEW p \in Coord, Collect(p) PROVE IInv'
  <1>1. coord[p].pc = "collect" /\ UNCHANGED <<store, flock, report>>
    BY DEF Collect, At
  <1>2. InRun(coord[p]) /\ coord[p].pc \notin Outside
    BY <1>1 DEF InRun, Inside, Outside
  <1>3. /\ coord[p] \in CoordRecord /\ CoordOK(p) /\ CoordShape(coord[p]) /\ Here(p) \in Run
        /\ store[Here(p)] \in StoreRecord /\ worker[Here(p)] \in WorkerRecord /\ RunOK(Here(p))
        /\ store \in [Run -> StoreRecord] /\ worker \in [Run -> WorkerRecord]
        /\ store[Here(p)].log \in Seq(Event)
    BY <1>2, RunTyped, Typed DEF IInv, Types
  <1> DEFINE s == store[Here(p)]
             w == StopWorker(worker[Here(p)])
             d == [coord[p] EXCEPT !.pc = "evidence", !.step = 1, !.seen = w.state]
  <1>4. /\ store' = [store EXCEPT ![Here(p)] = s] /\ coord' = [coord EXCEPT ![p] = d]
        /\ worker' = [worker EXCEPT ![Here(p)] = w]
    BY <1>1, <1>3 DEF Collect
  <1>5. w \in WorkerRecord /\ w.got = worker[Here(p)].got /\ ~Attended(w)
    BY <1>3, StopShape
  <1> HIDE DEF w
  <1>6. /\ d \in CoordRecord /\ d.pc = "evidence" /\ d.step = 1
        /\ d.at = coord[p].at /\ d.mine = coord[p].mine
    <2>1. "evidence" \in Places /\ w.state \in Gone \cup {"absent", "running"}
      BY <1>5 DEF Places, Inside, WorkerRecord
    <2> QED BY <1>3, <2>1 DEF CoordRecord
  <1> HIDE DEF d
  <1>7. Truthful(s, w) /\ Evidenced(s)
    BY <1>3, <1>5 DEF RunOK, Truthful
  <1>8. Known(d, s)
    <2>1. Count(s.log, Collected) = 0
      BY <1>1, <1>2, <1>3 DEF CoordOK, Known, Place, Working
    <2>2. Finished(s.log) = 0 /\ Count(s.log, {"run_error"}) = 0 /\ Recorded(s.log) = {}
      BY <1>3, <2>1, Uncollected
    <2>3. 1 \in 1 .. Len(Plan) + 1 /\ Files(1) = {}
      BY PlanEntries, FilesOfPlan
    <2> QED BY <1>6, <2>2, <2>3 DEF Known, Place, Working, Starting
  <1>9. Pending(d, s, w) /\ Minded(d, w)
    BY <1>5, <1>6 DEF Pending, Minded
  <1>10. CoordShape(d) /\ InRun(d)
    BY <1>2, <1>3, <1>6 DEF CoordShape, Place, Outside, Reading, Making, Starting, InRun, Inside
  <1> QED BY <1>1, <1>2, <1>3, <1>4, <1>5, <1>6, <1>7, <1>8, <1>9, <1>10, Writing

LEMMA WriteEvidenceKeeps ==
    ASSUME IInv, NEW p \in Coord, WriteEvidence(p) PROVE IInv'
  <1> DEFINE k == coord[p].step
             item == Plan[k]
             s == store[Here(p)]
             t == IF IsFile(item) THEN [s EXCEPT !.files = s.files \cup {item.of}] ELSE s
             w == worker[Here(p)]
  <1>1. coord[p].pc = "evidence" /\ k <= Len(Plan) /\ UNCHANGED <<flock, worker, report>>
    BY DEF WriteEvidence, At
  <1>2. InRun(coord[p]) /\ coord[p].pc \notin Outside /\ Place(coord[p]) = "evidence"
    BY <1>1 DEF InRun, Inside, Outside, Place
  <1>3. /\ coord[p] \in CoordRecord /\ CoordOK(p) /\ CoordShape(coord[p]) /\ Here(p) \in Run
        /\ s \in StoreRecord /\ w \in WorkerRecord /\ RunOK(Here(p)) /\ s.log \in Seq(Event)
        /\ store \in [Run -> StoreRecord] /\ worker \in [Run -> WorkerRecord]
    BY <1>2, RunTyped, Typed DEF IInv, Types
  <1>4. /\ Finished(s.log) = 0 /\ Count(s.log, {"run_error"}) = 0 /\ k \in 1 .. Len(Plan) + 1
        /\ Files(k) \subseteq s.files /\ Recorded(s.log) = Files(k)
    BY <1>1, <1>2, <1>3 DEF CoordOK, Known, Working
  <1>5. k \in 1 .. Len(Plan) /\ k + 1 \in 1 .. Len(Plan) + 1
    BY <1>1, <1>4, PlanEntries
  <1>6. item \in Event /\ item.type \in Notes /\ (IsFile(item) => item.of \in Evidence)
        /\ Files(k + 1) = Files(k) \cup (IF IsFile(item) THEN {item.of} ELSE {})
    BY <1>5, PlanEntries, FilesOfPlan
  <1>7. CASE IsFile(item) /\ item.of \in s.files
    <2> DEFINE d == [coord[p] EXCEPT !.pc = "error"]
    <2>1. coord' = [coord EXCEPT ![p] = d] /\ UNCHANGED store
      BY <1>7 DEF WriteEvidence, Go
    <2>2. "error" \in Places
      BY DEF Places, Inside
    <2>3. d \in CoordRecord /\ d.pc = "error" /\ d.at = coord[p].at /\ d.mine = coord[p].mine
      BY <1>3, <2>2, GoShape
    <2> HIDE DEF d
    <2>4. Known(d, s) /\ Pending(d, s, w)
      BY <1>4, <2>3 DEF Known, Pending, Place, Working, Starting
    <2>5. Minded(d, w)
      BY <1>1, <1>2, <1>3, <2>3 DEF CoordOK, Minded
    <2>6. CoordShape(d) /\ InRun(d)
      BY <1>2, <1>3, <2>3 DEF CoordShape, Place, Outside, Reading, Making, Starting, InRun, Inside
    <2> QED BY <1>1, <1>2, <2>1, <2>3, <2>4, <2>5, <2>6, Quietly
  <1>8. CASE ~(IsFile(item) /\ item.of \in s.files)
    <2> DEFINE a == Appending(coord[p], item, "collecting", "evidence")
               d == [a EXCEPT !.step = k + 1]
    <2>1. "collecting" \in State /\ "evidence" \in Places
      BY DEF State, Places, Inside
    <2>2. /\ a \in CoordRecord /\ a.pc = "append" /\ a.ev = item /\ a.then = "evidence" /\ a.step = k
          /\ a.at = coord[p].at /\ a.mine = coord[p].mine
      BY <1>3, <1>6, <2>1, AppendingShape
    <2>3. coord' = [coord EXCEPT ![p] = d]
      BY <1>8, <2>2 DEF WriteEvidence
    <2>4. store' = [store EXCEPT ![Here(p)] = t] /\ worker' = [worker EXCEPT ![Here(p)] = w]
      BY <1>1, <1>3, <1>8 DEF WriteEvidence
    <2>5. /\ t \in StoreRecord /\ t.made = s.made /\ t.log = s.log
          /\ t.files = s.files \cup (IF IsFile(item) THEN {item.of} ELSE {})
      <3>1. CASE IsFile(item)
        <4>1. s.files \cup {item.of} \in SUBSET Evidence
          BY <1>3, <1>6, <3>1 DEF StoreRecord
        <4> QED BY <1>3, <3>1, <4>1 DEF StoreRecord
      <3>2. CASE ~IsFile(item)
        BY <1>3, <3>2
      <3> QED BY <3>1, <3>2
    <2> HIDE DEF a, item, t
    <2>6. /\ d \in CoordRecord /\ d.pc = "append" /\ d.ev = item /\ d.then = "evidence" /\ d.step = k + 1
          /\ d.at = coord[p].at /\ d.mine = coord[p].mine
      BY <2>2, <1>5 DEF CoordRecord
    <2> HIDE DEF d
    <2>7. Truthful(t, w) /\ Evidenced(t)
      <3>1. Truthful(t, w)
        BY <1>3, <2>5 DEF RunOK, Truthful
      <3>2. Evidenced(t)
        BY <1>4, <2>5 DEF Evidenced
      <3> QED BY <3>1, <3>2
    <2>8. Known(d, t)
      <3>1. Recorded(Append(t.log, d.ev)) = Files(k + 1)
        <4>1. Append(t.log, d.ev) = Append(s.log, item)
          BY <2>5, <2>6
        <4>2. Recorded(Append(s.log, item))
                = Recorded(s.log) \cup (IF IsFile(item) THEN {item.of} ELSE {})
          BY <1>3, <1>6, RecordedAppend
        <4> QED BY <1>4, <1>6, <4>1, <4>2
      <3>2. Place(d) = "evidence" /\ Files(k + 1) \subseteq t.files
        BY <1>4, <1>6, <2>5, <2>6 DEF Place
      <3> QED BY <1>4, <1>5, <2>5, <2>6, <3>1, <3>2 DEF Known
    <2>9. Pending(d, t, w)
      BY <1>6, <2>6 DEF Pending, Notes, Settling, Place
    <2>10. Minded(d, w)
      BY <1>1, <1>2, <1>3, <2>6 DEF CoordOK, Minded
    <2>11. CoordShape(d) /\ InRun(d)
      BY <1>2, <1>3, <1>6, <2>6
      DEF CoordShape, Place, Appends, Outside, Reading, Making, Starting, InRun, Inside
    <2> QED BY <1>1, <1>2, <1>3, <1>4, <2>3, <2>4, <2>5, <2>6, <2>7, <2>8, <2>9, <2>10, <2>11, Writing
  <1> QED BY <1>7, <1>8

LEMMA GateKeeps ==
    ASSUME IInv, NEW p \in Coord, Gate(p) PROVE IInv'
  <1>1. coord[p].pc = "gate" /\ UNCHANGED <<store, flock, report>>
    BY DEF Gate, At
  <1>2. InRun(coord[p]) /\ coord[p].pc \notin Outside
    BY <1>1 DEF InRun, Inside, Outside
  <1> DEFINE s == store[Here(p)]
  <1>3. /\ coord[p] \in CoordRecord /\ CoordOK(p) /\ CoordShape(coord[p]) /\ Here(p) \in Run
        /\ s \in StoreRecord /\ worker[Here(p)] \in WorkerRecord /\ RunOK(Here(p)) /\ s.log \in Seq(Event)
        /\ store \in [Run -> StoreRecord] /\ worker \in [Run -> WorkerRecord]
    BY <1>2, RunTyped, Typed DEF IInv, Types
  <1>4. CASE Resumable(s)
    <2> DEFINE d == [coord[p] EXCEPT !.pc = "control", !.mine = TRUE]
               w == [worker[Here(p)] EXCEPT !.loose = FALSE]
    <2>1. /\ coord' = [coord EXCEPT ![p] = d] /\ worker' = [worker EXCEPT ![Here(p)] = w]
          /\ store' = [store EXCEPT ![Here(p)] = s]
      BY <1>1, <1>3, <1>4 DEF Gate
    <2>2. w \in WorkerRecord /\ w.got = worker[Here(p)].got
      BY <1>3 DEF WorkerRecord
    <2>3. "control" \in Places
      BY DEF Places, Inside
    <2>4. d \in CoordRecord /\ d.pc = "control" /\ d.at = coord[p].at /\ d.mine
      BY <1>3, <2>3 DEF CoordRecord
    <2> HIDE DEF d, w
    <2>5. Truthful(s, w) /\ Evidenced(s)
      BY <1>3, <2>2 DEF RunOK, Truthful
    <2>6. Known(d, s)
      <3>1. Finished(s.log) = 0 /\ Count(s.log, {"run_error"}) = 0 /\ Count(s.log, Collected) = 0
        BY <1>3, <1>4, Uncollected DEF Resumable
      <3> QED BY <2>4, <3>1 DEF Known, Place
    <2>7. Pending(d, s, w) /\ Minded(d, w)
      BY <2>4 DEF Pending, Minded
    <2>8. CoordShape(d) /\ InRun(d)
      BY <1>2, <1>3, <2>4 DEF CoordShape, Place, Outside, Reading, Making, Starting, InRun, Inside
    <2> QED BY <1>1, <1>2, <1>3, <2>1, <2>2, <2>4, <2>5, <2>6, <2>7, <2>8, Writing
  <1>5. CASE ~Resumable(s)
    <2> DEFINE e == Ev("run_error")
               d == Appending(coord[p], e, "failed", "leave")
    <2>1. coord' = [coord EXCEPT ![p] = d] /\ UNCHANGED worker
      BY <1>5 DEF Gate, LogThen
    <2>2. e \in Event /\ e.type = "run_error" /\ "failed" \in State /\ "leave" \in Places
      BY EventsTyped DEF EventType, State, Places
    <2> HIDE DEF e
    <2>3. /\ d \in CoordRecord /\ d.pc = "append" /\ d.ev = e /\ d.then = "leave"
          /\ d.at = coord[p].at /\ d.mine = coord[p].mine
      BY <1>3, <2>2, AppendingShape
    <2> HIDE DEF d
    <2>4. Known(d, s)
      BY <2>3 DEF Known, Place, Working, Starting
    <2>5. Pending(d, s, worker[Here(p)]) /\ Minded(d, worker[Here(p)])
      BY <1>1, <1>2, <1>3, <2>2, <2>3 DEF Pending, Settling, CoordOK, Minded
    <2>6. CoordShape(d) /\ InRun(d)
      BY <1>2, <1>3, <2>2, <2>3
      DEF CoordShape, Place, Appends, Outside, Reading, Making, Starting, InRun, Inside
    <2> QED BY <1>1, <1>2, <2>1, <2>3, <2>4, <2>5, <2>6, Quietly
  <1> QED BY <1>4, <1>5

LEMMA WriteSnapshotKeeps ==
    ASSUME IInv, NEW p \in Coord, WriteSnapshot(p) PROVE IInv'
  <1>1. coord[p].pc = "snapshot" /\ UNCHANGED <<flock, worker, report>>
    BY DEF WriteSnapshot, At
  <1>2. InRun(coord[p]) /\ coord[p].pc \notin Outside /\ Place(coord[p]) = coord[p].then
    BY <1>1 DEF InRun, Inside, Outside, Place
  <1> DEFINE c == coord[p]
             s == store[Here(p)]
             t == [s EXCEPT !.snap = [at |-> Len(s.log), state |-> c.state]]
             w == worker[Here(p)]
             d == [c EXCEPT !.pc = c.then, !.ev = Ev("none"), !.state = "none", !.then = "idle"]
  <1>3. /\ c \in CoordRecord /\ CoordOK(p) /\ CoordShape(c) /\ Here(p) \in Run
        /\ s \in StoreRecord /\ w \in WorkerRecord /\ RunOK(Here(p)) /\ s.log \in Seq(Event)
        /\ store \in [Run -> StoreRecord] /\ worker \in [Run -> WorkerRecord]
    BY <1>2, RunTyped, Typed DEF IInv, Types
  <1>4. /\ coord' = [coord EXCEPT ![p] = d] /\ store' = [store EXCEPT ![Here(p)] = t]
        /\ worker' = [worker EXCEPT ![Here(p)] = w]
    BY <1>1, <1>3 DEF WriteSnapshot, Log
  <1>5. t \in StoreRecord /\ t.made = s.made /\ t.log = s.log /\ t.files = s.files
    <2>1. Len(s.log) \in Nat /\ c.state \in State
      BY <1>3, LenProperties DEF CoordRecord
    <2> QED BY <1>3, <2>1 DEF StoreRecord
  <1>6. d \in CoordRecord /\ d.pc = c.then /\ d.step = c.step /\ d.at = c.at /\ d.mine = c.mine
    <2>1. c.then \in Places /\ "idle" \in Places /\ "none" \in State
      BY <1>3 DEF CoordRecord, Places, Outside, State
    <2> QED BY <1>3, <2>1 DEF CoordRecord
  <1>7. c.then \in Inside \cup {"leave"} /\ c.then \notin {"append", "snapshot", "started"}
    BY <1>1, <1>3, PlacesOfAppends DEF CoordShape
  <1> HIDE DEF t, d
  <1>8. Truthful(t, w) /\ Evidenced(t)
    BY <1>3, <1>5 DEF RunOK, Truthful, Evidenced
  <1>9. Place(d) = c.then
    BY <1>6, <1>7 DEF Place
  <1>10. Known(d, t)
    <2>1. Known(c, s)
      BY <1>2, <1>3 DEF CoordOK
    <2>2. c.pc # "append" /\ d.pc # "append"
      BY <1>1, <1>6, <1>7
    <2> QED BY <1>2, <1>5, <1>6, <1>9, <2>1, <2>2 DEF Known
  <1>11. Pending(d, t, w)
    <2>1. Pending(c, s, w)
      BY <1>2, <1>3 DEF CoordOK
    <2> QED BY <1>1, <1>2, <1>5, <1>6, <1>7, <1>9, <2>1 DEF Pending
  <1>12. Minded(d, w)
    BY <1>1, <1>2, <1>3, <1>6 DEF CoordOK, Minded
  <1>13. CoordShape(d) /\ InRun(d)
    BY <1>2, <1>3, <1>6, <1>7, <1>9 DEF CoordShape, InRun
  <1> QED BY <1>1, <1>2, <1>3, <1>4, <1>5, <1>6, <1>8, <1>10, <1>11, <1>12, <1>13, Writing

\* An interrupted coordinator still leaves its run.
LEMMA InterruptKeeps ==
    ASSUME IInv, NEW p \in Coord, Interrupt(p) PROVE IInv'
  <1> DEFINE c == coord[p]
             s == store[Here(p)]
             d == [c EXCEPT !.pc = "leave", !.exit = "gone"]
  <1>1. c.pc \in Inside /\ UNCHANGED <<flock, report>> /\ Loosened(p, ~At(p, "started"))
    BY DEF Interrupt
  <1>2. InRun(c) /\ c.pc \notin Outside
    BY <1>1 DEF InRun, Inside, Outside
  <1>3. /\ c \in CoordRecord /\ CoordOK(p) /\ CoordShape(c) /\ Here(p) \in Run
        /\ s \in StoreRecord /\ worker[Here(p)] \in WorkerRecord /\ RunOK(Here(p))
        /\ store \in [Run -> StoreRecord] /\ worker \in [Run -> WorkerRecord]
    BY <1>2, RunTyped, Typed DEF IInv, Types
  <1>4. PICK t \in StoreRecord, w \in WorkerRecord :
          /\ store' = [store EXCEPT ![Here(p)] = t] /\ worker' = [worker EXCEPT ![Here(p)] = w]
          /\ t.made = s.made /\ t.log = s.log /\ t.files = s.files
          /\ w.got = worker[Here(p)].got
          /\ Attended(w) => Attended(worker[Here(p)]) /\ c.pc # "started"
    <2> DEFINE w1 == [worker[Here(p)] EXCEPT !.state = "running", !.loose = TRUE]
               w2 == [worker[Here(p)] EXCEPT !.loose = TRUE]
               t1 == [s EXCEPT !.private = "ready"]
               T(x) == [s EXCEPT !.torn = x]
    <2>1. /\ w1 \in WorkerRecord /\ w2 \in WorkerRecord
          /\ w1.got = worker[Here(p)].got /\ w2.got = worker[Here(p)].got
          /\ ~Attended(w1) /\ ~Attended(w2)
      BY <1>3 DEF WorkerRecord, Attended
    <2>2. /\ t1 \in StoreRecord /\ t1.made = s.made /\ t1.log = s.log /\ t1.files = s.files
          /\ \A x \in BOOLEAN : /\ T(x) \in StoreRecord /\ T(x).made = s.made
                                /\ T(x).log = s.log /\ T(x).files = s.files
      BY <1>3 DEF StoreRecord
    <2>3. CASE c.pc = "start"
      <3>1. /\ store' = [store EXCEPT ![Here(p)] = t1]
            /\ \/ worker' = [worker EXCEPT ![Here(p)] = worker[Here(p)]]
               \/ worker' = [worker EXCEPT ![Here(p)] = w1]
        BY <1>1, <1>3, <2>3 DEF Loosened, HalfStarted, At
      <3> HIDE DEF w1, w2, t1, T
      <3> QED BY <1>3, <2>1, <2>2, <2>3, <3>1
    <2>4. CASE c.pc # "start"
      <3>1. \E x \in BOOLEAN : store' = [store EXCEPT ![Here(p)] = T(x)]
        <4>1. s.torn \in BOOLEAN
          BY <1>3 DEF StoreRecord
        <4>2. PICK x \in IF At(p, "append") /\ At(p, "started") THEN BOOLEAN ELSE {s.torn} :
                store' = [store EXCEPT ![Here(p)].torn = x]
          BY <1>1, <2>4 DEF Loosened, At
        <4>3. x \in BOOLEAN /\ store' = [store EXCEPT ![Here(p)] = T(x)]
          BY <1>3, <4>1, <4>2
        <4> QED BY <4>3
      <3>2. worker' = IF c.pc = "started" THEN [worker EXCEPT ![Here(p)] = w2]
                      ELSE [worker EXCEPT ![Here(p)] = worker[Here(p)]]
        BY <1>1, <1>3, <2>4 DEF Loosened, At
      <3> HIDE DEF w1, w2, t1, T
      <3> QED BY <1>3, <2>1, <2>2, <3>1, <3>2
    <2> QED BY <2>3, <2>4
  <1>5. coord' = [coord EXCEPT ![p] = d]
    BY DEF Interrupt
  <1>6. d \in CoordRecord /\ d.pc = "leave" /\ d.at = c.at /\ d.mine = c.mine
    <2>1. "leave" \in Places
      BY DEF Places
    <2> QED BY <1>3, <2>1 DEF CoordRecord
  <1> HIDE DEF d
  <1>7. Truthful(t, w) /\ Evidenced(t)
    BY <1>3, <1>4 DEF RunOK, Truthful, Evidenced
  <1>8. Known(d, t) /\ Pending(d, t, w)
    BY <1>6 DEF Known, Pending, Place, Working, Starting
  <1>9. Minded(d, w)
    BY <1>2, <1>3, <1>4, <1>6 DEF Minded, CoordOK
  <1>10. CoordShape(d) /\ InRun(d)
    BY <1>2, <1>3, <1>6 DEF CoordShape, Place, Outside, Reading, Making, Starting, InRun, Inside
  <1> QED BY <1>1, <1>2, <1>3, <1>4, <1>5, <1>6, <1>7, <1>8, <1>9, <1>10, Writing

LEMMA AppendTruthful ==
    ASSUME NEW s \in StoreRecord, NEW w \in WorkerRecord, NEW c, c.pc = "append",
           c.ev \in Event, NEW t, t.log = Append(s.log, c.ev), Truthful(s, w), Pending(c, s, w)
    PROVE  Truthful(t, w)
  <1> DEFINE N(T) == Count(s.log, T)
  <1>1. s.log \in Seq(Event) /\ Len(w.got) \in Nat
    BY LenProperties DEF StoreRecord, WorkerRecord
  <1>2. ASSUME NEW T
        PROVE  N(T) \in Nat /\ Count(t.log, T) = IF c.ev.type \in T THEN N(T) + 1 ELSE N(T)
    <2>1. N(T) \in Nat
      BY <1>1, CountFinite
    <2>2. Count(t.log, T) = IF c.ev.type \in T THEN N(T) + 1 ELSE N(T)
      BY <1>1, CountAppend
    <2> QED BY <2>1, <2>2
  <1> HIDE DEF N
  <1>3. Truthful(s, w) <=>
          LET n == N(Settling)
              asked == N({"delivery_requested"})
              sent == N({"delivery_sent"})
          IN /\ n <= NumEvents
             /\ Len(w.got) \in {n, n + 1} /\ asked \in {n, n + 1} /\ sent <= asked
             /\ Len(w.got) = n + 1 => asked = n + 1
             /\ sent >= n + 1 => Len(w.got) = n + 1
    BY DEF Truthful, N
  <1>4. /\ c.ev.type \in Settling => N({"delivery_sent"}) >= N(Settling) + 1 /\ N(Settling) < NumEvents
        /\ c.ev.type = "delivery_requested" => N({"delivery_requested"}) = N(Settling)
        /\ c.ev.type = "delivery_sent" =>
             Len(w.got) = N(Settling) + 1 /\ N({"delivery_sent"}) <= N(Settling)
    BY DEF Pending, N
  <1>5. NumEvents \in Nat
    BY ArenaAssumption
  <1>6. CASE c.ev.type \in Settling
    <2>1. c.ev.type \notin {"delivery_requested"} /\ c.ev.type \notin {"delivery_sent"}
      BY <1>6 DEF Settling
    <2>2. /\ Count(t.log, Settling) = N(Settling) + 1
          /\ Count(t.log, {"delivery_requested"}) = N({"delivery_requested"})
          /\ Count(t.log, {"delivery_sent"}) = N({"delivery_sent"})
      BY <1>2, <1>6, <2>1
    <2> QED BY <1>1, <1>2, <1>3, <1>4, <1>5, <1>6, <2>2 DEF Truthful
  <1>7. CASE c.ev.type = "delivery_requested"
    <2>1. c.ev.type \notin Settling /\ c.ev.type \notin {"delivery_sent"}
      BY <1>7 DEF Settling
    <2>2. /\ Count(t.log, Settling) = N(Settling)
          /\ Count(t.log, {"delivery_requested"}) = N({"delivery_requested"}) + 1
          /\ Count(t.log, {"delivery_sent"}) = N({"delivery_sent"})
      BY <1>2, <1>7, <2>1
    <2> QED BY <1>1, <1>2, <1>3, <1>4, <1>5, <1>7, <2>2 DEF Truthful
  <1>8. CASE c.ev.type = "delivery_sent"
    <2>1. c.ev.type \notin Settling /\ c.ev.type \notin {"delivery_requested"}
      BY <1>8 DEF Settling
    <2>2. /\ Count(t.log, Settling) = N(Settling)
          /\ Count(t.log, {"delivery_requested"}) = N({"delivery_requested"})
          /\ Count(t.log, {"delivery_sent"}) = N({"delivery_sent"}) + 1
      BY <1>2, <1>8, <2>1
    <2> QED BY <1>1, <1>2, <1>3, <1>4, <1>5, <1>8, <2>2 DEF Truthful
  <1>9. CASE c.ev.type \notin Settling \cup {"delivery_requested", "delivery_sent"}
    <2>1. /\ Count(t.log, Settling) = N(Settling)
          /\ Count(t.log, {"delivery_requested"}) = N({"delivery_requested"})
          /\ Count(t.log, {"delivery_sent"}) = N({"delivery_sent"})
      BY <1>2, <1>9
    <2> QED BY <1>3, <2>1 DEF Truthful
  <1> QED BY <1>6, <1>7, <1>8, <1>9

LEMMA AppendKeeps ==
    ASSUME IInv, NEW p \in Coord, AppendEvent(p) PROVE IInv'
  <1> DEFINE c == coord[p]
             s == store[Here(p)]
             t == [s EXCEPT !.log = Append(s.log, c.ev)]
             w == worker[Here(p)]
             d == [c EXCEPT !.pc = "snapshot"]
  <1>1. c.pc = "append" /\ UNCHANGED <<flock, worker, report>>
    BY DEF AppendEvent, At
  <1>2. InRun(c) /\ c.pc \notin Outside /\ Place(c) = c.then
    BY <1>1 DEF InRun, Inside, Outside, Place
  <1>3. /\ c \in CoordRecord /\ CoordOK(p) /\ CoordShape(c) /\ Here(p) \in Run
        /\ s \in StoreRecord /\ w \in WorkerRecord /\ RunOK(Here(p)) /\ s.log \in Seq(Event)
        /\ store \in [Run -> StoreRecord] /\ worker \in [Run -> WorkerRecord]
    BY <1>2, RunTyped, Typed DEF IInv, Types
  <1>4. <<c.ev.type, c.then>> \in Appends
    BY <1>1, <1>3 DEF CoordShape
  <1>5. c.ev \in Event
    <2>1. c.ev.type # "none"
      BY <1>4 DEF Appends, Notes
    <2>2. Ev("none").type = "none"
      BY DEF Ev
    <2> QED BY <1>3, <2>1, <2>2 DEF CoordRecord
  <1>6. Known(c, s) /\ Pending(c, s, w) /\ Minded(c, w)
    BY <1>2, <1>3 DEF CoordOK
  <1>7. /\ coord' = [coord EXCEPT ![p] = d] /\ store' = [store EXCEPT ![Here(p)] = t]
        /\ worker' = [worker EXCEPT ![Here(p)] = w]
    BY <1>1, <1>3 DEF AppendEvent, Go
  <1>8. t \in StoreRecord /\ t.made = s.made /\ t.log = Append(s.log, c.ev) /\ t.files = s.files
    <2>1. Append(s.log, c.ev) \in Seq(Event)
      BY <1>3, <1>5, AppendProperties
    <2> QED BY <1>3, <2>1 DEF StoreRecord
  <1>9. /\ d \in CoordRecord /\ d.pc = "snapshot" /\ d.step = c.step /\ d.at = c.at /\ d.mine = c.mine
        /\ d.ev = c.ev /\ d.then = c.then /\ Place(d) = c.then
    <2>1. "snapshot" \in Places
      BY DEF Places, Inside
    <2> QED BY <1>3, <2>1, GoShape DEF Place
  <1> HIDE DEF t, d
  <1>10. ASSUME NEW T
         PROVE  /\ Count(s.log, T) \in Nat
                /\ Count(t.log, T) = IF c.ev.type \in T THEN Count(s.log, T) + 1 ELSE Count(s.log, T)
    <2>1. Count(s.log, T) \in Nat
      BY <1>3, CountFinite
    <2>2. Count(t.log, T) = IF c.ev.type \in T THEN Count(s.log, T) + 1 ELSE Count(s.log, T)
      BY <1>3, <1>5, <1>8, CountAppend
    <2> QED BY <2>1, <2>2
  <1>11. Truthful(t, w)
    BY <1>1, <1>3, <1>5, <1>6, <1>8, AppendTruthful DEF RunOK
  <1>12. Finished(s.log) \in Nat
         /\ Finished(t.log) = IF c.ev.type = "run_finished" THEN Finished(s.log) + 1 ELSE Finished(s.log)
    BY <1>10 DEF Finished
  <1>13. Evidenced(t)
    <2>1. CASE c.ev.type = "run_finished"
      <3>1. /\ Finished(s.log) = 0 /\ Count(s.log, {"run_error"}) = 0
            /\ s.files = Evidence /\ Recorded(s.log) = Evidence
        BY <1>1, <1>6, <2>1 DEF Pending
      <3>2. ErrorsAfterEnd(t.log)
        BY <1>3, <1>5, <1>8, <2>1, <3>1, NoErrors, ErrorsAppend
      <3>3. Recorded(t.log) = Evidence
        <4>1. ~IsFile(c.ev)
          BY <2>1 DEF IsFile
        <4>2. Recorded(Append(s.log, c.ev))
                = Recorded(s.log) \cup (IF IsFile(c.ev) THEN {c.ev.of} ELSE {})
          BY <1>3, <1>5, RecordedAppend
        <4> QED BY <1>8, <3>1, <4>1, <4>2
      <3> QED BY <1>8, <1>12, <2>1, <3>1, <3>2, <3>3 DEF Evidenced
    <2>2. CASE c.ev.type # "run_finished" /\ Finished(s.log) > 0
      <3>1. /\ Finished(s.log) = 1 /\ ErrorsAfterEnd(s.log)
            /\ s.files = Evidence /\ Recorded(s.log) = Evidence
        BY <1>3, <2>2 DEF RunOK, Evidenced
      <3>2. ErrorsAfterEnd(t.log)
        BY <1>3, <1>5, <1>8, <2>2, <3>1, ErrorsAppend
      <3>3. ~IsFile(c.ev)
        BY <1>2, <1>4, <1>6, <2>2, PlacesOfAppends DEF Known, Working, Notes, IsFile
      <3>4. Recorded(t.log) = Evidence
        <4>1. Recorded(Append(s.log, c.ev))
                = Recorded(s.log) \cup (IF IsFile(c.ev) THEN {c.ev.of} ELSE {})
          BY <1>3, <1>5, RecordedAppend
        <4> QED BY <1>8, <3>1, <3>3, <4>1
      <3> QED BY <1>8, <1>12, <2>2, <3>1, <3>2, <3>4 DEF Evidenced
    <2>3. CASE c.ev.type # "run_finished" /\ ~(Finished(s.log) > 0)
      BY <1>12, <2>3 DEF Evidenced
    <2> QED BY <2>1, <2>2, <2>3
  <1>14. Known(d, t)
    <2>1. c.then \in Working \cup {"error"} => c.ev.type \notin {"run_finished", "run_error"}
      BY <1>4, PlacesOfAppends DEF Working, Starting
    <2>2. c.then \in Working \ {"evidence"} => c.ev.type \notin Collected
      BY <1>4 DEF Appends, Notes, Working, Starting, Collected
    <2>3. c.then \in Working \cup {"error"} => Finished(t.log) = 0
      BY <1>2, <1>6, <1>12, <2>1 DEF Known
    <2>4. c.then \in Working => Count(t.log, {"run_error"}) = 0
      BY <1>2, <1>6, <1>10, <2>1 DEF Known
    <2>5. c.then \in Working \ {"evidence"} => Count(t.log, Collected) = 0
      BY <1>2, <1>6, <1>10, <2>2 DEF Known
    <2>6. c.then = "evidence" => /\ d.step \in 1 .. Len(Plan) + 1 /\ Files(d.step) \subseteq t.files
                                 /\ Recorded(t.log) = Files(d.step)
      BY <1>1, <1>2, <1>6, <1>8, <1>9 DEF Known
    <2> QED BY <1>9, <2>3, <2>4, <2>5, <2>6 DEF Known
  <1>15. Pending(d, t, w)
    <2> SUFFICES ASSUME c.then = "send"
                 PROVE  LET n == Count(t.log, Settling) IN
                        /\ Count(t.log, {"delivery_requested"}) = n + 1
                        /\ Len(w.got) = n /\ n < NumEvents
      BY <1>9 DEF Pending
    <2>1. c.ev.type = "delivery_requested"
      BY <1>4, PlacesOfAppends
    <2>2. /\ Count(s.log, {"delivery_requested"}) = Count(s.log, Settling)
          /\ Count(s.log, Settling) < NumEvents
      BY <1>1, <1>6, <2>1 DEF Pending
    <2>3. Len(w.got) = Count(s.log, Settling)
      BY <1>3, <1>10, <2>2 DEF RunOK, Truthful
    <2>4. c.ev.type \notin Settling
      BY <2>1 DEF Settling
    <2> QED BY <1>10, <2>1, <2>2, <2>3, <2>4
  <1>16. Minded(d, w)
    BY <1>1, <1>6, <1>9 DEF Minded
  <1>17. CoordShape(d) /\ InRun(d)
    BY <1>2, <1>3, <1>4, <1>9 DEF CoordShape, InRun, Inside
  <1>18. Finished(s.log) > 0 => Finished(t.log) > 0
    BY <1>12
  <1> QED BY <1>1, <1>2, <1>3, <1>7, <1>8, <1>9, <1>11, <1>13, <1>14, <1>15, <1>16, <1>17, <1>18, Writing

-----------------------------------------------------------------------------
(* Steps outside the runs, and into and out of them                         *)

\* What a step of p that leaves the other coordinators alone says of them.
LEMMA Others ==
    ASSUME IInv, NEW p \in Coord, NEW d \in CoordRecord, coord' = [coord EXCEPT ![p] = d]
    PROVE  /\ coord' \in [Coord -> CoordRecord] /\ coord'[p] = d
           /\ \A q \in Coord \ {p} : coord'[q] = coord[q] /\ Here(q)' = Here(q)
           /\ CoordShape(d) => \A q \in Coord : CoordShape(coord'[q])
  <1>1. coord \in [Coord -> CoordRecord] /\ \A q \in Coord : CoordShape(coord[q])
    BY DEF IInv, Types
  <1> QED BY <1>1 DEF Here

\* Where the others are: not where p is alone.
LEMMA Elsewhere ==
    ASSUME IInv, NEW p \in Coord, NEW q \in Coord, InRun(coord[q])
    PROVE  Here(q) \in Run /\ flock[Here(q)].writer = q /\ flock[Here(q)].writer # Nobody
  BY InRunInside, RunTyped, ArenaAssumption DEF IInv, Turns

\* A step that changes one coordinator outside the runs, and no writer.
LEMMA Aside ==
    ASSUME IInv, NEW p \in Coord, ~InRun(coord[p]),
           NEW d \in CoordRecord, coord' = [coord EXCEPT ![p] = d],
           ~InRun(d), d.pc \notin {"lockfile", "flock"}, CoordShape(d),
           UNCHANGED <<store, worker>>, flock' \in [Run -> FlockRecord],
           \A r \in Run : flock'[r].writer = flock[r].writer,
           report' \in BOOLEAN, report' => \A r \in Run : Finished(store[r].log) > 0
    PROVE  IInv'
  <1>1. /\ coord' \in [Coord -> CoordRecord] /\ coord'[p] = d
        /\ \A q \in Coord \ {p} : coord'[q] = coord[q] /\ Here(q)' = Here(q)
        /\ \A q \in Coord : CoordShape(coord'[q])
    BY Others
  <1>2. \A q \in Coord : InRun(coord'[q]) => q # p /\ InRun(coord[q])
    BY <1>1
  <1>3. Types'
    <2>1. store \in [Run -> StoreRecord] /\ worker \in [Run -> WorkerRecord]
      BY Typed DEF IInv, Types
    <2>2. TypeOK'
      BY <2>1 DEF TypeOK, StoreRecord, FlockRecord, WorkerRecord
    <2> QED BY <1>1, <2>2 DEF Types
  <1>4. Turns'
    <2>1. \A q \in Coord : InRun(coord'[q]) => flock'[Here(q)'].writer = q
      BY <1>1, <1>2, Elsewhere
    <2>2. (\A r \in Run : flock[r].writer # Nobody =>
             InRun(coord[flock[r].writer]) /\ Here(flock[r].writer) = r)'
      <3> SUFFICES ASSUME NEW r \in Run, flock[r].writer # Nobody
                   PROVE  /\ InRun(coord'[flock[r].writer])
                          /\ Assignments[coord'[flock[r].writer].at] = r
        BY DEF Here
      <3>1. flock[r].writer \in Coord
        BY Typed DEF IInv, Types, FlockRecord
      <3>2. InRun(coord[flock[r].writer]) /\ Here(flock[r].writer) = r
        BY DEF IInv, Turns
      <3>3. coord'[flock[r].writer] = coord[flock[r].writer]
        BY <1>1, <3>1, <3>2
      <3> QED BY <3>2, <3>3 DEF Here
    <2>3. \A q \in Coord : coord'[q].pc \in {"lockfile", "flock"} => q # p /\ coord[q].pc \in {"lockfile", "flock"}
      BY <1>1
    <2>4. \A r \in Run : ~store'[r].made =>
            /\ store'[r].log = <<>> /\ flock'[r].writer = Nobody
            /\ \A q \in Coord : coord'[q].pc \in {"lockfile", "flock"} => Here(q)' # r
      BY <1>1, <2>3 DEF IInv, Turns
    <2>5. \A q \in Coord : coord'[q].pc \in {"lockfile", "flock"} =>
            /\ store'[Here(q)'].log = <<>> /\ flock'[Here(q)'].writer = Nobody
            /\ \A o \in Coord \ {q} : coord'[o].pc \in {"lockfile", "flock"} => Here(o)' # Here(q)'
      <3> SUFFICES ASSUME NEW q \in Coord, coord'[q].pc \in {"lockfile", "flock"}
                   PROVE  /\ store'[Here(q)'].log = <<>> /\ flock'[Here(q)'].writer = Nobody
                          /\ \A o \in Coord \ {q} : coord'[o].pc \in {"lockfile", "flock"} => Here(o)' # Here(q)'
        OBVIOUS
      <3>1. q # p /\ coord[q].pc \in {"lockfile", "flock"} /\ Here(q)' = Here(q)
        BY <1>1, <2>3
      <3>2. Here(q) \in Run
        BY <3>1, RunTyped DEF Outside
      <3> QED BY <1>1, <2>3, <3>1, <3>2 DEF IInv, Turns
    <2> QED BY <2>1, <2>2, <2>4, <2>5 DEF Turns
  <1>5. \A r \in Run : RunOK(r)'
    BY DEF IInv, RunOK
  <1>6. \A q \in Coord : CoordOK(q)'
    BY <1>1, <1>2 DEF IInv, CoordOK
  <1>7. report' => \A r \in Run : Finished(store'[r].log) > 0
    OBVIOUS
  <1> QED BY <1>3, <1>4, <1>5, <1>6, <1>7 DEF IInv

\* A coordinator takes the lock of a run that nobody is in.
LEMMA Enter ==
    ASSUME IInv, NEW p \in Coord, ~InRun(coord[p]), coord[p].pc \notin Outside,
           NEW d \in CoordRecord, coord' = [coord EXCEPT ![p] = d],
           InRun(d), d.at = coord[p].at, CoordShape(d),
           UNCHANGED <<store, worker, report>>, flock[Here(p)].writer = Nobody,
           flock' = [flock EXCEPT ![Here(p)].writer = p], store[Here(p)].made,
           \A q \in Coord \ {p} : coord[q].pc \in {"lockfile", "flock"} => Here(q) # Here(p),
           Known(d, store[Here(p)]), Pending(d, store[Here(p)], worker[Here(p)])
    PROVE  IInv'
  <1>1. /\ coord' \in [Coord -> CoordRecord] /\ coord'[p] = d
        /\ \A q \in Coord \ {p} : coord'[q] = coord[q] /\ Here(q)' = Here(q)
        /\ \A q \in Coord : CoordShape(coord'[q])
    BY Others
  <1>2. Here(p)' = Here(p) /\ Here(p) \in Run /\ p # Nobody
    BY <1>1, RunTyped, ArenaAssumption DEF Here
  <1>3. flock \in [Run -> FlockRecord]
    BY Typed DEF IInv, Types
  <1>4. /\ flock' \in [Run -> FlockRecord] /\ flock'[Here(p)].writer = p
        /\ \A r \in Run \ {Here(p)} : flock'[r] = flock[r]
    BY <1>2, <1>3 DEF FlockRecord
  <1>5. \A q \in Coord \ {p} : InRun(coord'[q]) => /\ InRun(coord[q]) /\ Here(q) # Here(p) /\ Here(q) \in Run
                                                   /\ flock[Here(q)].writer = q
    BY <1>1, Elsewhere
  <1>6. Types'
    <2>1. store \in [Run -> StoreRecord] /\ worker \in [Run -> WorkerRecord] /\ report \in BOOLEAN
      BY Typed DEF IInv, Types
    <2>2. TypeOK'
      BY <1>4, <2>1 DEF TypeOK, StoreRecord, FlockRecord, WorkerRecord
    <2> QED BY <1>1, <2>2 DEF Types
  <1>7. Turns'
    <2>1. \A q \in Coord : InRun(coord'[q]) => flock'[Here(q)'].writer = q
      <3> SUFFICES ASSUME NEW q \in Coord, InRun(coord'[q]) PROVE flock'[Here(q)'].writer = q
        OBVIOUS
      <3>1. CASE q = p
        BY <1>2, <1>4, <3>1
      <3>2. CASE q # p
        BY <1>1, <1>4, <1>5, <3>2
      <3> QED BY <3>1, <3>2
    <2>2. (\A r \in Run : flock[r].writer # Nobody =>
             InRun(coord[flock[r].writer]) /\ Here(flock[r].writer) = r)'
      <3> SUFFICES ASSUME NEW r \in Run, flock'[r].writer # Nobody
                   PROVE  /\ InRun(coord'[flock'[r].writer])
                          /\ Assignments[coord'[flock'[r].writer].at] = r
        BY DEF Here
      <3>1. CASE r = Here(p)
        <4>1. flock'[r].writer = p
          BY <1>4, <3>1
        <4>2. coord'[p] = d
          BY <1>1
        <4>3. Assignments[d.at] = r
          BY <3>1 DEF Here
        <4> QED BY <4>1, <4>2, <4>3
      <3>2. CASE r # Here(p)
        <4>1. flock'[r] = flock[r] /\ flock[r].writer \in Coord
          BY <1>3, <1>4, <3>2 DEF FlockRecord
        <4>2. InRun(coord[flock[r].writer]) /\ Here(flock[r].writer) = r
          BY <4>1 DEF IInv, Turns
        <4>3. coord'[flock[r].writer] = coord[flock[r].writer]
          BY <1>1, <4>1, <4>2
        <4> QED BY <4>1, <4>2, <4>3 DEF Here
      <3> QED BY <3>1, <3>2
    <2>3. \A q \in Coord : coord'[q].pc \in {"lockfile", "flock"} =>
            q # p /\ coord[q].pc \in {"lockfile", "flock"} /\ Here(q)' = Here(q) /\ Here(q) # Here(p)
      BY <1>1, InRunInside
    <2>4. \A r \in Run : ~store'[r].made =>
            /\ store'[r].log = <<>> /\ flock'[r].writer = Nobody
            /\ \A q \in Coord : coord'[q].pc \in {"lockfile", "flock"} => Here(q)' # r
      BY <1>1, <1>4, <2>3 DEF IInv, Turns
    <2>5. \A q \in Coord : coord'[q].pc \in {"lockfile", "flock"} =>
            /\ store'[Here(q)'].log = <<>> /\ flock'[Here(q)'].writer = Nobody
            /\ \A o \in Coord \ {q} : coord'[o].pc \in {"lockfile", "flock"} => Here(o)' # Here(q)'
      <3> SUFFICES ASSUME NEW q \in Coord, coord'[q].pc \in {"lockfile", "flock"}
                   PROVE  /\ store'[Here(q)'].log = <<>> /\ flock'[Here(q)'].writer = Nobody
                          /\ \A o \in Coord \ {q} : coord'[o].pc \in {"lockfile", "flock"} => Here(o)' # Here(q)'
        OBVIOUS
      <3>1. q # p /\ coord[q].pc \in {"lockfile", "flock"} /\ Here(q)' = Here(q) /\ Here(q) # Here(p)
        BY <2>3
      <3>2. Here(q) \in Run
        BY <3>1, RunTyped DEF Outside
      <3>3. flock'[Here(q)] = flock[Here(q)]
        BY <1>4, <3>1, <3>2
      <3> QED BY <1>1, <2>3, <3>1, <3>2, <3>3 DEF IInv, Turns
    <2> QED BY <2>1, <2>2, <2>4, <2>5 DEF Turns
  <1>8. \A r \in Run : RunOK(r)'
    BY <1>2, <1>4 DEF IInv, RunOK
  <1>9. \A q \in Coord : CoordOK(q)'
    <2> SUFFICES ASSUME NEW q \in Coord, InRun(coord'[q])
                 PROVE  /\ Known(coord'[q], store'[Here(q)'])
                        /\ Pending(coord'[q], store'[Here(q)'], worker'[Here(q)'])
                        /\ Minded(coord'[q], worker'[Here(q)'])
      BY DEF CoordOK
    <2>1. CASE q = p
      <3>1. ~Attended(worker[Here(p)])
        BY <1>2 DEF IInv, RunOK
      <3> QED BY <1>1, <1>2, <2>1, <3>1 DEF Minded
    <2>2. CASE q # p
      BY <1>1, <1>5, <2>2 DEF IInv, CoordOK
    <2> QED BY <2>1, <2>2
  <1>10. report' => \A r \in Run : Finished(store'[r].log) > 0
    BY DEF IInv
  <1> QED BY <1>6, <1>7, <1>8, <1>9, <1>10 DEF IInv

\* A coordinator lets go of its run, its worker stopped or nobody's.
LEMMA Exit ==
    ASSUME IInv, NEW p \in Coord, InRun(coord[p]),
           NEW d \in CoordRecord, coord' = [coord EXCEPT ![p] = d],
           ~InRun(d), d.pc \notin {"lockfile", "flock"}, CoordShape(d),
           NEW s \in StoreRecord, store' = [store EXCEPT ![Here(p)] = s],
           s.made = store[Here(p)].made, s.log = store[Here(p)].log, s.files = store[Here(p)].files,
           NEW w \in WorkerRecord, worker' = [worker EXCEPT ![Here(p)] = w],
           w.got = worker[Here(p)].got, ~Attended(w),
           NEW f \in FlockRecord, flock' = [flock EXCEPT ![Here(p)] = f], f.writer = Nobody,
           UNCHANGED report
    PROVE  IInv'
  <1>1. /\ coord' \in [Coord -> CoordRecord] /\ coord'[p] = d
        /\ \A q \in Coord \ {p} : coord'[q] = coord[q] /\ Here(q)' = Here(q)
        /\ \A q \in Coord : CoordShape(coord'[q])
    BY Others
  <1>2. Here(p) \in Run /\ flock[Here(p)].writer = p /\ p # Nobody
    BY Elsewhere, ArenaAssumption
  <1>3. /\ store \in [Run -> StoreRecord] /\ worker \in [Run -> WorkerRecord]
        /\ flock \in [Run -> FlockRecord] /\ report \in BOOLEAN
    BY Typed DEF IInv, Types
  <1>4. /\ store' \in [Run -> StoreRecord] /\ store'[Here(p)] = s
        /\ worker' \in [Run -> WorkerRecord] /\ worker'[Here(p)] = w
        /\ flock' \in [Run -> FlockRecord] /\ flock'[Here(p)] = f
        /\ \A r \in Run \ {Here(p)} : store'[r] = store[r] /\ worker'[r] = worker[r] /\ flock'[r] = flock[r]
    BY <1>2, <1>3
  <1>5. \A q \in Coord : InRun(coord'[q]) =>
          /\ q # p /\ InRun(coord[q]) /\ coord'[q] = coord[q] /\ Here(q)' = Here(q)
          /\ Here(q) # Here(p) /\ Here(q) \in Run /\ flock[Here(q)].writer = q
    BY <1>1, <1>2, Elsewhere
  <1>6. Types'
    <2>1. TypeOK'
      BY <1>3, <1>4 DEF TypeOK, StoreRecord, WorkerRecord, FlockRecord
    <2> QED BY <1>1, <2>1 DEF Types
  <1>7. store[Here(p)].made
    BY <1>2 DEF IInv, Turns
  <1>8. Turns'
    <2>1. \A q \in Coord : InRun(coord'[q]) => flock'[Here(q)'].writer = q
      BY <1>4, <1>5
    <2>2. (\A r \in Run : flock[r].writer # Nobody =>
             InRun(coord[flock[r].writer]) /\ Here(flock[r].writer) = r)'
      <3> SUFFICES ASSUME NEW r \in Run, flock'[r].writer # Nobody
                   PROVE  /\ InRun(coord'[flock'[r].writer])
                          /\ Assignments[coord'[flock'[r].writer].at] = r
        BY DEF Here
      <3>1. r # Here(p) /\ flock'[r] = flock[r] /\ flock[r].writer \in Coord
        BY <1>3, <1>4 DEF FlockRecord
      <3>2. InRun(coord[flock[r].writer]) /\ Here(flock[r].writer) = r
        BY <3>1 DEF IInv, Turns
      <3>3. coord'[flock[r].writer] = coord[flock[r].writer]
        BY <1>1, <3>1, <3>2
      <3> QED BY <3>1, <3>2, <3>3 DEF Here
    <2>3. \A q \in Coord : coord'[q].pc \in {"lockfile", "flock"} =>
            /\ q # p /\ coord[q].pc \in {"lockfile", "flock"} /\ Here(q)' = Here(q)
            /\ Here(q) \in Run /\ Here(q) # Here(p)
      <3> SUFFICES ASSUME NEW q \in Coord, coord'[q].pc \in {"lockfile", "flock"}
                   PROVE  /\ q # p /\ coord[q].pc \in {"lockfile", "flock"} /\ Here(q)' = Here(q)
                          /\ Here(q) \in Run /\ Here(q) # Here(p)
        OBVIOUS
      <3>1. q # p /\ coord[q].pc \in {"lockfile", "flock"} /\ Here(q)' = Here(q)
        BY <1>1
      <3>2. Here(q) \in Run
        BY <3>1, RunTyped DEF Outside
      <3>3. flock[Here(q)].writer = Nobody
        BY <3>1 DEF IInv, Turns
      <3> QED BY <1>2, <3>1, <3>2, <3>3
    <2>4. \A r \in Run : ~store'[r].made =>
            /\ store'[r].log = <<>> /\ flock'[r].writer = Nobody
            /\ \A q \in Coord : coord'[q].pc \in {"lockfile", "flock"} => Here(q)' # r
      <3> SUFFICES ASSUME NEW r \in Run, ~store'[r].made
                   PROVE  /\ store'[r].log = <<>> /\ flock'[r].writer = Nobody
                          /\ \A q \in Coord : coord'[q].pc \in {"lockfile", "flock"} => Here(q)' # r
        OBVIOUS
      <3>1. r # Here(p) /\ ~store[r].made /\ store'[r] = store[r] /\ flock'[r] = flock[r]
        BY <1>4, <1>7
      <3> QED BY <2>3, <3>1 DEF IInv, Turns
    <2>5. \A q \in Coord : coord'[q].pc \in {"lockfile", "flock"} =>
            /\ store'[Here(q)'].log = <<>> /\ flock'[Here(q)'].writer = Nobody
            /\ \A o \in Coord \ {q} : coord'[o].pc \in {"lockfile", "flock"} => Here(o)' # Here(q)'
      <3> SUFFICES ASSUME NEW q \in Coord, coord'[q].pc \in {"lockfile", "flock"}
                   PROVE  /\ store'[Here(q)'].log = <<>> /\ flock'[Here(q)'].writer = Nobody
                          /\ \A o \in Coord \ {q} : coord'[o].pc \in {"lockfile", "flock"} => Here(o)' # Here(q)'
        OBVIOUS
      <3>1. coord[q].pc \in {"lockfile", "flock"} /\ Here(q)' = Here(q)
            /\ store'[Here(q)] = store[Here(q)] /\ flock'[Here(q)] = flock[Here(q)]
        BY <1>4, <2>3
      <3> QED BY <2>3, <3>1 DEF IInv, Turns
    <2> QED BY <2>1, <2>2, <2>4, <2>5 DEF Turns
  <1>9. \A r \in Run : RunOK(r)'
    <2> SUFFICES ASSUME NEW r \in Run PROVE RunOK(r)'
      OBVIOUS
    <2>1. RunOK(r)
      BY DEF IInv
    <2>2. CASE r = Here(p)
      BY <1>4, <2>1, <2>2 DEF RunOK, Truthful, Evidenced
    <2>3. CASE r # Here(p)
      BY <1>4, <2>1, <2>3 DEF RunOK
    <2> QED BY <2>2, <2>3
  <1>10. \A q \in Coord : CoordOK(q)'
    BY <1>4, <1>5 DEF IInv, CoordOK
  <1>11. report' => \A r \in Run : Finished(store'[r].log) > 0
    <2>1. \A r \in Run : store'[r].log = store[r].log
      BY <1>4
    <2> QED BY <2>1 DEF IInv
  <1> QED BY <1>6, <1>8, <1>9, <1>10, <1>11 DEF IInv

LEMMA IdleTyped == Idle \in CoordRecord /\ ~Idle.mine /\ Idle.at = 1
  <1>1. "idle" \in Places /\ "none" \in State /\ Ev("none") \in Event \cup {Ev("none")}
    BY DEF Places, Outside, State
  <1> QED BY <1>1 DEF Idle, CoordRecord

LEMMA IdleShape ==
    ASSUME NEW pc \in {"halt", "done", "look"}, NEW at \in Nat \ {0}
    PROVE  LET d == [Idle EXCEPT !.pc = pc, !.at = at] IN
           /\ d \in CoordRecord /\ d.pc = pc /\ d.at = at /\ ~InRun(d) /\ CoordShape(d)
           /\ d.pc \notin {"lockfile", "flock"}
  <1> DEFINE d == [Idle EXCEPT !.pc = pc, !.at = at]
  <1>1. pc \in Places
    BY DEF Places, Outside
  <1>2. d \in CoordRecord /\ d.pc = pc /\ d.at = at /\ ~d.mine
    BY <1>1, IdleTyped DEF CoordRecord
  <1> HIDE DEF d
  <1>3. ~InRun(d) /\ CoordShape(d) /\ d.pc \notin {"lockfile", "flock"}
    BY <1>2 DEF InRun, Inside, CoordShape, Outside
  <1> QED BY <1>2, <1>3 DEF d

LEMMA DoneShape ==
    /\ Done = [Idle EXCEPT !.pc = "done", !.at = 1]
    /\ [Idle EXCEPT !.pc = "halt"] = [Idle EXCEPT !.pc = "halt", !.at = 1]
  BY IdleTyped, ZenonT(30) DEF Done, CoordRecord

LEMMA LeaveKeeps ==
    ASSUME IInv, NEW p \in Coord, Leave(p) PROVE IInv'
  <1> DEFINE c == coord[p]
             s == store[Here(p)]
             t == IF c.fresh \/ c.mine THEN [s EXCEPT !.private = "none"] ELSE s
             w == IF c.mine THEN StopWorker(worker[Here(p)]) ELSE worker[Here(p)]
             f == [flock[Here(p)] EXCEPT !.writer = Nobody]
  <1>1. c.pc = "leave" /\ UNCHANGED report
    BY DEF Leave, At
  <1>2. InRun(c) /\ c.pc \notin Outside
    BY <1>1 DEF InRun, Outside
  <1>3. /\ c \in CoordRecord /\ CoordOK(p) /\ Here(p) \in Run
        /\ s \in StoreRecord /\ worker[Here(p)] \in WorkerRecord /\ flock[Here(p)] \in FlockRecord
        /\ store \in [Run -> StoreRecord] /\ worker \in [Run -> WorkerRecord] /\ flock \in [Run -> FlockRecord]
    BY <1>2, RunTyped, Typed DEF IInv, Types
  <1>4. /\ store' = [store EXCEPT ![Here(p)] = t] /\ worker' = [worker EXCEPT ![Here(p)] = w]
        /\ flock' = [flock EXCEPT ![Here(p)] = f]
    BY <1>3 DEF Leave
  <1>5. t \in StoreRecord /\ t.made = s.made /\ t.log = s.log /\ t.files = s.files
    BY <1>3 DEF StoreRecord
  <1>6. w \in WorkerRecord /\ w.got = worker[Here(p)].got /\ ~Attended(w)
    BY <1>1, <1>2, <1>3, StopShape DEF CoordOK, Minded
  <1>7. f \in FlockRecord /\ f.writer = Nobody
    BY <1>3 DEF FlockRecord
  <1> HIDE DEF t, w, f
  <1>8. PICK pc \in {"halt", "done", "look"}, at \in Nat \ {0} :
          coord' = [coord EXCEPT ![p] = [Idle EXCEPT !.pc = pc, !.at = at]]
    <2>1. c.at + 1 \in Nat \ {0} /\ 1 \in Nat \ {0} /\ c.exit \in {"halt", "next", "gone"}
      BY <1>3 DEF CoordRecord
    <2>2. CASE c.exit = "next"
      <3>1. coord' = [coord EXCEPT ![p] = [Idle EXCEPT !.pc = "look", !.at = c.at + 1]]
        BY <2>2 DEF Leave
      <3> QED BY <2>1, <3>1
    <2>3. CASE c.exit = "halt"
      <3>1. coord' = [coord EXCEPT ![p] = [Idle EXCEPT !.pc = "halt"]]
        BY <2>3 DEF Leave
      <3> QED BY <2>1, <3>1, DoneShape
    <2>4. CASE c.exit = "gone"
      <3>1. coord' = [coord EXCEPT ![p] = Done]
        BY <2>4 DEF Leave
      <3> QED BY <2>1, <3>1, DoneShape
    <2> QED BY <2>1, <2>2, <2>3, <2>4
  <1> DEFINE d == [Idle EXCEPT !.pc = pc, !.at = at]
  <1>9. d \in CoordRecord /\ ~InRun(d) /\ CoordShape(d) /\ d.pc \notin {"lockfile", "flock"}
    BY IdleShape
  <1>10. coord' = [coord EXCEPT ![p] = d]
    BY <1>8
  <1> HIDE DEF d
  <1> QED BY <1>1, <1>2, <1>4, <1>5, <1>6, <1>7, <1>9, <1>10, Exit

LEMMA KillKeeps ==
    ASSUME IInv, NEW p \in Coord, Kill(p) PROVE IInv'
  <1> DEFINE c == coord[p]
             s == store[Here(p)]
             w == worker[Here(p)]
             f == [writer |-> IF flock[Here(p)].writer = p THEN Nobody ELSE flock[Here(p)].writer,
                   readers |-> flock[Here(p)].readers \ {p}]
             d == Done
  <1>1. c.pc \notin Outside /\ UNCHANGED report /\ Loosened(p, ~InRun(c))
        /\ flock' = [flock EXCEPT ![Here(p)] = f] /\ coord' = [coord EXCEPT ![p] = d]
    BY DEF Kill, Outside, InRun
  <1>2. /\ c \in CoordRecord /\ CoordOK(p) /\ CoordShape(c) /\ Here(p) \in Run
        /\ s \in StoreRecord /\ w \in WorkerRecord /\ flock[Here(p)] \in FlockRecord
        /\ store \in [Run -> StoreRecord] /\ worker \in [Run -> WorkerRecord] /\ flock \in [Run -> FlockRecord]
        /\ report \in BOOLEAN
    BY <1>1, RunTyped, Typed DEF IInv, Types
  <1>3. d \in CoordRecord /\ ~InRun(d) /\ CoordShape(d) /\ d.pc \notin {"lockfile", "flock"}
    <2>1. 1 \in Nat \ {0}
      OBVIOUS
    <2>2. d = [Idle EXCEPT !.pc = "done", !.at = 1]
      BY DoneShape
    <2> HIDE DEF d
    <2> QED BY <2>1, <2>2, IdleShape
  <1>4. f \in FlockRecord
    BY <1>2 DEF FlockRecord
  <1>5. CASE InRun(c)
    <2>1. f.writer = Nobody
      BY <1>5, Elsewhere
    <2>2. PICK t \in StoreRecord, v \in WorkerRecord :
            /\ store' = [store EXCEPT ![Here(p)] = t] /\ worker' = [worker EXCEPT ![Here(p)] = v]
            /\ t.made = s.made /\ t.log = s.log /\ t.files = s.files /\ v.got = w.got /\ ~Attended(v)
      <3> DEFINE v1 == [w EXCEPT !.state = "running", !.loose = TRUE]
                 v2 == [w EXCEPT !.loose = TRUE]
                 t1 == [s EXCEPT !.private = "ready"]
                 T(x) == [s EXCEPT !.torn = x]
      <3>1. /\ v1 \in WorkerRecord /\ v2 \in WorkerRecord /\ v1.got = w.got /\ v2.got = w.got
            /\ ~Attended(v1) /\ ~Attended(v2)
        BY <1>2 DEF WorkerRecord, Attended
      <3>2. /\ t1 \in StoreRecord /\ t1.made = s.made /\ t1.log = s.log /\ t1.files = s.files
            /\ \A x \in BOOLEAN : /\ T(x) \in StoreRecord /\ T(x).made = s.made
                                  /\ T(x).log = s.log /\ T(x).files = s.files
        BY <1>2 DEF StoreRecord
      <3>3. CASE c.pc = "start"
        <4>1. ~Attended(w)
          <5>1. ~c.mine
            BY <1>2, <3>3 DEF CoordShape, Place, Starting
          <5> QED BY <1>2, <1>5, <3>3, <5>1 DEF CoordOK, Minded
        <4>2. /\ store' = [store EXCEPT ![Here(p)] = t1]
              /\ \/ worker' = [worker EXCEPT ![Here(p)] = w]
                 \/ worker' = [worker EXCEPT ![Here(p)] = v1]
          BY <1>1, <1>2, <3>3 DEF Loosened, HalfStarted, At
        <4> HIDE DEF v1, v2, t1, T
        <4> QED BY <1>2, <3>1, <3>2, <4>1, <4>2
      <3>4. CASE c.pc # "start"
        <4>1. PICK x \in BOOLEAN : store' = [store EXCEPT ![Here(p)] = T(x)]
          <5>1. s.torn \in BOOLEAN
            BY <1>2 DEF StoreRecord
          <5>2. PICK x \in IF At(p, "append") /\ InRun(c) THEN BOOLEAN ELSE {s.torn} :
                  store' = [store EXCEPT ![Here(p)].torn = x]
            BY <1>1, <3>4 DEF Loosened, At
          <5>3. x \in BOOLEAN /\ store' = [store EXCEPT ![Here(p)] = T(x)]
            BY <1>2, <5>1, <5>2
          <5> QED BY <5>3
        <4>2. worker' = [worker EXCEPT ![Here(p)] = v2]
          BY <1>1, <1>2, <1>5, <3>4 DEF Loosened, At
        <4> HIDE DEF v1, v2, t1, T
        <4> QED BY <1>2, <3>1, <3>2, <4>1, <4>2
      <3> QED BY <3>3, <3>4
    <2> HIDE DEF d, f
    <2> QED BY <1>1, <1>2, <1>3, <1>4, <1>5, <2>1, <2>2, Exit
  <1>6. CASE ~InRun(c)
    <2>1. UNCHANGED <<store, worker>>
      <3>1. c.pc # "start" /\ ~At(p, "append")
        BY <1>6 DEF InRun, Inside, At
      <3>2. store' = [store EXCEPT ![Here(p)].torn = s.torn] /\ UNCHANGED worker
        BY <1>1, <1>6, <3>1 DEF Loosened, At
      <3>3. [store EXCEPT ![Here(p)].torn = s.torn] = store
        <4>1. [s EXCEPT !.torn = s.torn] = s
          BY <1>2 DEF StoreRecord
        <4>2. [store EXCEPT ![Here(p)].torn = s.torn] = [store EXCEPT ![Here(p)] = [s EXCEPT !.torn = s.torn]]
          OBVIOUS
        <4> QED BY <1>2, <4>1, <4>2
      <3> QED BY <3>2, <3>3
    <2>2. flock[Here(p)].writer # p
      BY <1>2, <1>6, ArenaAssumption DEF IInv, Turns
    <2>3. flock' \in [Run -> FlockRecord] /\ \A r \in Run : flock'[r].writer = flock[r].writer
      BY <1>1, <1>2, <1>4, <2>2
    <2>4. report' \in BOOLEAN /\ (report' => \A r \in Run : Finished(store[r].log) > 0)
      BY <1>1, <1>2 DEF IInv
    <2> HIDE DEF d, f
    <2> QED BY <1>1, <1>3, <1>6, <2>1, <2>3, <2>4, Aside
  <1> QED BY <1>5, <1>6

LEMMA AsideKeeps ==
    ASSUME IInv, NEW p \in Coord,
           Execute(p) \/ Look(p) \/ OpenReader(p) \/ ReadRun(p) \/ Halt(p) \/ WriteReport(p)
    PROVE  IInv'
  <1>1. coord[p] \in CoordRecord /\ CoordShape(coord[p]) /\ flock \in [Run -> FlockRecord] /\ report \in BOOLEAN
        /\ (report => \A r \in Run : Finished(store[r].log) > 0)
    BY Typed DEF IInv, Types
  <1>2. coord[p].pc \in {"idle", "look", "reader", "read", "halt", "report"} /\ UNCHANGED <<store, worker>>
    BY DEF Execute, Look, OpenReader, ReadRun, Halt, WriteReport, At
  <1>3. ~InRun(coord[p]) /\ coord[p].at \in Nat \ {0} /\ ~coord[p].mine
    BY <1>1, <1>2 DEF InRun, Inside, CoordShape, Place, Outside, Reading, CoordRecord
  \* Where it may go, and to which assignment.
  <1>4. ASSUME NEW pc \in {"look", "report", "reader", "read", "reopen", "halt"}, NEW at \in Nat \ {0},
               at <= Len(Assignments) \/ pc \in Outside,
               coord' = [coord EXCEPT ![p].pc = pc, ![p].at = at],
               UNCHANGED report, flock' \in [Run -> FlockRecord],
               \A r \in Run : flock'[r].writer = flock[r].writer
        PROVE  IInv'
    <2> DEFINE d == [coord[p] EXCEPT !.pc = pc, !.at = at]
    <2>1. pc \in Places
      BY DEF Places, Outside, Reading
    <2>2. d \in CoordRecord /\ d.pc = pc /\ d.at = at /\ ~d.mine
      BY <1>1, <1>3, <2>1 DEF CoordRecord
    <2>3. coord' = [coord EXCEPT ![p] = d]
      BY <1>4
    <2> HIDE DEF d
    <2>4. ~InRun(d) /\ d.pc \notin {"lockfile", "flock"} /\ CoordShape(d)
      BY <1>4, <2>2 DEF InRun, Inside, CoordShape, Outside
    <2>5. report' \in BOOLEAN /\ (report' => \A r \in Run : Finished(store[r].log) > 0)
      BY <1>1, <1>4
    <2> QED BY <1>2, <1>3, <1>4, <2>2, <2>3, <2>4, <2>5, Aside
  <1>5. ASSUME NEW pc \in {"look", "report", "reader", "read", "reopen", "halt"}, Go(p, pc),
               coord[p].at <= Len(Assignments) \/ pc \in Outside,
               UNCHANGED report, flock' \in [Run -> FlockRecord],
               \A r \in Run : flock'[r].writer = flock[r].writer
        PROVE  IInv'
    <2> DEFINE c == coord[p]
    <2>1. [c EXCEPT !.pc = pc, !.at = c.at] = [c EXCEPT !.pc = pc]
      BY <1>1 DEF CoordRecord
    <2>2. coord' = [coord EXCEPT ![p].pc = pc, ![p].at = coord[p].at]
      BY <1>5, <2>1 DEF Go
    <2> QED BY <1>3, <1>4, <1>5, <2>2
  <1>6. coord[p].pc \in {"reader", "read"} => coord[p].at <= Len(Assignments) /\ Here(p) \in Run
    BY <1>1, RunTyped DEF CoordShape, Outside
  <1>7. CASE Execute(p)
    BY <1>1, <1>5, <1>7 DEF Execute, Outside
  <1>8. CASE Look(p)
    <2>1. CASE coord[p].at > Len(Assignments)
      <3>1. Go(p, "report") /\ UNCHANGED <<flock, report>>
        BY <1>8, <2>1 DEF Look, Go
      <3> QED BY <1>1, <1>5, <3>1 DEF Outside
    <2>2. CASE ~(coord[p].at > Len(Assignments)) /\ store[Here(p)].made
      <3>1. Go(p, "reader") /\ UNCHANGED <<flock, report>>
        BY <1>8, <2>2 DEF Look, Go
      <3>2. coord[p].at <= Len(Assignments)
        BY <1>3, <2>2, ArenaAssumption, LenProperties
      <3> QED BY <1>1, <1>5, <3>1, <3>2
    <2>3. CASE ~(coord[p].at > Len(Assignments)) /\ ~store[Here(p)].made
      <3> DEFINE d == [coord[p] EXCEPT !.pc = "make"]
      <3>1. coord' = [coord EXCEPT ![p] = d] /\ UNCHANGED <<flock, report>>
        BY <1>8, <2>3 DEF Look
      <3>2. coord[p].at <= Len(Assignments)
        BY <1>3, <2>3, ArenaAssumption, LenProperties
      <3>3. "make" \in Places
        BY DEF Places, Making
      <3>4. d \in CoordRecord /\ d.pc = "make" /\ d.at = coord[p].at /\ d.mine = coord[p].mine
        BY <1>1, <3>3, GoShape
      <3> HIDE DEF d
      <3>5. ~InRun(d) /\ d.pc \notin {"lockfile", "flock"} /\ CoordShape(d)
        BY <1>3, <3>2, <3>4 DEF InRun, Inside, CoordShape
      <3> QED BY <1>1, <1>2, <1>3, <3>1, <3>4, <3>5, Aside
    <2> QED BY <2>1, <2>2, <2>3
  <1>9. CASE OpenReader(p)
    <2> DEFINE f == [flock[Here(p)] EXCEPT !.readers = @ \cup {p}]
    <2>1. coord[p].at <= Len(Assignments) /\ Here(p) \in Run /\ flock[Here(p)] \in FlockRecord
      BY <1>1, <1>6, <1>9 DEF OpenReader, At
    <2>2. f \in FlockRecord /\ f.writer = flock[Here(p)].writer
      BY <2>1 DEF FlockRecord
    <2>3. flock' = flock \/ flock' = [flock EXCEPT ![Here(p)] = f]
      BY <1>9 DEF OpenReader
    <2> HIDE DEF f
    <2>4. flock' \in [Run -> FlockRecord] /\ \A r \in Run : flock'[r].writer = flock[r].writer
      BY <1>1, <2>1, <2>2, <2>3
    <2>5. (Go(p, "read") \/ Go(p, "halt")) /\ UNCHANGED report
      BY <1>9 DEF OpenReader
    <2> QED BY <1>5, <2>1, <2>4, <2>5
  <1>10. CASE ReadRun(p)
    <2> DEFINE f == [flock[Here(p)] EXCEPT !.readers = @ \ {p}]
    <2>1. coord[p].at <= Len(Assignments) /\ Here(p) \in Run /\ flock[Here(p)] \in FlockRecord
      BY <1>1, <1>6, <1>10 DEF ReadRun, At
    <2>2. f \in FlockRecord /\ f.writer = flock[Here(p)].writer
      BY <2>1 DEF FlockRecord
    <2>3. flock' = [flock EXCEPT ![Here(p)] = f] /\ UNCHANGED report
      BY <1>10 DEF ReadRun
    <2> HIDE DEF f
    <2>4. flock' \in [Run -> FlockRecord] /\ \A r \in Run : flock'[r].writer = flock[r].writer
      BY <1>1, <2>1, <2>2, <2>3
    <2>5. \/ coord' = [coord EXCEPT ![p].pc = "look", ![p].at = coord[p].at + 1]
          \/ Go(p, "reopen") \/ Go(p, "halt")
      BY <1>10 DEF ReadRun
    <2>6. coord[p].at + 1 \in Nat \ {0}
      BY <1>3
    <2> QED BY <1>4, <1>5, <2>1, <2>3, <2>4, <2>5, <2>6 DEF Outside
  <1>11. ASSUME coord' = [coord EXCEPT ![p] = Done], UNCHANGED flock, report' \in BOOLEAN,
                report' => \A r \in Run : Finished(store[r].log) > 0
         PROVE  IInv'
    <2> DEFINE d == Done
    <2>1. d \in CoordRecord /\ ~InRun(d) /\ CoordShape(d) /\ d.pc \notin {"lockfile", "flock"}
      <3>1. 1 \in Nat \ {0}
        OBVIOUS
      <3>2. d = [Idle EXCEPT !.pc = "done", !.at = 1]
        BY DoneShape
      <3> HIDE DEF d
      <3> QED BY <3>1, <3>2, IdleShape
    <2>2. coord' = [coord EXCEPT ![p] = d]
      BY <1>11
    <2> HIDE DEF d
    <2> QED BY <1>1, <1>2, <1>3, <1>11, <2>1, <2>2, Aside
  <1>12. CASE Halt(p)
    BY <1>1, <1>11, <1>12 DEF Halt
  <1>13. CASE WriteReport(p)
    <2>1. /\ coord' = [coord EXCEPT ![p] = Done] /\ UNCHANGED flock
          /\ report' = (report \/ \A r \in Run : Reportable(r))
      BY <1>13 DEF WriteReport
    <2>2. report' => \A r \in Run : Finished(store[r].log) > 0
      <3>1. \A r \in Run : Reportable(r) => Finished(store[r].log) > 0
        BY DEF Reportable
      <3> QED BY <1>1, <2>1, <3>1
    <2> QED BY <1>1, <1>11, <2>1, <2>2
  <1> QED BY <1>7, <1>8, <1>9, <1>10, <1>12, <1>13

LEMMA ReopenKeeps ==
    ASSUME IInv, NEW p \in Coord, Reopen(p) PROVE IInv'
  <1> DEFINE c == coord[p]
             s == store[Here(p)]
  <1>1. c.pc = "reopen" /\ UNCHANGED <<store, worker, report>>
    BY DEF Reopen, At
  <1>2. ~InRun(c) /\ c.pc \notin Outside /\ ~(c.pc \in {"lockfile", "flock"})
    BY <1>1 DEF InRun, Inside, Outside
  <1>3. /\ c \in CoordRecord /\ CoordShape(c) /\ Here(p) \in Run /\ s \in StoreRecord
        /\ flock \in [Run -> FlockRecord] /\ report \in BOOLEAN
        /\ (report => \A r \in Run : Finished(store[r].log) > 0)
    BY <1>2, RunTyped, Typed DEF IInv, Types
  <1>4. ~c.mine /\ c.at <= Len(Assignments)
    BY <1>1, <1>2, <1>3 DEF CoordShape, Place, Reading
  <1>5. CASE /\ flock[Here(p)].writer = Nobody /\ flock[Here(p)].readers \ {p} = {}
             /\ Chained(s) /\ SnapshotCurrent(s)
    <2> DEFINE e == Ev("run_resumed")
               d == Appending(c, e, s.snap.state, "gate")
    <2>1. coord' = [coord EXCEPT ![p] = d] /\ flock' = [flock EXCEPT ![Here(p)].writer = p]
      BY <1>5 DEF Reopen, LogThen
    <2>2. e \in Event /\ e.type = "run_resumed" /\ s.snap.state \in State /\ "gate" \in Places
      BY <1>3, EventsTyped DEF EventType, StoreRecord, Places, Inside
    <2> HIDE DEF e
    <2>3. d \in CoordRecord /\ d.pc = "append" /\ d.ev = e /\ d.then = "gate" /\ d.at = c.at /\ d.mine = c.mine
      BY <1>3, <2>2, AppendingShape
    <2> HIDE DEF d
    <2>4. Known(d, s) /\ Pending(d, s, worker[Here(p)])
      BY <2>2, <2>3 DEF Known, Pending, Settling, Place, Working, Starting
    <2>5. CoordShape(d) /\ InRun(d)
      BY <1>4, <2>2, <2>3
      DEF CoordShape, Place, Appends, Outside, Reading, Making, Starting, InRun, Inside
    <2>6. s.log # <<>>
      BY <1>5 DEF Chained
    <2>7. s.made /\ \A q \in Coord \ {p} : coord[q].pc \in {"lockfile", "flock"} => Here(q) # Here(p)
      BY <1>3, <2>6 DEF IInv, Turns
    <2> QED BY <1>1, <1>2, <1>5, <2>1, <2>3, <2>4, <2>5, <2>7, Enter
  <1>6. CASE ~(/\ flock[Here(p)].writer = Nobody /\ flock[Here(p)].readers \ {p} = {}
               /\ Chained(s) /\ SnapshotCurrent(s))
    <2> DEFINE d == [c EXCEPT !.pc = "halt"]
    <2>1. coord' = [coord EXCEPT ![p] = d] /\ UNCHANGED flock
      BY <1>6 DEF Reopen, Go
    <2>2. "halt" \in Places
      BY DEF Places, Outside
    <2>3. d \in CoordRecord /\ d.pc = "halt" /\ d.mine = c.mine
      BY <1>3, <2>2, GoShape
    <2> HIDE DEF d
    <2>4. ~InRun(d) /\ CoordShape(d) /\ d.pc \notin {"lockfile", "flock"}
      BY <1>4, <2>3 DEF InRun, Inside, CoordShape, Outside
    <2> QED BY <1>1, <1>2, <1>3, <2>1, <2>3, <2>4, Aside
  <1> QED BY <1>5, <1>6

LEMMA TakeLockKeeps ==
    ASSUME IInv, NEW p \in Coord, TakeLock(p) PROVE IInv'
  <1> DEFINE c == coord[p]
             s == store[Here(p)]
  <1>1. c.pc = "flock" /\ UNCHANGED <<store, worker, report>>
    BY DEF TakeLock, At
  <1>2. ~InRun(c) /\ c.pc \notin Outside
    BY <1>1 DEF InRun, Inside, Outside
  <1>3. /\ c \in CoordRecord /\ CoordShape(c) /\ Here(p) \in Run /\ s \in StoreRecord
        /\ flock \in [Run -> FlockRecord] /\ report \in BOOLEAN
        /\ (report => \A r \in Run : Finished(store[r].log) > 0)
    BY <1>2, RunTyped, Typed DEF IInv, Types
  <1>4. ~c.mine /\ c.at <= Len(Assignments)
    BY <1>1, <1>2, <1>3 DEF CoordShape, Place, Making
  <1>5. CASE flock[Here(p)].writer = Nobody /\ flock[Here(p)].readers = {}
    <2> DEFINE e == Ev("run_reserved")
               a == Appending(c, e, "reserved", "recover")
               d == [a EXCEPT !.fresh = TRUE]
    <2>1. coord' = [coord EXCEPT ![p] = d] /\ flock' = [flock EXCEPT ![Here(p)].writer = p]
      BY <1>5 DEF TakeLock
    <2>2. e \in Event /\ e.type = "run_reserved" /\ "reserved" \in State /\ "recover" \in Places
      BY EventsTyped DEF EventType, State, Places, Inside
    <2> HIDE DEF e
    <2>3. a \in CoordRecord /\ a.pc = "append" /\ a.ev = e /\ a.then = "recover" /\ a.at = c.at /\ a.mine = c.mine
      BY <1>3, <2>2, AppendingShape
    <2> HIDE DEF a
    <2>4. d \in CoordRecord /\ d.pc = "append" /\ d.ev = e /\ d.then = "recover" /\ d.at = c.at /\ d.mine = c.mine
      BY <2>3 DEF CoordRecord
    <2> HIDE DEF d
    <2>5. /\ s.log = <<>> /\ s.made
          /\ \A q \in Coord \ {p} : coord[q].pc \in {"lockfile", "flock"} => Here(q) # Here(p)
      BY <1>1, <1>3 DEF IInv, Turns
    <2>6. Known(d, s)
      <3>1. Finished(s.log) = 0 /\ Count(s.log, {"run_error"}) = 0 /\ Count(s.log, Collected) = 0
        BY <2>5, CountEmpty DEF Finished
      <3> QED BY <2>4, <3>1 DEF Known, Place
    <2>7. Pending(d, s, worker[Here(p)])
      BY <2>2, <2>4 DEF Pending, Settling
    <2>8. CoordShape(d) /\ InRun(d)
      BY <1>4, <2>2, <2>4
      DEF CoordShape, Place, Appends, Outside, Reading, Making, Starting, InRun, Inside
    <2> QED BY <1>1, <1>2, <1>5, <2>1, <2>4, <2>5, <2>6, <2>7, <2>8, Enter
  <1>6. CASE ~(flock[Here(p)].writer = Nobody /\ flock[Here(p)].readers = {})
    <2> DEFINE d == [c EXCEPT !.pc = "halt"]
    <2>1. coord' = [coord EXCEPT ![p] = d] /\ UNCHANGED flock
      BY <1>6 DEF TakeLock
    <2>2. "halt" \in Places
      BY DEF Places, Outside
    <2>3. d \in CoordRecord /\ d.pc = "halt" /\ d.mine = c.mine
      BY <1>3, <2>2, GoShape
    <2> HIDE DEF d
    <2>4. ~InRun(d) /\ CoordShape(d) /\ d.pc \notin {"lockfile", "flock"}
      BY <1>4, <2>3 DEF InRun, Inside, CoordShape, Outside
    <2> QED BY <1>1, <1>2, <1>3, <2>1, <2>3, <2>4, Aside
  <1> QED BY <1>5, <1>6

\* A coordinator makes the directory of a run that nobody else is making.
LEMMA Alone ==
    ASSUME IInv, NEW p \in Coord, ~InRun(coord[p]), coord[p].pc \notin Outside,
           NEW d \in CoordRecord, coord' = [coord EXCEPT ![p] = d],
           d.pc \in {"lockfile", "flock"}, d.at = coord[p].at, CoordShape(d),
           NEW s \in StoreRecord, store' = [store EXCEPT ![Here(p)] = s],
           s.made, s.log = store[Here(p)].log, s.files = store[Here(p)].files,
           UNCHANGED <<worker, flock, report>>,
           store[Here(p)].log = <<>>, flock[Here(p)].writer = Nobody,
           \A q \in Coord \ {p} : coord[q].pc \in {"lockfile", "flock"} => Here(q) # Here(p)
    PROVE  IInv'
  <1>1. /\ coord' \in [Coord -> CoordRecord] /\ coord'[p] = d
        /\ \A q \in Coord \ {p} : coord'[q] = coord[q] /\ Here(q)' = Here(q)
        /\ \A q \in Coord : CoordShape(coord'[q])
    BY Others
  <1>2. Here(p)' = Here(p) /\ Here(p) \in Run
    BY <1>1, RunTyped DEF Here
  <1>3. /\ store \in [Run -> StoreRecord] /\ worker \in [Run -> WorkerRecord]
        /\ flock \in [Run -> FlockRecord] /\ report \in BOOLEAN
    BY Typed DEF IInv, Types
  <1>4. /\ store' \in [Run -> StoreRecord] /\ store'[Here(p)] = s
        /\ \A r \in Run \ {Here(p)} : store'[r] = store[r]
    BY <1>2, <1>3
  <1>5. ~InRun(d)
    BY InRunInside
  <1>6. \A q \in Coord : InRun(coord'[q]) =>
          /\ q # p /\ InRun(coord[q]) /\ coord'[q] = coord[q] /\ Here(q)' = Here(q)
          /\ Here(q) # Here(p) /\ Here(q) \in Run /\ flock[Here(q)].writer = q
    BY <1>1, <1>5, Elsewhere
  <1>7. Types'
    <2>1. TypeOK'
      BY <1>3, <1>4 DEF TypeOK, StoreRecord, WorkerRecord, FlockRecord
    <2> QED BY <1>1, <2>1 DEF Types
  <1>8. Turns'
    <2>1. \A q \in Coord : InRun(coord'[q]) => flock'[Here(q)'].writer = q
      BY <1>6
    <2>2. (\A r \in Run : flock[r].writer # Nobody =>
             InRun(coord[flock[r].writer]) /\ Here(flock[r].writer) = r)'
      <3> SUFFICES ASSUME NEW r \in Run, flock[r].writer # Nobody
                   PROVE  /\ InRun(coord'[flock[r].writer])
                          /\ Assignments[coord'[flock[r].writer].at] = r
        BY DEF Here
      <3>1. flock[r].writer \in Coord
        BY <1>3 DEF FlockRecord
      <3>2. InRun(coord[flock[r].writer]) /\ Here(flock[r].writer) = r
        BY DEF IInv, Turns
      <3>3. coord'[flock[r].writer] = coord[flock[r].writer]
        BY <1>1, <3>1, <3>2
      <3> QED BY <3>2, <3>3 DEF Here
    <2>3. \A q \in Coord \ {p} : coord'[q].pc \in {"lockfile", "flock"} =>
            /\ coord[q].pc \in {"lockfile", "flock"} /\ Here(q)' = Here(q)
            /\ Here(q) \in Run /\ Here(q) # Here(p)
      BY <1>1, RunTyped DEF Outside
    <2>4. \A r \in Run : ~store'[r].made =>
            /\ store'[r].log = <<>> /\ flock'[r].writer = Nobody
            /\ \A q \in Coord : coord'[q].pc \in {"lockfile", "flock"} => Here(q)' # r
      <3> SUFFICES ASSUME NEW r \in Run, ~store'[r].made
                   PROVE  /\ store'[r].log = <<>> /\ flock'[r].writer = Nobody
                          /\ \A q \in Coord : coord'[q].pc \in {"lockfile", "flock"} => Here(q)' # r
        OBVIOUS
      <3>1. r # Here(p) /\ ~store[r].made /\ store'[r] = store[r]
        BY <1>4
      <3>2. \A q \in Coord \ {p} : coord'[q].pc \in {"lockfile", "flock"} => Here(q)' # r
        BY <2>3, <3>1 DEF IInv, Turns
      <3> QED BY <1>2, <3>1, <3>2 DEF IInv, Turns
    <2>5. \A q \in Coord : coord'[q].pc \in {"lockfile", "flock"} =>
            /\ store'[Here(q)'].log = <<>> /\ flock'[Here(q)'].writer = Nobody
            /\ \A o \in Coord \ {q} : coord'[o].pc \in {"lockfile", "flock"} => Here(o)' # Here(q)'
      <3> SUFFICES ASSUME NEW q \in Coord, coord'[q].pc \in {"lockfile", "flock"}
                   PROVE  /\ store'[Here(q)'].log = <<>> /\ flock'[Here(q)'].writer = Nobody
                          /\ \A o \in Coord \ {q} : coord'[o].pc \in {"lockfile", "flock"} => Here(o)' # Here(q)'
        OBVIOUS
      <3>1. CASE q = p
        BY <1>2, <1>4, <2>3, <3>1
      <3>2. CASE q # p
        <4>1. coord[q].pc \in {"lockfile", "flock"} /\ Here(q)' = Here(q) /\ store'[Here(q)] = store[Here(q)]
          BY <1>4, <2>3, <3>2
        <4>2. \A o \in Coord \ {q} : coord'[o].pc \in {"lockfile", "flock"} => Here(o)' # Here(q)'
          BY <1>2, <2>3, <3>2, <4>1 DEF IInv, Turns
        <4> QED BY <4>1, <4>2 DEF IInv, Turns
      <3> QED BY <3>1, <3>2
    <2> QED BY <2>1, <2>2, <2>4, <2>5 DEF Turns
  <1>9. \A r \in Run : RunOK(r)'
    <2> SUFFICES ASSUME NEW r \in Run PROVE RunOK(r)'
      OBVIOUS
    <2>1. RunOK(r)
      BY DEF IInv
    <2>2. CASE r = Here(p)
      BY <1>4, <2>1, <2>2 DEF RunOK, Truthful, Evidenced
    <2>3. CASE r # Here(p)
      BY <1>4, <2>1, <2>3 DEF RunOK
    <2> QED BY <2>2, <2>3
  <1>10. \A q \in Coord : CoordOK(q)'
    BY <1>4, <1>6 DEF IInv, CoordOK
  <1>11. report' => \A r \in Run : Finished(store'[r].log) > 0
    <2>1. \A r \in Run : store'[r].log = store[r].log
      BY <1>4
    <2> QED BY <2>1 DEF IInv
  <1> QED BY <1>7, <1>8, <1>9, <1>10, <1>11 DEF IInv

LEMMA MakeKeeps ==
    ASSUME IInv, NEW p \in Coord, MakeRun(p) \/ MakeLock(p) PROVE IInv'
  <1> DEFINE c == coord[p]
             s == store[Here(p)]
  <1>1. c.pc \in {"make", "lockfile"} /\ UNCHANGED <<flock, worker, report>>
    BY DEF MakeRun, MakeLock, At
  <1>2. ~InRun(c) /\ c.pc \notin Outside
    BY <1>1 DEF InRun, Inside, Outside
  <1>3. /\ c \in CoordRecord /\ CoordShape(c) /\ Here(p) \in Run /\ s \in StoreRecord
        /\ store \in [Run -> StoreRecord] /\ flock \in [Run -> FlockRecord] /\ report \in BOOLEAN
        /\ (report => \A r \in Run : Finished(store[r].log) > 0)
    BY <1>2, RunTyped, Typed DEF IInv, Types
  <1>4. ~c.mine /\ c.at <= Len(Assignments)
    BY <1>1, <1>2, <1>3 DEF CoordShape, Place, Making
  <1>5. ASSUME NEW pc \in {"lockfile", "flock", "halt"}
        PROVE  LET d == [c EXCEPT !.pc = pc] IN
               d \in CoordRecord /\ d.pc = pc /\ d.at = c.at /\ CoordShape(d) /\ ~InRun(d)
    <2> DEFINE d == [c EXCEPT !.pc = pc]
    <2>1. pc \in Places
      BY DEF Places, Making, Outside
    <2>2. d \in CoordRecord /\ d.pc = pc /\ d.at = c.at /\ d.mine = c.mine
      BY <1>3, <2>1, GoShape
    <2> HIDE DEF d
    <2>3. CoordShape(d) /\ ~InRun(d)
      BY <1>4, <2>2 DEF CoordShape, InRun, Inside
    <2> QED BY <2>2, <2>3 DEF d
  <1>6. CASE MakeRun(p) /\ s.made
    <2> DEFINE d == [c EXCEPT !.pc = "halt"]
    <2>1. coord' = [coord EXCEPT ![p] = d] /\ store' = [store EXCEPT ![Here(p)] = [s EXCEPT !.made = TRUE]]
      BY <1>6 DEF MakeRun, Go
    <2>2. [s EXCEPT !.made = TRUE] = s
      BY <1>3, <1>6 DEF StoreRecord
    <2>3. UNCHANGED store
      BY <1>3, <2>1, <2>2
    <2>4. d \in CoordRecord /\ d.pc = "halt" /\ CoordShape(d) /\ ~InRun(d)
      BY <1>5
    <2> HIDE DEF d
    <2> QED BY <1>1, <1>2, <1>3, <2>1, <2>3, <2>4, Aside
  <1>7. CASE MakeRun(p) /\ ~s.made
    <2> DEFINE d == [c EXCEPT !.pc = "lockfile"]
               t == [s EXCEPT !.made = TRUE]
    <2>1. coord' = [coord EXCEPT ![p] = d] /\ store' = [store EXCEPT ![Here(p)] = t]
      BY <1>7 DEF MakeRun, Go
    <2>2. d \in CoordRecord /\ d.pc = "lockfile" /\ d.at = c.at /\ CoordShape(d)
      BY <1>5
    <2>3. t \in StoreRecord /\ t.made /\ t.log = s.log /\ t.files = s.files
      BY <1>3 DEF StoreRecord
    <2>4. /\ s.log = <<>> /\ flock[Here(p)].writer = Nobody
          /\ \A q \in Coord \ {p} : coord[q].pc \in {"lockfile", "flock"} => Here(q) # Here(p)
      BY <1>3, <1>7 DEF IInv, Turns
    <2> HIDE DEF d, t
    <2> QED BY <1>1, <1>2, <2>1, <2>2, <2>3, <2>4, Alone
  <1>8. CASE MakeLock(p)
    <2> DEFINE d == [c EXCEPT !.pc = "flock"]
               t == [s EXCEPT !.lockfile = TRUE]
    <2>1. coord' = [coord EXCEPT ![p] = d] /\ store' = [store EXCEPT ![Here(p)] = t] /\ c.pc = "lockfile"
      BY <1>8 DEF MakeLock, Go, At
    <2>2. d \in CoordRecord /\ d.pc = "flock" /\ d.at = c.at /\ CoordShape(d)
      BY <1>5
    <2>3. /\ s.made /\ s.log = <<>> /\ flock[Here(p)].writer = Nobody
          /\ \A q \in Coord \ {p} : coord[q].pc \in {"lockfile", "flock"} => Here(q) # Here(p)
      BY <1>3, <2>1 DEF IInv, Turns
    <2>4. t \in StoreRecord /\ t.made /\ t.log = s.log /\ t.files = s.files
      BY <1>3, <2>3 DEF StoreRecord
    <2> HIDE DEF d, t
    <2> QED BY <1>1, <1>2, <2>1, <2>2, <2>3, <2>4, Alone
  <1> QED BY <1>6, <1>7, <1>8

\* What a worker does by itself: it prints, and it ends.
LEMMA WorkerKeeps ==
    ASSUME IInv, NEW r \in Run, Prints(r) \/ EndWorker(r) PROVE IInv'
  <1>1. UNCHANGED <<store, flock, coord, report>>
    BY DEF Prints, EndWorker
  <1>2. worker \in [Run -> WorkerRecord] /\ worker[r] \in WorkerRecord
    BY Typed DEF IInv, Types
  <1>3. PICK w \in WorkerRecord : /\ worker' = [worker EXCEPT ![r] = w] /\ w.got = worker[r].got
                                  /\ Attended(w) => Attended(worker[r])
    <2>1. CASE Prints(r)
      <3> DEFINE i == NextMsg(store[r].log)
                 w == [worker[r] EXCEPT !.out = Append(worker[r].out, i)]
      <3>1. store[r].log \in Seq(Event)
        BY Typed DEF IInv, Types, StoreRecord
      <3>2. i \in 1 .. NumEvents
        <4>1. Count(store[r].log, Settling) \in Nat
          BY <3>1, CountFinite
        <4>2. Count(store[r].log, Settling) < NumEvents /\ NumEvents \in Nat
          BY <2>1, ArenaAssumption DEF Prints
        <4> QED BY <4>1, <4>2 DEF NextMsg
      <3>3. worker' = [worker EXCEPT ![r] = w]
        BY <1>2, <2>1 DEF Prints
      <3> HIDE DEF i
      <3>4. Append(worker[r].out, i) \in Seq(1 .. NumEvents)
        BY <1>2, <3>2, AppendProperties DEF WorkerRecord
      <3>5. w \in WorkerRecord /\ w.got = worker[r].got /\ (Attended(w) => Attended(worker[r]))
        BY <1>2, <3>4 DEF WorkerRecord, Attended
      <3> HIDE DEF w
      <3> QED BY <3>3, <3>5
    <2>2. CASE EndWorker(r)
      <3>1. PICK how \in {"completed", "failed", "lost"} : worker' = [worker EXCEPT ![r].state = how]
        BY <2>2 DEF EndWorker
      <3> DEFINE w == [worker[r] EXCEPT !.state = how]
      <3>2. worker' = [worker EXCEPT ![r] = w]
        BY <1>2, <3>1
      <3>3. w \in WorkerRecord /\ w.got = worker[r].got /\ ~Attended(w)
        BY <1>2 DEF WorkerRecord, Attended, Gone
      <3> HIDE DEF w
      <3> QED BY <3>2, <3>3
    <2> QED BY <2>1, <2>2
  <1>4. /\ worker' \in [Run -> WorkerRecord]
        /\ \A q \in Run : worker'[q].got = worker[q].got /\ (Attended(worker'[q]) => Attended(worker[q]))
    BY <1>2, <1>3
  <1>5. Types'
    <2>1. TypeOK'
      <3>1. store \in [Run -> StoreRecord] /\ flock \in [Run -> FlockRecord] /\ report \in BOOLEAN
        BY Typed DEF IInv, Types
      <3> QED BY <1>1, <1>4, <3>1 DEF TypeOK, StoreRecord, WorkerRecord, FlockRecord
    <2> QED BY <1>1, <2>1 DEF IInv, Types
  <1>6. Turns'
    BY <1>1 DEF IInv, Turns, Here
  <1>7. \A q \in Run : RunOK(q)'
    BY <1>1, <1>4 DEF IInv, RunOK, Truthful
  <1>8. \A p \in Coord : CoordOK(p)'
    <2> SUFFICES ASSUME NEW p \in Coord, InRun(coord[p])
                 PROVE  /\ Known(coord[p], store[Here(p)])
                        /\ Pending(coord[p], store[Here(p)], worker'[Here(p)])
                        /\ Minded(coord[p], worker'[Here(p)])
      BY <1>1 DEF CoordOK, Here
    <2>1. Here(p) \in Run
      BY Elsewhere
    <2>2. /\ Known(coord[p], store[Here(p)]) /\ Pending(coord[p], store[Here(p)], worker[Here(p)])
          /\ Minded(coord[p], worker[Here(p)])
      BY DEF IInv, CoordOK
    <2> QED BY <1>4, <2>1, <2>2 DEF Pending, Minded
  <1>9. report' => \A q \in Run : Finished(store'[q].log) > 0
    BY <1>1 DEF IInv
  <1> QED BY <1>5, <1>6, <1>7, <1>8, <1>9 DEF IInv

-----------------------------------------------------------------------------
(* The theorems                                                             *)

LEMMA InitOK == Init => IInv
  <1> SUFFICES ASSUME Init PROVE IInv
    OBVIOUS
  <1>1. NoStore \in StoreRecord /\ NoWorker \in WorkerRecord
    <2>1. <<>> \in Seq(Event) /\ <<>> \in Seq(1 .. NumEvents) /\ "none" \in State /\ {} \in SUBSET Evidence
      BY DEF State
    <2> QED BY <2>1 DEF NoStore, NoWorker, StoreRecord, WorkerRecord
  <1>2. [writer |-> Nobody, readers |-> {}] \in FlockRecord
    BY DEF FlockRecord
  <1>3. /\ NoStore.log = <<>> /\ NoWorker.got = <<>> /\ NoWorker.state = "absent" /\ Idle.pc = "idle"
        /\ ~NoStore.made
    BY DEF NoStore, NoWorker, Idle
  <1>4. /\ store \in [Run -> StoreRecord] /\ flock \in [Run -> FlockRecord]
        /\ worker \in [Run -> WorkerRecord] /\ coord \in [Coord -> CoordRecord] /\ ~report
        /\ \A r \in Run : store[r] = NoStore /\ worker[r] = NoWorker /\ flock[r].writer = Nobody
        /\ \A p \in Coord : coord[p] = Idle
    BY <1>1, <1>2, IdleTyped DEF Init
  <1>5. \A p \in Coord : coord[p].pc = "idle" /\ ~InRun(coord[p]) /\ CoordShape(coord[p])
    BY <1>3, <1>4, IdleTyped DEF InRun, Inside, CoordShape, Outside
  <1>6. Types
    <2>1. report \in BOOLEAN
      BY DEF Init
    <2> QED BY <1>4, <1>5, <2>1, Typed DEF Types
  <1>7. Turns
    BY <1>3, <1>4, <1>5 DEF Turns
  <1>8. ASSUME NEW r \in Run PROVE RunOK(r)
    <2>1. Truthful(store[r], worker[r])
      <3>1. /\ Count(store[r].log, Settling) = 0 /\ Count(store[r].log, {"delivery_requested"}) = 0
            /\ Count(store[r].log, {"delivery_sent"}) = 0 /\ Len(worker[r].got) = 0
        BY <1>3, <1>4, CountEmpty
      <3> QED BY <3>1, ArenaAssumption DEF Truthful
    <2>2. Evidenced(store[r])
      BY <1>3, <1>4, CountEmpty DEF Evidenced, Finished
    <2> QED BY <1>3, <1>4, <2>1, <2>2 DEF RunOK, Attended
  <1>9. \A p \in Coord : CoordOK(p)
    BY <1>5 DEF CoordOK
  <1> QED BY <1>4, <1>6, <1>7, <1>8, <1>9 DEF IInv

LEMMA StutterKeeps == ASSUME IInv, UNCHANGED vars PROVE IInv'
  BY DEF vars, IInv, Types, TypeOK, Turns, RunOK, CoordOK, Here

LEMMA StepKeeps == ASSUME IInv, NEW p \in Coord, Step(p) PROVE IInv'
  <1>1. CASE AppendEvent(p) \/ WriteSnapshot(p) \/ Gate(p)
    BY <1>1, AppendKeeps, WriteSnapshotKeeps, GateKeeps
  <1>2. CASE Look(p) \/ OpenReader(p) \/ ReadRun(p) \/ Halt(p) \/ WriteReport(p)
    BY <1>2, AsideKeeps
  <1>3. CASE Reopen(p) \/ TakeLock(p) \/ MakeRun(p) \/ MakeLock(p)
    BY <1>3, ReopenKeeps, TakeLockKeeps, MakeKeeps
  <1>4. CASE WriteRecovery(p) \/ PrepareCase(p) \/ PrepareVariant(p) \/ StartWorker(p) \/ RecordStart(p)
    BY <1>4, WriteRecoveryKeeps, PrepareKeeps, StartKeeps, RecordStartKeeps
  <1>5. CASE Observe(p) \/ Complete(p) \/ GoOn(p) \/ NotThere(p)
    BY <1>5, GoKeeps
  <1>6. CASE Acknowledge(p) \/ GiveUp(p) \/ FailUnknown(p) \/ TimeIsUp(p)
    BY <1>6, DecideKeeps
  <1>7. CASE Deliver(p) \/ Send(p) \/ SendFails(p)
    BY <1>7, DeliverKeeps, SendKeeps
  <1>8. CASE Collect(p) \/ WriteEvidence(p) \/ FinishRun(p) \/ RecordError(p) \/ Leave(p)
    BY <1>8, CollectKeeps, WriteEvidenceKeeps, FinishRunKeeps, RecordErrorKeeps, LeaveKeeps
  <1> QED BY <1>1, <1>2, <1>3, <1>4, <1>5, <1>6, <1>7, <1>8 DEF Step

LEMMA NextKeeps == IInv /\ [Next]_vars => IInv'
  <1> SUFFICES ASSUME IInv, [Next]_vars PROVE IInv'
    OBVIOUS
  <1>1. ASSUME NEW p \in Coord, Execute(p) \/ Step(p) \/ Fail(p) \/ StartFails(p) \/ Interrupt(p) \/ Kill(p)
        PROVE  IInv'
    BY <1>1, AsideKeeps, StepKeeps, FailKeeps, StartKeeps, InterruptKeeps, KillKeeps
  <1>2. ASSUME NEW r \in Run, Prints(r) \/ EndWorker(r) PROVE IInv'
    BY <1>2, WorkerKeeps
  <1> QED BY <1>1, <1>2, StutterKeeps DEF Next

LEMMA Invariance == Spec => []IInv
  BY InitOK, NextKeeps, PTL DEF Spec

\* Every directory, lock, worker and log has its shape.
THEOREM TypeCorrect == Spec => []TypeOK
  <1>1. IInv => TypeOK
    BY DEF IInv, Types
  <1> QED BY <1>1, Invariance, PTL

\* A reported campaign rests on runs that each finished once and before any
\* error, with every artifact of the frozen plan recorded and on disk, however
\* its executions overlapped, were killed or were interrupted.
THEOREM Reported == Spec => []ReportHasEvidence
  <1>1. IInv => ReportHasEvidence
    BY DEF IInv, RunOK, Evidenced, ReportHasEvidence
  <1> QED BY <1>1, Invariance, PTL

\* A worker that nobody was killed over has the writer of its run's lock at
\* work on it.
THEOREM NoOrphans == Spec => []NoOrphanWorker
  <1>1. ASSUME IInv PROVE NoOrphanWorker
    <2> SUFFICES ASSUME NEW r \in Run, worker[r].state = "running", ~worker[r].loose
                 PROVE  \E p \in Coord : /\ flock[r].writer = p /\ coord[p].at <= Len(Assignments)
                                         /\ Here(p) = r
      BY DEF NoOrphanWorker
    <2>1. flock[r].writer # Nobody
      BY <1>1 DEF IInv, RunOK, Attended
    <2>2. flock[r].writer \in Coord
      BY <1>1, <2>1, Typed DEF IInv, Types, FlockRecord
    <2>3. InRun(coord[flock[r].writer]) /\ Here(flock[r].writer) = r
      BY <1>1, <2>1 DEF IInv, Turns
    <2>4. coord[flock[r].writer].at <= Len(Assignments)
      BY <1>1, <2>2, <2>3, InRunInside DEF IInv, Types, CoordShape
    <2> QED BY <2>2, <2>3, <2>4
  <1>2. IInv => NoOrphanWorker
    BY <1>1
  <1> QED BY <1>2, Invariance, PTL

-----------------------------------------------------------------------------
(* The steps as the promise sees them                                       *)

\* All that the promise can see of a run, and a step in which none of it moves.
Still ==
    /\ \A r \in Run : store'[r].log = store[r].log /\ worker'[r].got = worker[r].got
    /\ report' = report

LEMMA StillMaps == Still => UNCHANGED Promise!dvars
  <1> SUFFICES ASSUME Still PROVE UNCHANGED Promise!dvars
    OBVIOUS
  <1>1. [r \in Run |-> worker'[r].got] = [r \in Run |-> worker[r].got]
    BY DEF Still
  <1>2. [r \in Run |-> Count(store'[r].log, Settling)] = [r \in Run |-> Count(store[r].log, Settling)]
    BY DEF Still
  <1>3. {r \in Run : Finished(store'[r].log) > 0} = {r \in Run : Finished(store[r].log) > 0}
    BY DEF Still
  <1> QED BY <1>1, <1>2, <1>3 DEF Promise!dvars, Still


\* Most steps show nothing of themselves.
LEMMA StillSteps ==
    ASSUME IInv, NEW p \in Coord,
           \/ Execute(p) \/ Fail(p) \/ StartFails(p) \/ Interrupt(p) \/ Kill(p)
           \/ WriteSnapshot(p) \/ Look(p) \/ OpenReader(p) \/ ReadRun(p) \/ Reopen(p) \/ Gate(p) \/ Halt(p)
           \/ MakeRun(p) \/ MakeLock(p) \/ TakeLock(p) \/ WriteRecovery(p) \/ PrepareCase(p)
           \/ PrepareVariant(p) \/ StartWorker(p) \/ RecordStart(p)
           \/ Observe(p) \/ Acknowledge(p) \/ GiveUp(p) \/ FailUnknown(p) \/ Deliver(p) \/ Complete(p)
           \/ GoOn(p) \/ TimeIsUp(p) \/ Collect(p) \/ WriteEvidence(p) \/ FinishRun(p) \/ RecordError(p)
           \/ Leave(p) \/ NotThere(p)
    PROVE  Still
  <1>1. CASE UNCHANGED <<store, worker, report>>
    BY <1>1 DEF Still
  <1>2. CASE Execute(p) \/ Fail(p) \/ Look(p) \/ OpenReader(p) \/ ReadRun(p) \/ Reopen(p) \/ Halt(p)
             \/ TakeLock(p) \/ PrepareCase(p) \/ PrepareVariant(p) \/ RecordStart(p)
    BY <1>1, <1>2 DEF Execute, Fail, Look, OpenReader, ReadRun, Reopen, Halt, TakeLock, PrepareCase,
                      PrepareVariant, RecordStart
  <1>3. CASE Observe(p) \/ Acknowledge(p) \/ GiveUp(p) \/ FailUnknown(p) \/ Deliver(p) \/ Complete(p)
             \/ GoOn(p) \/ TimeIsUp(p) \/ FinishRun(p) \/ RecordError(p) \/ NotThere(p)
    BY <1>1, <1>3 DEF Observe, Acknowledge, GiveUp, FailUnknown, Deliver, Complete, GoOn, TimeIsUp,
                      FinishRun, RecordError, NotThere
  <1>4. ASSUME coord[p].pc \notin Outside PROVE Here(p) \in Run
    BY <1>4, RunTyped
  \* What is written at a run that leaves its log and what was typed alone.
  <1>5. ASSUME Here(p) \in Run, report' = report,
               \/ UNCHANGED store
               \/ \E x : \/ store' = [store EXCEPT ![Here(p)].made = x]
                         \/ store' = [store EXCEPT ![Here(p)].lockfile = x]
                         \/ store' = [store EXCEPT ![Here(p)].private = x]
                         \/ store' = [store EXCEPT ![Here(p)].torn = x]
                         \/ store' = [store EXCEPT ![Here(p)].snap = x]
                         \/ store' = [store EXCEPT ![Here(p)].files = x],
               \/ UNCHANGED worker
               \/ \E x, y : \/ worker' = [worker EXCEPT ![Here(p)].state = x]
                            \/ worker' = [worker EXCEPT ![Here(p)].loose = x]
                            \/ worker' = [worker EXCEPT ![Here(p)].state = x, ![Here(p)].loose = y]
               \/ worker' = [worker EXCEPT ![Here(p)] = StopWorker(worker[Here(p)])]
        PROVE  Still
    <2> DEFINE h == Here(p)
    <2>1. /\ store \in [Run -> StoreRecord] /\ worker \in [Run -> WorkerRecord] /\ h \in Run
          /\ store[h] \in StoreRecord /\ worker[h] \in WorkerRecord
      BY <1>5, Typed DEF IInv, Types
    <2>2. StopWorker(worker[h]).got = worker[h].got
      BY <2>1, StopShape
    <2> HIDE DEF h
    <2>3. \A r \in Run : store'[r].log = store[r].log
      <3>1. CASE UNCHANGED store
        BY <3>1
      <3>2. ASSUME NEW x, store' = [store EXCEPT ![h].made = x]
            PROVE  \A r \in Run : store'[r].log = store[r].log
        BY <2>1, <3>2 DEF StoreRecord
      <3>3. ASSUME NEW x, store' = [store EXCEPT ![h].lockfile = x]
            PROVE  \A r \in Run : store'[r].log = store[r].log
        BY <2>1, <3>3 DEF StoreRecord
      <3>4. ASSUME NEW x, store' = [store EXCEPT ![h].private = x]
            PROVE  \A r \in Run : store'[r].log = store[r].log
        BY <2>1, <3>4 DEF StoreRecord
      <3>5. ASSUME NEW x, store' = [store EXCEPT ![h].torn = x]
            PROVE  \A r \in Run : store'[r].log = store[r].log
        BY <2>1, <3>5 DEF StoreRecord
      <3>6. ASSUME NEW x, store' = [store EXCEPT ![h].snap = x]
            PROVE  \A r \in Run : store'[r].log = store[r].log
        BY <2>1, <3>6 DEF StoreRecord
      <3>7. ASSUME NEW x, store' = [store EXCEPT ![h].files = x]
            PROVE  \A r \in Run : store'[r].log = store[r].log
        BY <2>1, <3>7 DEF StoreRecord
      <3> QED BY <1>5, <3>1, <3>2, <3>3, <3>4, <3>5, <3>6, <3>7 DEF h
    <2>4. \A r \in Run : worker'[r].got = worker[r].got
      <3>1. CASE UNCHANGED worker \/ worker' = [worker EXCEPT ![h] = StopWorker(worker[h])]
        BY <2>1, <2>2, <3>1
      <3>2. ASSUME NEW x, worker' = [worker EXCEPT ![h].state = x]
            PROVE  \A r \in Run : worker'[r].got = worker[r].got
        BY <2>1, <3>2 DEF WorkerRecord
      <3>3. ASSUME NEW x, worker' = [worker EXCEPT ![h].loose = x]
            PROVE  \A r \in Run : worker'[r].got = worker[r].got
        BY <2>1, <3>3 DEF WorkerRecord
      <3>4. ASSUME NEW x, NEW y, worker' = [worker EXCEPT ![h].state = x, ![h].loose = y]
            PROVE  \A r \in Run : worker'[r].got = worker[r].got
        BY <2>1, <3>4 DEF WorkerRecord
      <3> QED BY <1>5, <3>1, <3>2, <3>3, <3>4 DEF h
    <2> QED BY <1>5, <2>3, <2>4 DEF Still
  <1>6. CASE WriteSnapshot(p) \/ MakeRun(p) \/ MakeLock(p) \/ WriteRecovery(p) \/ WriteEvidence(p)
    <2>1. Here(p) \in Run
      BY <1>4, <1>6 DEF WriteSnapshot, MakeRun, MakeLock, WriteRecovery, WriteEvidence, At, Outside
    <2>2. UNCHANGED <<worker, report>>
      BY <1>6 DEF WriteSnapshot, MakeRun, MakeLock, WriteRecovery, WriteEvidence
    <2>3. UNCHANGED store \/ \E x : \/ store' = [store EXCEPT ![Here(p)].made = x]
                                    \/ store' = [store EXCEPT ![Here(p)].lockfile = x]
                                    \/ store' = [store EXCEPT ![Here(p)].private = x]
                                    \/ store' = [store EXCEPT ![Here(p)].snap = x]
                                    \/ store' = [store EXCEPT ![Here(p)].files = x]
      BY <1>6 DEF WriteSnapshot, MakeRun, MakeLock, WriteRecovery, WriteEvidence
    <2> QED BY <1>5, <2>1, <2>2, <2>3
  <1>7. CASE StartWorker(p) \/ StartFails(p) \/ Gate(p) \/ Collect(p) \/ Leave(p)
    <2>1. Here(p) \in Run
      BY <1>4, <1>7 DEF StartWorker, StartFails, Gate, Collect, Leave, At, Outside
    <2>2. UNCHANGED report
      BY <1>7 DEF StartWorker, StartFails, Gate, Collect, Leave
    <2>3. UNCHANGED store \/ \E x : store' = [store EXCEPT ![Here(p)].private = x]
      BY <1>7 DEF StartWorker, StartFails, HalfStarted, Gate, Collect, Leave
    <2>4. \/ UNCHANGED worker
          \/ \E x, y : \/ worker' = [worker EXCEPT ![Here(p)].state = x]
                       \/ worker' = [worker EXCEPT ![Here(p)].loose = x]
                       \/ worker' = [worker EXCEPT ![Here(p)].state = x, ![Here(p)].loose = y]
          \/ worker' = [worker EXCEPT ![Here(p)] = StopWorker(worker[Here(p)])]
      BY <1>7 DEF StartWorker, StartFails, HalfStarted, Gate, Collect, Leave
    <2> QED BY <1>5, <2>1, <2>2, <2>3, <2>4
  <1>8. CASE Interrupt(p) \/ Kill(p)
    <2>1. Here(p) \in Run
      BY <1>4, <1>8 DEF Interrupt, Kill, Inside, Outside
    <2>2. UNCHANGED report /\ \E kept \in BOOLEAN : Loosened(p, kept)
      BY <1>8 DEF Interrupt, Kill, At
    <2>3. \E x : \/ store' = [store EXCEPT ![Here(p)].private = x]
                 \/ store' = [store EXCEPT ![Here(p)].torn = x]
      BY <2>2 DEF Loosened, HalfStarted
    <2>4. \/ UNCHANGED worker
          \/ \E x, y : \/ worker' = [worker EXCEPT ![Here(p)].loose = x]
                       \/ worker' = [worker EXCEPT ![Here(p)].state = x, ![Here(p)].loose = y]
      BY <2>2 DEF Loosened, HalfStarted
    <2> QED BY <1>5, <2>1, <2>2, <2>3, <2>4
  <1> QED BY <1>2, <1>3, <1>6, <1>7, <1>8

\* What is typed is the next message, when the one before it is settled.
LEMMA SendMaps ==
    ASSUME IInv, NEW p \in Coord, Send(p) \/ SendFails(p)
    PROVE  [Promise!Next]_(Promise!dvars)
  <1> DEFINE h == Here(p)
             s == store[Here(p)]
             n == Count(s.log, Settling)
  <1>1. coord[p].pc = "send" /\ UNCHANGED <<store, report>>
    BY DEF Send, SendFails, At
  <1>2. InRun(coord[p]) /\ coord[p].pc \notin Outside
    BY <1>1 DEF InRun, Inside, Outside
  <1>3. h \in Run /\ CoordOK(p) /\ worker \in [Run -> WorkerRecord] /\ worker[h] \in WorkerRecord
    BY <1>2, RunTyped, Typed DEF IInv, Types
  <1>4. Finished(s.log) = 0 /\ Len(worker[h].got) = n /\ n < NumEvents
    BY <1>1, <1>2, <1>3 DEF CoordOK, Known, Pending, Place, Working
  <1>5. NextMsg(Log(p)) = n + 1
    BY <1>2, MessageAtHand
  <1>6. CASE worker' = [worker EXCEPT ![h].got = Append(worker[h].got, n + 1)]
    <2>1. \A q \in Run : worker'[q].got = IF q = h THEN Append(worker[h].got, n + 1) ELSE worker[q].got
      BY <1>3, <1>6 DEF WorkerRecord
    <2>2. [q \in Run |-> worker'[q].got]
            = [[q \in Run |-> worker[q].got] EXCEPT ![h] = Append(@, n + 1)]
      BY <1>3, <2>1
    <2>3. [q \in Run |-> Count(store[q].log, Settling)][h] = n /\ [q \in Run |-> worker[q].got][h] = worker[h].got
      BY <1>3
    <2>4. h \notin {q \in Run : Finished(store[q].log) > 0}
      BY <1>4
    <2> HIDE DEF h, n
    <2>5. PICK r \in Run : r = h
      BY <1>3
    <2>6. Promise!Deliver(r)
      BY <1>1, <1>4, <2>2, <2>3, <2>4, <2>5 DEF Promise!Deliver
    <2>7. Promise!Next
      BY <2>6 DEF Promise!Next
    <2> QED BY <2>7
  <1>7. CASE UNCHANGED worker
    <2>1. Still
      BY <1>1, <1>7 DEF Still
    <2> QED BY <2>1, StillMaps
  <1>8. worker' = [worker EXCEPT ![h].got = Append(worker[h].got, n + 1)] \/ UNCHANGED worker
    BY <1>5 DEF Send, SendFails
  <1> QED BY <1>6, <1>7, <1>8

\* Every step between two events of a log that are about the messages or the
\* end shows nothing; the events that settle a message and that end a run are
\* the steps of the promise.
LEMMA AppendMaps ==
    ASSUME IInv, NEW p \in Coord, AppendEvent(p)
    PROVE  [Promise!Next]_(Promise!dvars)
  <1>1. coord[p].pc = "append" /\ UNCHANGED <<worker, report>>
    BY DEF AppendEvent, At
  <1>2. InRun(coord[p]) /\ coord[p].pc \notin Outside
    BY <1>1 DEF InRun, Inside, Outside
  <1>3. PICK r \in Run : r = Here(p)
    BY <1>2, RunTyped
  <1>4. /\ CoordOK(p) /\ CoordShape(coord[p]) /\ coord[p] \in CoordRecord
        /\ store \in [Run -> StoreRecord] /\ worker \in [Run -> WorkerRecord]
        /\ store[r].log \in Seq(Event) /\ RunOK(r)
    BY <1>2, <1>3, RunTyped, Typed DEF IInv, Types
  <1>5. PICK e : e = coord[p].ev
    OBVIOUS
  <1>6. <<e.type, coord[p].then>> \in Appends /\ e \in Event
    <2>1. <<e.type, coord[p].then>> \in Appends
      BY <1>1, <1>4, <1>5 DEF CoordShape
    <2>2. Ev("none").type = "none"
      BY DEF Ev
    <2>3. e.type # "none"
      BY <2>1 DEF Appends, Notes
    <2> QED BY <1>4, <1>5, <2>1, <2>2, <2>3 DEF CoordRecord
  <1>7. /\ store'[r].log = Append(store[r].log, e)
        /\ \A q \in Run \ {r} : store'[q].log = store[q].log
    BY <1>3, <1>4, <1>5 DEF AppendEvent, StoreRecord
  <1>8. [q \in Run |-> worker'[q].got] = [q \in Run |-> worker[q].got]
    BY <1>1
  <1>9. PICK n : n = Count(store[r].log, Settling) /\ n \in Nat
    BY <1>4, CountFinite
  <1>10. /\ Count(store'[r].log, Settling) = IF e.type \in Settling THEN n + 1 ELSE n
         /\ Finished(store'[r].log) = IF e.type = "run_finished" THEN Finished(store[r].log) + 1
                                      ELSE Finished(store[r].log)
         /\ Finished(store[r].log) \in Nat
    <2>1. Count(store'[r].log, Settling) = IF e.type \in Settling THEN n + 1 ELSE n
      BY <1>4, <1>6, <1>7, <1>9, CountAppend
    <2>2. Finished(store'[r].log) = IF e.type \in {"run_finished"} THEN Finished(store[r].log) + 1
                                    ELSE Finished(store[r].log)
      BY <1>4, <1>6, <1>7, CountAppend DEF Finished
    <2>3. Finished(store[r].log) \in Nat
      BY <1>4, CountFinite DEF Finished
    <2> QED BY <2>1, <2>2, <2>3
  <1>11. CASE e.type \in Settling
    <2>1. Place(coord[p]) = "deadline" /\ e.type # "run_finished"
      BY <1>1, <1>6, <1>11, PlacesOfAppends DEF Place, Settling
    <2>2. Finished(store[r].log) = 0
      BY <1>2, <1>3, <1>4, <2>1 DEF CoordOK, Known, Working
    <2>3. Len(worker[r].got) = n + 1
      BY <1>1, <1>2, <1>3, <1>4, <1>5, <1>9, <1>11 DEF CoordOK, Pending, RunOK, Truthful
    <2>4. [q \in Run |-> Count(store'[q].log, Settling)]
            = [[q \in Run |-> Count(store[q].log, Settling)] EXCEPT ![r] = @ + 1]
      BY <1>7, <1>9, <1>10, <1>11
    <2>5. {q \in Run : Finished(store'[q].log) > 0} = {q \in Run : Finished(store[q].log) > 0}
      BY <1>7, <1>10, <2>1
    <2>6. r \notin {q \in Run : Finished(store[q].log) > 0}
      BY <2>2
    <2>7. [q \in Run |-> Count(store[q].log, Settling)][r] < Len([q \in Run |-> worker[q].got][r])
      BY <1>9, <2>3
    <2>8. Promise!Settle(r)
      BY <1>1, <1>8, <2>4, <2>5, <2>6, <2>7 DEF Promise!Settle
    <2>9. Promise!Next
      BY <2>8 DEF Promise!Next
    <2> QED BY <2>9
  <1>12. CASE e.type = "run_finished"
    <2>1. Finished(store[r].log) = 0
      BY <1>1, <1>2, <1>3, <1>4, <1>5, <1>12 DEF CoordOK, Pending
    <2>2. [q \in Run |-> Count(store'[q].log, Settling)] = [q \in Run |-> Count(store[q].log, Settling)]
      BY <1>7, <1>9, <1>10, <1>12 DEF Settling
    <2>3. {q \in Run : Finished(store'[q].log) > 0} = {q \in Run : Finished(store[q].log) > 0} \cup {r}
      <3>1. Finished(store'[r].log) > 0
        BY <1>10, <1>12, <2>1
      <3>2. \A q \in Run \ {r} : Finished(store'[q].log) = Finished(store[q].log)
        BY <1>7
      <3> QED BY <3>1, <3>2
    <2>4. r \notin {q \in Run : Finished(store[q].log) > 0}
      BY <2>1
    <2>5. Promise!Close(r)
      BY <1>1, <1>8, <2>2, <2>3, <2>4 DEF Promise!Close
    <2>6. Promise!Next
      BY <2>5 DEF Promise!Next
    <2> QED BY <2>6
  <1>13. CASE e.type \notin Settling \cup {"run_finished"}
    <2>1. [q \in Run |-> Count(store'[q].log, Settling)] = [q \in Run |-> Count(store[q].log, Settling)]
      BY <1>7, <1>9, <1>10, <1>13
    <2>2. {q \in Run : Finished(store'[q].log) > 0} = {q \in Run : Finished(store[q].log) > 0}
      BY <1>7, <1>10, <1>13
    <2> QED BY <1>1, <1>8, <2>1, <2>2 DEF Promise!dvars
  <1> QED BY <1>11, <1>12, <1>13

LEMMA ReportMaps ==
    ASSUME IInv, NEW p \in Coord, WriteReport(p)
    PROVE  [Promise!Next]_(Promise!dvars)
  <1>1. UNCHANGED <<store, worker>> /\ report' = (report \/ \A r \in Run : Reportable(r))
    BY DEF WriteReport
  <1>2. report \in BOOLEAN
    BY Typed DEF IInv, Types
  <1>3. CASE report' = report
    BY <1>1, <1>3, StillMaps DEF Still
  <1>4. CASE report' # report
    <2>1. report' = TRUE /\ \A r \in Run : Finished(store[r].log) = 1
      BY <1>1, <1>2, <1>4 DEF Reportable
    <2>2. {r \in Run : Finished(store[r].log) > 0} = Run
      BY <2>1
    <2>3. Promise!Report
      BY <1>1, <2>1, <2>2 DEF Promise!Report
    <2>4. Promise!Next
      BY <2>3 DEF Promise!Next
    <2> QED BY <2>4
  <1> QED BY <1>3, <1>4

LEMMA NextMaps == IInv /\ [Next]_vars => [Promise!Next]_(Promise!dvars)
  <1> SUFFICES ASSUME IInv, [Next]_vars PROVE [Promise!Next]_(Promise!dvars)
    OBVIOUS
  <1>1. ASSUME Still PROVE [Promise!Next]_(Promise!dvars)
    BY <1>1, StillMaps
  <1>2. ASSUME NEW p \in Coord, Execute(p) \/ Step(p) \/ Fail(p) \/ StartFails(p) \/ Interrupt(p) \/ Kill(p)
        PROVE  [Promise!Next]_(Promise!dvars)
    <2>1. CASE AppendEvent(p)
      BY <2>1, AppendMaps
    <2>2. CASE Send(p) \/ SendFails(p)
      BY <2>2, SendMaps
    <2>3. CASE WriteReport(p)
      BY <2>3, ReportMaps
    <2>4. CASE ~(AppendEvent(p) \/ Send(p) \/ SendFails(p) \/ WriteReport(p))
      BY <1>1, <1>2, <2>4, StillSteps DEF Step
    <2> QED BY <2>1, <2>2, <2>3, <2>4
  <1>3. ASSUME NEW r \in Run, Prints(r) \/ EndWorker(r) PROVE [Promise!Next]_(Promise!dvars)
    <2>1. worker \in [Run -> WorkerRecord] /\ worker[r] \in WorkerRecord /\ UNCHANGED <<store, report>>
      BY <1>3, Typed DEF IInv, Types, Prints, EndWorker
    <2>2. \E x : worker' = [worker EXCEPT ![r].out = x] \/ worker' = [worker EXCEPT ![r].state = x]
      BY <1>3 DEF Prints, EndWorker
    <2>3. \A q \in Run : worker'[q].got = worker[q].got
      <3>1. ASSUME NEW x, worker' = [worker EXCEPT ![r].out = x]
            PROVE  \A q \in Run : worker'[q].got = worker[q].got
        BY <2>1, <3>1 DEF WorkerRecord
      <3>2. ASSUME NEW x, worker' = [worker EXCEPT ![r].state = x]
            PROVE  \A q \in Run : worker'[q].got = worker[q].got
        BY <2>1, <3>2 DEF WorkerRecord
      <3> QED BY <2>2, <3>1, <3>2
    <2> QED BY <1>1, <2>1, <2>3 DEF Still
  <1>4. CASE UNCHANGED vars
    BY <1>1, <1>4 DEF Still, vars
  <1> QED BY <1>2, <1>3, <1>4 DEF Next

LEMMA InitMaps == Init => Promise!Init
  <1> SUFFICES ASSUME Init PROVE Promise!Init
    OBVIOUS
  <1>1. \A r \in Run : store[r].log = <<>> /\ worker[r].got = <<>>
    BY DEF Init, NoStore, NoWorker
  <1>2. \A T : Count(<<>>, T) = 0
    BY CountEmpty
  <1>3. [r \in Run |-> worker[r].got] = [r \in Run |-> <<>>]
    BY <1>1
  <1>4. [r \in Run |-> Count(store[r].log, Settling)] = [r \in Run |-> 0]
    BY <1>1, <1>2
  <1>5. {r \in Run : Finished(store[r].log) > 0} = {}
    BY <1>1, <1>2 DEF Finished
  <1>6. report = FALSE
    BY DEF Init
  <1> QED BY <1>3, <1>4, <1>5, <1>6 DEF Promise!Init

\* However executions are killed, interrupted, rerun or overlap, a worker is
\* typed the messages of the script in order and each at most once, the next
\* when the one before is settled and none after the end of its run; a
\* campaign is reported when all its runs have ended.
THEOREM Refinement == Spec => AtMostOnce
  BY InitMaps, NextMaps, Invariance, PTL DEF Spec, AtMostOnce, Promise!Spec
=============================================================================
