------------------------------ MODULE JudgeRuns ------------------------------
(***************************************************************************)
(* Headless agents that judge a task or answer in a sidebar: panel-review, *)
(* which asks several judges at once and writes judge.md, plan-review and  *)
(* impl-review, which ask one and write its log (tasks/cli.py), and the    *)
(* stream of a subagent (provider/subagent.py).  Every agent is started    *)
(* through provider/sandbox.py.  A behaviour uses one of the three.        *)
(*                                                                         *)
(*   seats    the judges whose program was found                           *)
(*   seat[j]  where the thread of judge j is, what it tells, and what its  *)
(*            agent did                                                    *)
(*   said     what the panel has collected, by label                       *)
(*   panel    where panel-review is                                        *)
(*   paper    judge.md: its blocks by label, and the labels marked failed  *)
(*   review   one review command, run up to two times                      *)
(*   revlog   the run whose text its log holds                             *)
(*   stream   a reader of a stream, its watchdog, the started process (the *)
(*            agent, or bwrap around it) and whoever holds the output open *)
(*            (that process and all it started)                            *)
(***************************************************************************)
EXTENDS Naturals

CONSTANTS Judge, LabelOf

Label == {LabelOf[j] : j \in Judge}

VARIABLES use, seats, seat, said, panel, paper, review, revlog, stream

panelVars == <<seats, seat, said, panel, paper>>
judgeVars == <<use, panelVars, review, revlog, stream>>

Silent == {"FAILED", "timed out", "error", "no output"}
Blocks == [Label -> Silent \cup {"none", "review"}]
Papers == {[at |-> a] : a \in {"none", "earlier", "cut"}}
            \cup [at : {"whole"}, says : Blocks, failed : SUBSET Label]

Logs == {"none", "empty", "earlier", "first", "second"}

JudgeTypeOK ==
    /\ use \in {"panel", "review", "stream"}
    /\ seats \subseteq Judge
    /\ seat \in [Judge -> [at : {"free", "running", "answered", "collected"},
                           tells : Silent \cup {"none", "review"},
                           did : {"none", "text", "silent", "killed", "absent"}]]
    /\ said \in Blocks /\ paper \in Papers
    /\ panel \in {"idle", "refused", "judging", "writing", "done", "killed"}
    /\ revlog \in Logs
    /\ review \in [at : {"idle", "running", "ended", "told"}, run : {"none", "first", "second"},
                   codex : BOOLEAN, out : BOOLEAN, ok : BOOLEAN, was : Logs,
                   told : {"none", "saved", "kept", "nothing"}]
    /\ stream \in [at : {"idle", "feeding", "reading", "waiting", "ended", "raised"},
                   fed : BOOLEAN, quit : BOOLEAN,
                   dog : {"off", "set", "fired", "cancelled"},
                   process : {"none", "alive", "gone"}, holder : {"none", "alive", "gone"}]

JudgeInit ==
    /\ use \in {"panel", "review", "stream"}
    /\ seats = {} /\ panel = "idle"
    /\ seat = [j \in Judge |-> [at |-> "free", tells |-> "none", did |-> "none"]]
    /\ said = [l \in Label |-> "none"]
    /\ paper \in {[at |-> "none"], [at |-> "earlier"]} /\ revlog = paper.at
    /\ \E codex, fed \in BOOLEAN :
         /\ codex => use = "review"
         /\ fed => use = "stream" /\ revlog = "none"
         /\ review = [at |-> "idle", run |-> "none", codex |-> codex, out |-> FALSE, ok |-> TRUE,
                      was |-> revlog, told |-> "none"]
         /\ stream = [at |-> "idle", fed |-> fed, dog |-> "off",
                      process |-> "none", holder |-> "none", quit |-> FALSE]

---------------------------------------------------------------------------
(* panel-review                                                            *)

\* Judges whose program is missing are skipped; without any, or with a spec
\* nobody knows, there is no panel.
SeatJudges ==
    /\ use = "panel" /\ panel = "idle" /\ seats' \in SUBSET Judge
    /\ panel' \in {"refused", "judging"} /\ (panel' = "judging" => seats' # {})
    /\ UNCHANGED <<use, seat, said, paper, review, revlog, stream>>

\* run_headless_judge
StartJudge(j) ==
    /\ panel = "judging" /\ j \in seats /\ seat[j].at = "free"
    /\ seat' = [seat EXCEPT ![j].at = "running"]
    /\ UNCHANGED <<use, seats, said, panel, paper, review, revlog, stream>>

Answered(j, tells, did) ==
    seat' = [seat EXCEPT ![j] = [at |-> "answered", tells |-> tells, did |-> did]]

\* The program went away after the seats were given.
ProgramMissing(j) ==
    /\ panel = "judging" /\ j \in seats /\ seat[j].at = "free"
    /\ Answered(j, "error", "absent")
    /\ UNCHANGED <<use, seats, said, panel, paper, review, revlog, stream>>

\* format_judge_output: text counts, whatever the exit status.
Rendered(text, ok) == IF text THEN "review" ELSE IF ok THEN "no output" ELSE "FAILED"

AnswerJudge(j) ==
    /\ panel = "judging" /\ seat[j].at = "running"
    /\ \E text, ok \in BOOLEAN : Answered(j, Rendered(text, ok), IF text THEN "text" ELSE "silent")
    /\ UNCHANGED <<use, seats, said, panel, paper, review, revlog, stream>>

\* subprocess.run kills the process it started, and that one only.
JudgeTimesOut(j) ==
    /\ panel = "judging" /\ seat[j].at = "running"
    /\ Answered(j, "timed out", "killed")
    /\ UNCHANGED <<use, seats, said, panel, paper, review, revlog, stream>>

\* In the order the judges end; two specs of one label share its block.
Collect(j) ==
    /\ panel = "judging" /\ seat[j].at = "answered"
    /\ seat' = [seat EXCEPT ![j].at = "collected"]
    /\ said' = [said EXCEPT ![LabelOf[j]] = seat[j].tells]
    /\ UNCHANGED <<use, seats, panel, paper, review, revlog, stream>>

\* Fault: only an exit status or an error counts as a failure.
JudgeFailedByExit(tells) == tells \in {"FAILED", "error"}

JudgeFailed(tells) == tells \in Silent

\* write_text opens the file empty before it writes.
OpenPaper ==
    /\ panel = "judging" /\ \A j \in seats : seat[j].at = "collected"
    /\ panel' = "writing" /\ paper' = [at |-> "cut"]
    /\ UNCHANGED <<use, seats, seat, said, review, revlog, stream>>

WritePaper ==
    /\ panel = "writing" /\ panel' = "done"
    /\ paper' = [at |-> "whole", says |-> said, failed |-> {l \in Label : JudgeFailed(said[l])}]
    /\ UNCHANGED <<use, seats, seat, said, review, revlog, stream>>

PanelKilled ==
    /\ panel \in {"judging", "writing"} /\ panel' = "killed"
    /\ UNCHANGED <<use, seats, seat, said, paper, review, revlog, stream>>

---------------------------------------------------------------------------
(* plan-review and impl-review                                             *)

StartReview ==
    /\ use = "review" /\ review.at \in {"idle", "told"} /\ review.run # "second"
    /\ review' = [review EXCEPT !.at = "running", !.was = revlog, !.told = "none",
                                !.run = IF @ = "none" THEN "first" ELSE "second"]
    /\ UNCHANGED <<use, panelVars, revlog, stream>>

\* Codex writes its last message to the log itself, if it ends well.
ReviewerEnds ==
    /\ review.at = "running"
    /\ \E text, ok \in BOOLEAN :
         /\ review' = [review EXCEPT !.at = "ended", !.out = text, !.ok = ok]
         /\ revlog' = IF ~review.codex \/ ~ok THEN revlog
                      ELSE IF text THEN review.run ELSE "empty"
    /\ UNCHANGED <<use, panelVars, stream>>

\* What the review said: for Codex what its log holds, if it has one.
ReviewText ==
    IF review.codex /\ revlog # "none" THEN revlog
    ELSE IF review.out THEN review.run ELSE "empty"

SaveReview ==
    /\ review.at = "ended"
    /\ IF ~review.ok /\ ReviewText = "empty"
         THEN /\ review' = [review EXCEPT !.at = "told",
                                          !.told = IF revlog = "none" THEN "nothing" ELSE "kept"]
              /\ UNCHANGED revlog
         ELSE /\ review' = [review EXCEPT !.at = "told", !.told = "saved"]
              /\ revlog' = ReviewText
    /\ UNCHANGED <<use, panelVars, stream>>

---------------------------------------------------------------------------
(* stream_subagent                                                         *)

Streams(from, to) == stream.at = from /\ stream' = [to EXCEPT !.process = "alive", !.holder = "alive"]

\* The prompt is written before there is a watchdog, if it goes by stdin.
OpenStream ==
    /\ use = "stream"
    /\ Streams("idle", IF stream.fed THEN [stream EXCEPT !.at = "feeding"]
                       ELSE [stream EXCEPT !.at = "reading", !.dog = "set"])
    /\ UNCHANGED <<use, panelVars, review, revlog>>

\* Somebody can take the prompt, or the write fails, outside the try.
FeedPrompt ==
    /\ stream.at = "feeding"
    /\ stream' = IF stream.holder = "alive" THEN [stream EXCEPT !.at = "reading", !.dog = "set"]
                 ELSE [stream EXCEPT !.at = "raised"]
    /\ UNCHANGED <<use, panelVars, review, revlog>>

\* Killing the started process ends that one only: what it has started (the
\* agent, where bwrap is killed; the agent's own children, where it is not
\* boxed) may go on and hold the output open.
Survives == {stream.holder, "gone"}

\* proc.kill; of a process that is gone already it does nothing.
WatchdogKills ==
    /\ stream.at = "reading" /\ stream.dog = "set"
    /\ \E h \in IF stream.process = "alive" THEN Survives ELSE {stream.holder} :
         stream' = [stream EXCEPT !.dog = "fired", !.process = "gone", !.holder = h]
    /\ UNCHANGED <<use, panelVars, review, revlog>>

AgentFinishes ==
    /\ stream.process = "alive"
    /\ \E h \in Survives : stream' = [stream EXCEPT !.process = "gone", !.holder = h]
    /\ UNCHANGED <<use, panelVars, review, revlog>>

LeftoversEnd ==
    /\ stream.process = "gone" /\ stream.holder = "alive"
    /\ stream' = [stream EXCEPT !.holder = "gone"]
    /\ UNCHANGED <<use, panelVars, review, revlog>>

ToWaiting(quits) ==
    stream' = [stream EXCEPT !.at = "waiting", !.quit = quits,
                             !.dog = IF @ = "set" THEN "cancelled" ELSE @]

\* The output ends when nobody holds it open any more.
EndOfOutput ==
    /\ stream.at = "reading" /\ stream.holder = "gone"
    /\ ToWaiting(FALSE)
    /\ UNCHANGED <<use, panelVars, review, revlog>>

\* Who reads the stream stops at a line: no watchdog is left for the wait.
ReaderQuits ==
    /\ stream.at = "reading"
    /\ ToWaiting(TRUE)
    /\ UNCHANGED <<use, panelVars, review, revlog>>

Waited ==
    /\ stream.at = "waiting" /\ stream.process = "gone"
    /\ stream' = [stream EXCEPT !.at = "ended"]
    /\ UNCHANGED <<use, panelVars, review, revlog>>

---------------------------------------------------------------------------

\* What needs no agent to go on.
JudgeSteps ==
    \/ \E j \in Judge : StartJudge(j) \/ JudgeTimesOut(j) \/ Collect(j)
    \/ OpenPaper \/ WritePaper \/ WatchdogKills \/ EndOfOutput \/ Waited

JudgeNext ==
    \/ JudgeSteps
    \/ \E j \in Judge : ProgramMissing(j) \/ AnswerJudge(j)
    \/ SeatJudges \/ PanelKilled
    \/ StartReview \/ ReviewerEnds \/ SaveReview
    \/ OpenStream \/ FeedPrompt \/ AgentFinishes \/ LeftoversEnd \/ ReaderQuits

\* Threads and timers run; agents need not.
JudgeFairness == WF_judgeVars(JudgeSteps)

JudgeSpec == JudgeInit /\ [][JudgeNext]_judgeVars /\ JudgeFairness

---------------------------------------------------------------------------

\* judge.md is written only when every judge has answered, has a block for
\* every label and for no other, each of them the answer of a judge of this
\* panel, and calls it failed exactly if that judge's agent said nothing.
PanelHonest ==
    /\ paper.at \in {"cut", "whole"} => \A j \in seats : seat[j].at = "collected"
    /\ panel = "done" =>
         \A l \in Label :
            IF \A j \in seats : LabelOf[j] # l THEN paper.says[l] = "none" /\ l \notin paper.failed
            ELSE \E j \in seats :
                   /\ LabelOf[j] = l /\ paper.says[l] = seat[j].tells
                   /\ l \in paper.failed <=> seat[j].did # "text"

\* A review that was saved is the one of this run (for Codex, if it ended
\* well), and a run that failed without a word leaves the earlier review.
ReviewKept ==
    review.at = "told" =>
        /\ review.told = "saved" /\ (~review.codex \/ review.ok) =>
              revlog = IF review.out THEN review.run ELSE "empty"
        /\ ~review.ok /\ ~review.out => revlog = review.was
        /\ review.told = "kept" => revlog = review.was /\ revlog # "none"

ReviewsHonest == PanelHonest /\ ReviewKept

\* A panel ends even if judges never answer, unless it is killed (panel-review);
\* and a stream that is read on ends, or its watchdog has fired and only what
\* the killed process had started holds the output open (stream_subagent).
JudgesEnd ==
    /\ panel = "judging" ~> panel \in {"done", "killed"}
    /\ stream.at = "reading" ~>
         \/ stream.at = "ended" \/ stream.quit
         \/ stream.dog = "fired" /\ stream.process = "gone" /\ stream.holder = "alive"
=============================================================================
