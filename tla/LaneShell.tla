----------------------------- MODULE LaneShell -----------------------------
(***************************************************************************)
(* The tmux bodies of lanes, as the session code sees them through         *)
(* tmux_agent.py: a shell that runs one foreground job at a time and reads *)
(* typed lines when it is back in the foreground.                          *)
(*                                                                         *)
(*   body[b]     "none", "up", "closed" by a command, or "dead" on its own *)
(*               (the code sees both as the same terminal state)           *)
(*   fore[b]     the job holding the terminal's foreground                 *)
(*   typed[b]    launcher lines typed but not read yet, by generation      *)
(*   script[b]   generations whose launcher file exists                    *)
(*   akey[b][g]  the native conversation of the agent started as g         *)
(*   userJobs    jobs people started by hand, at most MaxUserJobs          *)
(*                                                                         *)
(* The shell, the agents and people are not under src/: these actions are  *)
(* the environment the code is written against.                            *)
(***************************************************************************)
EXTENDS LaneStore

CONSTANT MaxUserJobs

ASSUME UserAssumption == MaxUserJobs \in Nat

VARIABLES body, fore, typed, script, akey, userJobs

shellVars == <<body, fore, typed, script, akey, userJobs>>

ShellTypeOK ==
    /\ body \in [Body -> {"none", "up", "closed", "dead"}]
    /\ fore \in [Body -> Job]
    /\ typed \in [Body -> SUBSET Gen]
    /\ script \in [Body -> SUBSET Gen]
    /\ akey \in [Body -> [Gen -> Key \cup {NoKey}]]
    /\ userJobs \in 0 .. MaxUserJobs

ShellInit ==
    /\ body = [b \in Body |-> "none"]
    /\ fore = [b \in Body |-> ShellJob]
    /\ typed = [b \in Body |-> {}]
    /\ script = [b \in Body |-> {}]
    /\ akey = [b \in Body |-> [g \in Gen |-> NoKey]]
    /\ userJobs = 0

AgentUp(b, g) == body[b] = "up" /\ fore[b] = g /\ g \in Gen

\* A conversation no record and no agent has used.
Fresh(k) == record[k].state = "none" /\ \A b \in Body, g \in Gen : akey[b][g] # k

\* start_run
BootBody(b) ==
    /\ body' = [body EXCEPT ![b] = "up"]
    /\ UNCHANGED <<fore, typed, script, akey, userJobs>>

Ended(b) == body[b] \in {"closed", "dead"}

\* stop_run, or the death of the body: everything in it ends.
EndBody(b, how) ==
    /\ body' = [body EXCEPT ![b] = IF @ = "up" THEN how ELSE @]
    /\ fore' = [fore EXCEPT ![b] = ShellJob]
    /\ typed' = [typed EXCEPT ![b] = {}]
    /\ UNCHANGED <<script, akey, userJobs>>

\* The foreground job ends and the shell gets the terminal back.
EndJob(b) ==
    /\ fore' = [fore EXCEPT ![b] = ShellJob]
    /\ UNCHANGED <<body, typed, script, akey, userJobs>>

WriteScript(b, g) ==
    /\ script' = [script EXCEPT ![b] = @ \cup {g}]
    /\ UNCHANGED <<body, fore, typed, akey, userJobs>>

UnlinkScript(b, g) ==
    /\ script' = [script EXCEPT ![b] = @ \ {g}]
    /\ UNCHANGED <<body, fore, typed, akey, userJobs>>

\* send_shell_command, the paste.
TypeLine(b, g) ==
    /\ typed' = [typed EXCEPT ![b] = @ \cup {g}]
    /\ UNCHANGED <<body, fore, script, akey, userJobs>>

----------------------------------------------------------------------------
(* Environment *)

\* The shell runs the launcher, which unlinks itself and becomes the agent.
\* A resume normally opens the conversation it was given; a provider may
\* open a new one instead.
RunLauncher(b, g) ==
    /\ body[b] = "up" /\ fore[b] = ShellJob
    /\ g \in typed[b] /\ g \in script[b]
    /\ typed' = [typed EXCEPT ![b] = @ \ {g}]
    /\ script' = [script EXCEPT ![b] = @ \ {g}]
    /\ fore' = [fore EXCEPT ![b] = g]
    /\ \E k \in Key :
         /\ ProviderOf[k] = plan[b][g].prov
         /\ k = plan[b][g].want \/ Fresh(k)
         /\ akey' = [akey EXCEPT ![b][g] = k]
    /\ UNCHANGED <<body, userJobs>>

\* A launcher that is gone fails at once; a line typed as another job takes
\* the terminal goes to that job.
LoseLine(b, g) ==
    /\ body[b] = "up" /\ g \in typed[b]
    /\ g \notin script[b] \/ fore[b] # ShellJob
    /\ typed' = [typed EXCEPT ![b] = @ \ {g}]
    /\ UNCHANGED <<body, fore, script, akey, userJobs>>

JobExits(b) == body[b] = "up" /\ fore[b] # ShellJob /\ EndJob(b)

UserStartsJob(b) ==
    /\ body[b] = "up" /\ fore[b] = ShellJob
    /\ userJobs < MaxUserJobs
    /\ userJobs' = userJobs + 1
    /\ fore' = [fore EXCEPT ![b] = UserJob]
    /\ UNCHANGED <<body, typed, script, akey>>

BodyDies(b) == body[b] = "up" /\ EndBody(b, "dead")
============================================================================
