# Playbook harness: verification project

TLA+ models of the parts of the Playbook harness where several processes share durable state, or
where one of them may be killed half-way: the managed lanes of `pb-session` and the names of their
sessions, the task authority of `pb-tasks` with the edits of `task.md` the provider hooks admit,
the chat log, the renumbering before a merge, reviews by other agents, the installation `pb-tasks
init` makes in a project people work in, the runs of `pb-tmux-agent`, the reminder loops of Codex,
and the benchmark campaigns of the arena. TLC checks the models on small
instances, TLAPS proves the main safety properties for every instance, and four
disagreements between what the code does and what its comments, messages and docs say are kept as
runs that TLC must find violated.

    cd tla
    tlc -workers 2 -config lane_core.cfg MCLane      # one run
    tlapm TaskClaims_proofs.tla                      # the proofs of one module

`PROJECT.json` lists components, runs, mutants, the code each definition stands for, findings,
hazards and theorems.

## The system

Playbook runs coding agents (Claude Code, Codex, Antigravity, Pi, omp) on task documents. Nothing
runs as a server: every command, hook and worker is a short process, and they meet in files under
`.agent/` and in tmux.

| Component | Source | State it keeps | Operations | Correct when |
|---|---|---|---|---|
| Lane and capability store | `provider/session_state.py` | lane records (state, generation, provider, foreground, conversation), single-use launch tokens, `session.json` of each conversation | create, compare-and-swap transition, reserve, cancel, bind, rebind, stop, record foreground | a generation has one dispatcher; a token binds the agent it was made for; no conversation is resumed twice at once |
| Lane shells, provider runs | `tmux_agent.py` | a tmux body per lane, its shell, what it runs | start, type a line, look, stop a job, stop the body | only the lane's agent is stopped |
| Tmux agent runs | `tmux_agent.py` | a run directory (`meta.json`, `ready`, `result.json`, ...), a tmux session, a process group | start, run, stop, status, pane-died | a published result means the agent is gone; a finished run is not called lost; a stop comes to an end |
| Session commands | `session_cli.py` | none of their own | new, start, resume, swap, stop, destroy, status; settle and recovery of half-done dispatches; name, rename, adopt | a lane called idle has no agent; half-done dispatches settle; records follow reality; names are unique |
| Session restore | `tasks/resume.py`, `provider/session_identity.py` | none | rank conversations, pick one by name, resume it | a name brings back the session that holds it |
| Task documents | `tasks/task_document.py`, `tasks/core.py` | `task.md`: status, session history, gates; the folder's number | claim, transfer, complete, expand, replace text, create | one live owner; an owner changes only by a request naming the present one; history only grows (a late `Write` breaks both) |
| Navigation cache | `provider/session_state.py` | `current_state` per session | write, clear if it names the expected task | names only what its session claimed |
| Task commands | `tasks/cli.py` | none | work, work done, freehand, new; prepare-merge, tag, status, retro | work done closes what is finished; an interrupted command can be rerun; a merge is renumbered whole or not at all (the first holds for three digits: `merge_pointers`) |
| Reviews and subagents | `tasks/cli.py`, `provider/subagent.py`, `provider/sandbox.py` | `judge.md`, `judge-*.log` | panel-review, plan-review, impl-review, stream | what is saved is what a judge said; nobody waits forever |
| Gate edits | `tasks/gate_edit.py`, `provider/codex_hooks.py` | `pending-gate-edit.json` | judge a candidate `task.md`, record a closure | gates close one at a time, first first |
| Tool admission | `provider/policy.py`, `provider/adapter.py` | none | admit or block a tool call, a stop | task-control edits are made under the claim; the two hooks agree |
| Provider hooks, adapters | `provider/adapters/*`, `provider/claude_hooks.py`, `provider/codex_hooks.py` | none | turn provider events into the calls above | |
| Hook files | `tasks/reconcile.py`, `tasks/legacy_migration.py`, `provider/codex_hooks.py` | `.claude/settings.local.json`, `.codex/hooks.json`, `~/.codex/config.toml` | merge, migrate, install | Playbook's hook is there once, people's stay |
| Chat log | `tasks/chat_state.py` | `chat_log.md`, message counter | append keyed entries, renumber, tag | an event is logged once; numbers only rise |
| Installation | `tasks/reconcile.py`, `tasks/provider_contributions.py` | managed files of a project | plan, apply, roll back | all of a plan or none of it |
| Codex loop | `scripts/codex-loop.py` | one state and one stop file per loop | start, replace, stop, worker | starts never stop all loops of a thread; a loop stops with its window |
| Arena | `arena/src/playbook_arena` | event log, snapshot, lock and artifacts of a run; frozen plan and report of a campaign | execute, resume, send, collect, report | a message is sent at most once; a report has its evidence; no worker is left behind |
| Templates | `tasks/template.py` | none | render | |
| Reports | `tasks/narrative.py`, `tasks/retro.py`, `tasks/global_retro_collect.py`, ... | none | read-only | |
| Sandbox, installer, shell hooks | `provider/sandbox.py`, `install.sh`, `scripts/*` | none | compose commands, copy files, echo the gate | |

They interact by calls within one process (commands call store, document and tmux functions), and
between processes through the files above: a hook in the agent's process binds what a command
reserved, a command undoes what a killed one left, two sessions take turns on one task.

What is hard: the commands take the store's lock once per step and not once per command; a command
may be killed at any step and is repaired by the next one; a line typed into a shell may run late
or never; "60 seconds without progress" stands for "its controller is dead"; a hook may belong to
an earlier generation; claim and cache are two files under two locks; text is read before the lock
that guards its replacement; an edit is admitted before it is applied; a signal finds a runner at
any point of its set-up; a process number may be taken by another process; a coordinator dies
between keystrokes and their record.

## Modules

| Module | Models |
|---|---|
| `LaneStore` | the records of lanes, capabilities and conversations; one operator per critical section of the sessions lock |
| `LaneShell` | the outside world of a lane: its tmux body, shell, typed lines, agents, people, reboots |
| `LaneControl` | the commands over both, step by step, by concurrent controllers; the hooks; the properties |
| `MCLane`, `LaneControl_proofs` | small instances of `LaneControl`; theorems about it |
| `TaskOwnership` | abstract specification: owners and requests |
| `TaskClaims` | documents, folders, caches and the `pb-tasks` processes that relate them; the properties; the refinement mapping |
| `TaskHistory` | `TaskClaims` with two history variables: who was ever recorded in a task's `## Sessions`, and whether commands and edits came in turn so far |
| `MCTasks`, `MCHistory`, `TaskClaims_proofs` | small instances of `TaskClaims` and `TaskHistory`; theorems about them, refinement included |
| `InstallTransaction` | abstract specification: an installation is all or nothing |
| `Reconcile` | `pb-tasks init` step by step, with edits, faults and kills; the properties; the refinement mapping |
| `MCInstall`, `Reconcile_proofs` | small instances of `Reconcile`; theorems about it |
| `ScriptDelivery` | abstract specification: the messages of a script reach a worker in order, each at most once |
| `ArenaRun` | executions of a campaign with their logs, locks and workers; the properties; the refinement mapping |
| `MCArena`, `ArenaRun_proofs` | small instances of `ArenaRun`; theorems about it, refinement included |
| `TmuxRun` | one run of `pb-tmux-agent` |
| `CodexLoop` | the reminder loops of one Codex thread |
| `SessionNames`, `SessionNames_proofs` | names of sessions and lanes, and restores by name; theorems |
| `JudgeRuns` | reviews by headless judges, and the stream of a subagent |
| `ChatLog` | chat log and counter under hooks, prepare-merge and tag |
| `MergeTasks`, `MergeTasks_proofs` | the renumbering of tasks as a transaction; theorems |
| `GateEdits` | edits of `task.md` between the hooks |
| `HookFiles` | the hooks in a provider's file, under init, the adapter and people |
| `Texts_proofs` | theorems about `ChatLog`, `GateEdits` and `HookFiles` |
| `MCParts` | small instances of the eight modules from `TmuxRun` on, one at a time |
| `MCMerge` | a small instance of `MergeTasks` by itself, for a run that TLC must find violated |
| `Parts_proofs` | theorems about `TmuxRun`, `CodexLoop` and `JudgeRuns`, and about their composition in `MCParts` |

Each constant `MC*` gives is a set of model values or of small numbers; operators whose comment begins with "Fault:"
are not part of a specification: `PROJECT.json` "mutants" puts each in the place of the definition
after it, to see a property fail.

### Lanes

`lane`, `plan`, `launch` and `record` are the store. A capability is named by its lane and
generation rather than by a random token: a generation is taken by compare-and-swap and reserves
once. `body`, `fore`, `typed`, `script` and `akey` are a lane's tmux body, foreground job, the
launcher lines typed and not yet run, the generated scripts and the conversation of each agent.
`ctl[c]` is a controller: a program counter, the snapshot it last read and where to return to.

Every command begins with `settle_lane`, so `Command` covers start, swap, stop, destroy and status
of a lane and the commands part in `AfterSettle`, `SettleRecord` and `Killed`. A dispatch is
`Dispatch` (take the generation), `ReserveLaunch`, `Write` (the script), `Type`, `Await` (a job
appears, or not), `Publish`, or the three undo steps. Recovery of another's dispatch removes the
script first and looks afterwards: a script that is gone cannot run any more. `HookClaim` writes
capability, record and lane in that order and may be killed after each.

Abstracted: names (they are in `SessionNames`) and listing, chronology, captured text, the hand-off note of a swap, bodies of
older versions, parent keys. Hooks are assumed not to outlive the agent that runs them. The read
and the compare-and-swap that end a recovery are one step. A stop by native key settles twice and
stops like a stop by lane. A `resume` is of a conversation (`Resume`) or of a lane, which is settled
first and resumed in place (a disjunct of `AfterSettle`).

Time is two constants. `Stalls`: a controller may be suspended inside a dispatch for more than the
60 s after which others take over (`DISPATCH_ABANDONED_SECONDS`); when FALSE, only dead controllers
are taken over. `Expiry`: an agent may take longer than a capability's 600 s to bind; when FALSE
no capability in use expires.

### Tasks

`doc[t]` holds status, session history, number of open gates and whether it is a stub; `folder[t]`
the number and kind of its name; `cache[s]` the task number of `current_state`; `proc[p]` a
process. Each step of a process is one critical section (of the folder's lock or of the session's)
or one read that a later step relies on.

| Command | Steps |
|---|---|
| `work N` | `Work` (resolve, refuse if nothing is open), `Leave` (the cached task), `AutoClose`, `ReadStub`, `Expand`, `Claim`, `CacheTask`, `ReleaseOld` |
| `work done` | `WorkDone`, `Validate`, `CheckGates`, `Complete`, `ClearOwn` |
| `new` | `NewTask` (pick a number), `MakeFolder` |
| `freehand` | `FreehandTask`, `MakeFolder`, `ReadFreehand`, `FillFreehand`, then as `work`; or `FreehandBlock`, `SpliceBlock` |
| an agent's edit | `AdmitEdit` (the hook), `ApplyEdit` (the provider) |
| an agent's `Write` | `AdmitWrite` (the hook), `ApplyWrite` (the provider) |

Abstracted: a document's text, except what tells documents apart here; the chat lines attached to
a task; chronology; session names. An edit is of the first open gate or adds one (`GateEdits` has the
others) and is applied to the document there is by then, which may be a later one. A `Write` puts back the whole text its hook saw, status, history and gates,
whatever was done to the task since: no lock and no check is between. Edits by people are left out. The `mkdir` of a new folder and the write of
its document are one step. Two `new` commands use different slugs; two freehand tasks the same.

### Installation

`files[f]` is the text of a managed file, `litter` the files beside which a killed installer left a
complete temporary, `proc[p]` an installer with what it read, what it has staged and what it has
committed. A text says whether people wrote part of it and whose version the rest is: that is what
markers, hashes and merges distinguish. Files are of five kinds, one for each way the code treats
them: `managed` (a file of Playbook's own), `shared` (a block or entries inside a file of the
user's), `once` (written if absent), `migrate` and `retire` (what an old plugin left).

`Inspect`, `Plan`, `Preflight` and `Clean` each read all files in one step; the loops of
`_apply_group` go file by file: `Stage` (validate, keep, write beside), then `Check`, `Publish` and
`Commit` (validate again, rename, note); `Trouble` is any exception, `CheckBack`, `Restore` and
`RestoreFails` the rollback, last file first, `Unstage` the `finally` clause. `Edit` is people, at any time.

Abstracted: directories, file modes, links, the identity of the root, hook files (they are in `HookFiles`),
incomplete temporaries (no code removes them, no property is about them), how merges find their
entries. An abstract installation changes the files at the moment it ends; so `Visible` shows a file
renamed and not yet committed as what it held before. `touched` is a history variable of the refinement.
`litter` has the temporaries of dead installers only, those of living ones are in their `staged`: that `Swept`
removes no living installer's (`_pid_alive`) holds by that choice, for any number of installers.

Two constants open gaps the code leaves. `Windows`: an edit may fall between a check and its rename,
and is lost; no run opens it, since no program can close it with renames alone. `Interrupts`: Ctrl-C
may fall between a rename and its entry in the committed list, while the directory is synced.

### Arena

`store[r]` is the directory of a run: whether it and its lock file exist, the event log (`torn`: its
last line is half written), the snapshot, the artifacts, and the private directory beside it.
`flock[r]` is the advisory lock, `worker[r]` the agent in tmux (what was typed into it, what it
printed, `loose` if nobody had a chance to stop it) and `coord[p]` an execution of the campaign.

An append is two steps (`AppendEvent`, `WriteSnapshot`), and everything a coordinator knows of a
run it reads from the log: `Look`, `OpenReader` and `ReadRun` decide for each assignment whether
the run is made, resumed, skipped or reported. `MakeRun` to `RecordStart` set a run up; `Observe`,
then `Acknowledge`, `GiveUp`, `FailUnknown`, `Deliver` or `Complete`, `Send` and `GoOn` are the
control loop; `Collect`, `WriteEvidence` and `FinishRun` follow. `Fail`, `Interrupt` and `Kill` may
fall in any step: an error is recorded and cleaned up after, Ctrl-C skips the record, a kill does
neither. Lines printed before the text was typed and after the log was read are covered by `mark`.

Abstracted: hashes and the schema of artifacts (a recorded artifact is the one on disk), git and
variants (a step that works or fails), the content of judgments, the two levels of budgets (`TimeIsUp`).

### Tmux runs

The variables are listed at the head of `TmuxRun`. The start writes `meta.json`, creates the session,
sets its options and the pane-died hook and touches `configured`; the runner in the pane waits for
that, forks the agent into a group of its own, execs it, replaces its signal handlers, publishes
`running` and `ready`, and after the agent's end closes the group before it publishes the result.
A stop finds the runner by its recorded identity and sends SIGTERM; tmux sends SIGHUP when a session
is killed. `SignalRunner` is what either does to a runner that has, or has not yet, its handlers.
A result is published by hard link, so the first one stays whoever comes second: the runner, the
start that gives up, or the pane-died hook. A status command reads the result, the pane, the result
again, and the runner.

### Reminder loops, chat log, renumbering

`CodexLoop`: starts list the running loops and replace each before they write their own state file, under no lock;
a worker checks its stop file and its window in every round of its wait.

`ChatLog`: a hook reads the session's name before the lock; under it the entry is searched by its
key, appended and the counter written. prepare-merge renumbers under the same lock and puts the file
back when its counter cannot be written; tag reads under the lock, works, and writes only if the log is as it was.
Entries of the old format get numbers when the first entry is appended.

`MergeTasks`: the plan is made without locks; `LockAndRead` takes those of the documents, of the
sessions and of the chat log and reads everything the rollback needs; a command that holds them all
moves folders, rewrites documents, log and caches and drops offsets, one `StepFails` away from
`RollBack` after any of it. Editors know no locks (`EditChat`). Folders and headings write a number with
three digits (`007-slug`, `# 007 - ...`), texts mention it as `T7` or `T007` (`Padded`), and caches hold `7`. The
code searches for `7` and cuts as many characters off a folder's name as `7` has: `NewNumber` and
`Rewritten` say what that makes of a name of one, two and three digits.

### Edits of task.md

`GateEdits` takes one call of an agent at a time: `Admit` is the hook before it, on the document as
it is then; `ApplyEdit` the provider, on the document as it is by then (an `Edit` or patch replaces
pieces of text, a `Write` the whole); `AfterEdit` Codex's hook after it, which compares with the
document kept in `pending-gate-edit.json`. Between them the owner's command closes gates
(`CompleteNext`) and tasks are handed over. An edit is made of one or two pieces: a gate checked,
reopened, dropped or put in front, or a heading changed. Of the policy for other files the model has
what depends on claim and cache. `Replans` is what an edit may do to gates beside checking them in order: reopen one, put one
before others, or drop the first open one. A dropped first gate and a checked next one come as one edit, too,
and are admitted.

### Names

`SessionNames`: a record has a name and the lane it last ran in, a lane a name and the conversation
it last ran, a pending resume the name it reserved. A claim looks under the lock, strips the
stopped holders one by one, gives the name and renames the lane; it may be killed between any of
them. Which sessions run is known from the process table, which moves meanwhile. Everybody wants one
name; the suffixed ones are the other names.

### Hook files

`HookFiles` has one event of a hook file: a sequence of entries, each with a matcher and its hooks. `RunInit` is the keyed
merge or the migration, `InstallHooks` the adapter's installation with the switch in `config.toml`,
`EditHooks` a person. The text of commands is reduced to whose hook it is and whether its fields are
those of this version. A hook, entry or line that is taken out leaves a gap: the order of the others is
that of their places, which stay, so that "people's hooks stay where they are" is an equation of sets.

### Reviews and streams

`JudgeRuns`: a panel seats the judges whose programs it finds, runs each in a thread, collects by
label as they end, and writes `judge.md` (truncated, then written). A review command runs one agent
and saves its text; Codex writes the log itself. A stream feeds the prompt, sets a watchdog and reads
until nobody holds the output open. A kill ends the started process only: what it started (the agent, where
that process is `bwrap`; the agent's children, where it is not) may hold the output on (`Survives`, `LeftoversEnd`). A behaviour uses one of the three, which share nothing.

## Runs

| Run | Instance | Question |
|---|---|---|
| `lane_core` | 2 controllers, 1 lane, 2 conversations of 2 providers, 2 generations, no crash and no stall | idle lanes have no agent; what is bound, recorded and stopped as a generation's agent is its own; no two controllers own a generation; no lane goes back |
| `lane_resume` | 1 controller, 2 lanes, resumes, a crash, expiry, a person's job | one resume capability per conversation |
| `lane_live` | 1 controller, 1 lane, 2 generations, resumes, 1 crash, stalls, fairness | starting and running settle; a half-written bind is completed; recovery never calls a lane idle that will yet get an agent |
| `claims_core` | 2 sessions, 2 processes, room for 2 tasks, created, expanded, transferred, rewritten and closed, 1 crash | types, caches, provenance, refinement of `TaskOwnership`, a late `Write` being the one way back; in turn, a session is on one task and can finish it |
| `claims_live` | 2 sessions, a stub and room for a task, 1 process, `work` with transfers by force, freehand, edits, 1 crash, fairness | reruns complete claims and transfers |
| `install_core` | 1 installer, a file of each of 4 kinds in any state, 1 edit, 1 fault or kill, fairness | what people wrote is kept; refinement of `InstallTransaction`; reruns complete an installation and clean up |
| `arena_core` | 2 executions of a campaign of 1 run, a script of 2 messages, 1 failure, interrupt or kill at any step, fairness | refinement of `ScriptDelivery` (at most once, in order); reports have their evidence; no orphaned worker; executions end |
| `parts` | each of the eight modules from `TmuxRun` on, alone; instances below; fairness | the property of each: see the table below |

| Part of `parts` | Instance | Property |
|---|---|---|
| `tmux` | 1 run, 1 agent with a helper, 1 kill of start or runner or loss of tmux | `AnswersSound` (first half), `WaitsEnd` |
| `codex` | 2 starts, 1 loss | `ReminderSurvives`, `WaitsEnd` |
| `chat` | 1 message and 1 event, each run up to twice, prepare-merge, tag, rename, 1 kill | `EntriesOnceInOrder` |
| `merge` | 3 tasks that mention each other in a circle, 1 session, numbers 98 to 101, one mention with zeros, 3 target branches | `MergeSound` |
| `gates` | 2 gates and a new one, 2 edits of up to two pieces by 3 tools | `EditsInOrder` |
| `names` | 2 conversations, 1 lane, 2 names | `NamesHold` |
| `hooks` | 1 hook of a person's, 2 edits, both providers; config files of up to 4 lines | `HooksSettle` |
| `judges` | 3 judges of 2 labels; 2 reviews; 1 stream | `AnswersSound` (second half), `WaitsEnd` |

Runs that must be violated:

| Run | Instance | Property |
|---|---|---|
| `lane_exit_race` | 1 controller, 1 lane, a bind of its agent | `ExitKeepsConversation` |
| `claims_stranded` | 2 sessions, 1 crash | `NeverStranded` |
| `install_interrupted` | 1 installer, 3 files, an interrupt | `FailureRollsBack` |
| `merge_pointers` | 3 tasks, numbers 98 to 101 | `PointersFollow` |

Two controllers (or processes) are the least that race, two generations the least in which one is
late, two conversations, sessions and tasks the least that can be confused; three tasks the least
of which one moves to a number that another gives up. `MaxGen`, `MaxCrashes`,
`MaxUserJobs`, `MaxOpen`, `MaxClaims`, `MaxEdits`, `MaxFaults`, `MaxTroubles`, `MaxPrints`, `MaxLosses`, `MaxTries`,
`MaxKills`, `MaxTouches`, `MaxLines` and the number of task folders bound what would grow without
end; each appears in a guard, and otherwise only in a type. Crashes and stalls are varied between runs rather than
all granted at once. `claims_core` has no task at first, so that two processes can create tasks of
one number, which then no command resolves. Symmetry is used over controllers, lanes, processes, sessions
and, where none is there at first, tasks, in runs without liveness properties only. The safety
results for more are the theorems. The parts of `parts` share no variable and no step: a behaviour
chooses one, and the others rest in an initial state, so one run covers them all.

Four files let a rollback
meet both a file it can restore and one somebody changed; the fifth kind, `migrate`, is in
`install_interrupted`. The script of `arena_core` skips its first message when it is not answered
and fails at its second.

`claims_core` sets `CHECK_DEADLOCK FALSE`: the bounds, or two tasks of one number, which no command
may name any more, really end a behaviour there. So do `arena_core` and `parts`: a campaign that was
executed, a run that ended and commands that have answered have no further step.

### Fairness

`LaneControl`: a command that is under way takes its next step (weak fairness of `Continue`), each
lane is settled again and again (strong fairness of `Command`: status, board and every command
settle the lanes they touch), a conversation no agent runs is resumed again and again, and a hook that is started finishes a bind
it did not complete at a later event. `TaskClaims`: a command under way goes on, and a `work` command
that stays possible is run: it is the rerun the command's own message asks for. `Reconcile`: an
installer goes on, and somebody runs the command again when it ended. `ArenaRun`: a coordinator goes on,
its time-outs included, which are steps of its own. `TmuxRun`: the runner goes on; `CodexLoop`: each worker goes on, its
waits and sends are bounded; `JudgeRuns`: threads, their time-outs and the watchdog. Nothing is assumed
of agents, people, tmux or crashes; in particular no agent need ever end, print or answer.

### Findings

Four runs are expected to be violated; `PROJECT.json` "findings" quotes the lines they are about.

- `lane_exit_race`: a bind lost between settle's read of a lane and its compare-and-swap, against
  "Keep the last bound conversation" (`session_cli.py:1347`).
- `claims_stranded`: a finished task that a killed `work` reopened, and that its owner can neither
  work on nor finish, against "rerun the same command" (`cli.py:1576`).
- `merge_pointers`: a task of two digits ends under `1009-slug` with heading 99 and cache 100, against
  "all reverse pointers" (`cli.py:894`).
- `install_interrupted`: a file renamed when an interrupt comes is neither noted nor rolled back,
  against "Any caught failure rolls back every already-published operation" (`reconcile.py:1057`).

### What the code does not promise

The properties hold in the instances above, and some of them in no larger one. Met while modelling,
and not kept as runs:

Lanes and sessions

- `StopsOnlyItsAgent` needs that nobody else starts a job in a lane while its launcher is awaited:
  whatever is in the foreground is recorded as the agent (`session_cli.py:559`).
- `BoundByOwnAgent` needs that no controller is suspended for 60 s between taking a generation and
  reserving its capability: reserving does not look at the generation (`session_state.py:595`).
- `destroy` may close a lane in which another command has started an agent since it was settled
  (`session_cli.py:2280`), and a lane destroyed after a command died between the lane's exit and
  its record's leaves a record that is later called lost (`session_cli.py:1744`).
- A dispatch that types nothing leaves its lane without the conversation it last ran; a lane whose
  creation was killed stays provisional until `destroy` (`session_cli.py:352`, `:1417`).
- `resume` settles a record by its lane as it was read before the record: a bind in between is
  marked stopped (`session_cli.py:1731`).
- A claim of a name that is killed between stripping the stopped holders and giving the name leaves
  it with nobody. `rename` does not look at lanes. A name claimed in a plain terminal while a resume of
  it is pending makes the bind refuse. That no running session is stripped rests on a look at
  the process table: `NamesHold` promises it for sessions that ran all the while.
- Two restores at once may open one plain conversation twice: they look, and open later.
- `restore all` brings back a conversation whose agent had ended by itself before the reboot, if no
  command had settled its lane since (`session_cli.py:1431`), against `docs/RELEASE_NOTES.md:20`, "`restore
  all` brings back only lanes whose agent died with their tmux server".

Tasks, gates, chat log and merges

- An edit is admitted by what the hook reads, and applied later without the lock. A `Write` of the whole text that
  lands after a hand-off makes the former owner the owner again and takes the new one out of `## Sessions`, against
  "ordinary task edits cannot change ## Status or ## Sessions" (`gate_edit.py:145`, `policy.py:99`). `OwnershipKept` and
  `ProvenanceKept` name it as the one exception.
- `work done` counts the open gates before it takes the lock of the close (`cli.py:1347`), and the automatic close of `work`
  does as well (`cli.py:1419`): with an edit that adds a gate in between, admitted before a hand-off, a task is done
  with a gate open, against "finish the active task after all gates close" (`docs/command-reference.md:46`).
- `OwnersInTurn` needs commands that do not overlap: a task handed
  off and back while the first command has caches to write loses its owner's cache. The other commands that may
  fall between a claim and its cache are met by `claims_core` and `claims_live` only.
- A cache that still names a task another session took over and whose gates are all closed makes every
  later `work` of the first session fail in its automatic close, until the new owner finishes that task (`cli.py:1420`).
  `ClaimPublished` and `TransferFinished` are stated for sessions that are not held back so (`HeldBack`).
- `work done` of a task that was closed and whose cache was not cleared is refused (`cli.py:1372`
  asks for it); the next `work` replaces the cache.
- Two creations at once may take one number (`core.py:111`); both tasks are refused from then on.
- An edit that reopens one gate and checks a later one leaves the count as it is and is admitted
  (`gate_edit.py:158`): `ClosedInOrder` is promised while no edit reopens a gate, puts one before others or drops
  the first open one. One edit that drops the first open gate and checks the next is admitted as well: when one more
  gate is checked than before, the code only looks whether the place of the first open one is checked now
  (`gate_edit.py:169`), and looks for removed gates only when none is (`gate_edit.py:175`), against "only the authoritative first
  open gate advances" (`docs/RELEASE_NOTES.md:144`) and "an unrecorded skip" (`gate_edit.py:177`).
- New numbers begin behind the target's highest (`cli.py:813`), and the branch's own tasks are not looked at: with 100 on
  both sides and 101 on the branch, 100 moves to 101 and two tasks have one number, against "merges cleanly into
  target" (`template.py:738`). `MergeSound` promises only numbers away from the target's.
- Codex's stop hook keeps no session on a task with open gates once a prompt has reset the counters,
  which no Codex hook raises (`codex_hooks.py:917`, against the docstrings at 962 and 997).
- A patch of one's own `task.md` and of a runtime file in one call skips the check of the runtime
  path (`codex_hooks.py:598`).
- An event replayed after its session was renamed is refused (`chat_state.py:307`); an editor's change
  of the log between the check of a rewrite and its rename is lost.
- On a log without messages of its own prepare-merge moves nothing, and the next message may collide. A killed prepare-merge leaves a half-renumbered branch.
- A provider's transcript that is read while its last line is half written loses that line: the
  offset moves past it (`provider/adapters/claude.py:249`).

Installation and hook files

- Two installations at once are not locked against each other. One may find a file that the other
  has published, report everything installed, and see the other roll that file back (`reconcile.py:1231`):
  `AllOrNothing` is checked and proved for one installer. A rollback leaves the directories it created as long
  as they hold staged files, which are removed only afterwards (`reconcile.py:1251`).
- The migration of a `.codex/hooks.json` that already has a changed dispatcher entry appends a second
  one (`legacy_migration.py:236`), which every later init refuses as ambiguous (`reconcile.py:961`).
- The adapter's installation and init together leave both a direct and a dispatched hook. A hook of
  Playbook's under a matcher a person chose is not recognised and is added again; adopting the
  earlier matcher changes when people's hooks in that entry run. A Playbook entry to which a person
  added a hook is reported as the user's (`provider_contributions.py:128`).
- `enable_codex_hooks_feature` takes a `[[table]]` after `[features]` for a part of it, and the
  feature stays off (`codex_hooks.py:171`).

Tmux runs, loops, reviews and streams

- "so a completed run never transiently becomes lost" (`tmux_agent.py:761`) fails when the session
  is gone as well: the result is read before the runner is looked up, and may come in between.
  `LostMeansUnpublished` is about a pane that is there.
- Two `pb-codex loop` commands that overlap may leave two loops on one thread, against
  `docs/sessions-and-monitoring.md:156`, "Arming again on the same session replaces the earlier loop".
  A killed worker's state stays as it was, and it is listed as running.
- A Codex review that fails after an earlier one saves the earlier one's text again and says "Saved"
  (`cli.py:2342`); a run that fails with part of an answer replaces a whole one, and counts as a success in a panel.
- Judges of one label share a block: the last to end hides the other, and the summary counts both
  (`cli.py:2049`, `:2088`). `judge.md` is truncated before it is written; two panels on one task overwrite each other.
- A stream hangs if something its agent started, or the agent itself where `bwrap` is what was started, outlives the
  watchdog's kill and holds the output open, against "that closes stdout, so the iteration below ends naturally"
  (`subagent.py:190`); `WaitsEnd` promises the end only if that ends. It hangs also if its reader stops early and the agent does not end (the watchdog is cancelled, then
  waited for: `subagent.py:200`), or if the prompt is never taken (fed before there is a watchdog: `:187`).
  A judge that timed out may live on for the same reason, and a killed panel leaves its agents running.

Arena

- Ctrl-C in the control phase stops the worker and removes the private directory, so that a rerun
  cannot reconnect (`run.py:355`), against "If the coordinator is interrupted during the tmux control
  phase, rerunning the frozen campaign verifies its durable identity and reconnects" (`arena/README.md`). A kill between the append of
  an event and the snapshot makes every resume refuse (`store.py:139`).
- A message for `after_worker_exit` is given up before it is due, since a worker that ended is
  "before acknowledgment" for the one before it, and tmux refuses keys for one that ended (`tmux_agent.py:404`).
- What is printed between the look at the log and the keystrokes counts as output after the send (`controller.py:96`).
- A reader's shared lock may fail the lock of a reservation and leave a run directory nobody can use
  (`store.py:106`). A run whose end was logged and not snapshotted is refused by every report.
  `campaign-stop.json` is never removed. A worker is orphaned when a resume is refused, or
  when the start fails after tmux has set it up.
- An execution that read a run as unfinished reopens it although another has finished and reported it
  since, and appends `run_resumed` and `run_error` to its log (`campaign.py:203`, `run.py:382`): what
  `ReportHasEvidence` promises is one end, and that no error comes before it.

## Proofs

Every invariant and every property of steps or refinement that a passing run checks is also a theorem. The proofs
are for arbitrary sets of controllers, lanes, conversations, sessions, tasks, processes, files,
installers, executions, runs, messages, hooks, gates, loops, judges and labels, and arbitrary bounds; they rest on
the `ASSUME`s of the modules, which TLC evaluates in every run. Where a theorem has hypotheses of its own (`Calm`,
`orderly`, `~Windows`, `Alone`), they are the conditions under which the code keeps the promise, and the list above
says what happens without them.

`LaneControl_proofs`: type correctness, `OneDispatcher`, `OneResume` and `LanesOnlyAdvance`. The
inductive invariant `IInv` strengthens types with what ties a controller to its generation (a
controller between taking a generation and publishing it holds the lane's present generation or
an outdated one, never one above it), and a capability to the plan of its generation: without these
the compare-and-swap alone says nothing of two controllers that both hold snapshots.
`IdleIsFree`, `ForegroundTrusted`, `BindingTrusted` and `StopTrusted` say of any number of lanes and
controllers what `lane_core` checks on one lane; they assume `Calm`: no command is stalled past its lease and
nobody types into a lane's shell (crashes, lost and expired capabilities are allowed). Both halves are needed:
`lane_core` with `Stalls = TRUE`, or with `MaxUserJobs = 1`, finds each of the four properties violated. Two more invariants carry them. `Birth`: a body is started once, by
the controller that made its lane, and nothing runs in one that is not up. `Own`: an agent in the
foreground is that of the lane's generation, whose launcher is gone for good (`Over`: no script and
nobody about to write one), and each controller knows at each step enough of launcher and
foreground to do what it does next, such as that the agent it recovers from is not there.

`TaskClaims_proofs`: type correctness, `CachesClaimed`, `HistoryKept` and `Refinement`. `IInv` adds
to the types that a process about to write a cache has claimed the task (`Placed`), that it holds
the number of that task's folder, and that what is no folder yet was claimed by nobody (`Unmade`);
`CacheWasClaimed` is not inductive without them; it is about `TaskHistory`, since a late `Write` may take a session out of
the document. `HistoryKept` and `Refinement` name that `Write` as the one step back: it is made by a session that
was the live owner when its hook looked, and restores what it was shown. The refinement maps a process that asks for a task, is about
to close one, or has a `Write` admitted, to a request, and shows one lemma per action: `Work`, `Validate` and `MakeFolder` ask, `Claim`
grants or drops, `AutoClose` and `Complete` release or drop, `ApplyWrite` restores, everything else changes neither owner nor request.
`OwnersAlwaysInTurn` is about any number of processes; its condition is a history variable of `TaskHistory`, `orderly`: so far one
process at most was busy at a time, none was killed or forced, and folders began with distinct numbers. `SerialInv` says for each
place in a command what it has found out of document and cache and may still rely on while the others rest (`Alone`), that
numbers stay distinct, and that who owns a task has its number in the cache or is about to write it.

`Reconcile_proofs`: type correctness and `TextKept`, the latter for instances whose `Windows` is FALSE,
both for any number of installers at once. `IInv` adds to the types that an installer plans only from
texts that are no conflict, and that the file it is about to write has the people's part it knows of
(`Held`). That stays true when another installer writes the same file, because every write of an
installer leaves the people's part as it is (`Mild`), which in turn rests on `Held`. `WholeOrNothing` is the refinement
of `InstallTransaction` for one installer, no edit between a check and its rename, and no interrupt between a rename
and its note (`Alone`). `AloneInv` adds that the files named by the lists of an installer (noted, staged, to be
restored, given up) hold what it read or what it wrote, as the list says; by the mapping a file that is renamed counts
as it was read until the installer ends, and in a rollback while it is still to be restored or was given up.
Each action is then shown to begin, commit, abandon or break a transaction, or to leave `Visible` as it is.

`ArenaRun_proofs`: type correctness, `Reported`, `NoOrphans` and `Refinement`. `IInv` has four parts: whose turn it is
(`Turns`: who is in a run holds its lock, who makes one is alone with it); what a log says of messages is true of
the terminal, give or take the one asked for last (`Truthful`); what each coordinator knows of the log at its
place, and of what it is about to append (`Known`, `Pending`); and who minds a worker (`Minded`). What the replay of a
log says is a count of entries, so lemmas say what an appended entry does to each count. The refinement of `ScriptDelivery`
maps a log and its terminal to the message under way; every step is a step there or a stutter.

`SessionNames_proofs`: type correctness and `NamesHold`. `NInv` adds that a claim under way names a
session that is recorded and a name no resume has reserved; the steps that give or reserve no name are
shown at once to leave fewer holders (`Fewer`), the others one by one.

`MergeTasks_proofs`: type correctness and `MergeAlwaysSound`. `MergeInv` says what a branch is before a merge (every task is called by
its number), that the plan covers every task that collides with numbers behind the target's last, and for
each phase which kinds of file are as they were read, half way, or moved; a step that fails leaves one of
these, from which the rollback gets back to what was read. `NamedBehind` says that whatever `NewNumber` makes of a
name, it is behind the target's numbers. That a task's names agree is proved for those that keep their number or have three digits.

`Texts_proofs`, chat log: type correctness and `EntriesAlwaysInOrder`. `ChatInv` says that numbers rise along the log
and no key is in it twice (`Ordered`), what a log without numbers looks like (`OldFirst`), and that the numbers of the
branch come after the target's once they were moved (`Behind`); an appended entry is in front of none, and
moving the numbers by one offset keeps their order.

Gate edits: type correctness and `EditsAlwaysInOrder`. What was admitted must be harmless whenever it is applied:
`Ready` says of the pieces of an edit that a gate they check comes after closed gates and gates they drop only, in the
document as it is now. An edit that drops the first open gate counts as replanning, which the property leaves out. An edit of several pieces is applied piece by piece, so each piece is shown to leave
the rest `Ready`; a gate the owner closes meanwhile only helps. That the gate closed next is the first open one
needs that there is one: every set of positions has a least (`FirstPosition`).

Hook files: type correctness and `HooksAlwaysSettle`, for files of any length. Each writer is a function of the file,
and a lemma says of each that it keeps people's hooks in their places, what it leaves, and that it leaves its own
result as it is. For the feature switch the invariant is that `config.toml` has one section and one switch in it at
most (`Tidy`); the three cases of `WithFeature` (no section, a line to replace, a line to insert at the end of the
section) each leave the switch on and the other lines in their order.

`Parts_proofs`, tmux runs: type correctness and `OutcomeIsSound`. `TmuxInv` says that a result of the runner's own
is there only when the runner has exited, that it comes there only from places where its agent's
group is empty (`Quiet`), and that a dead pane is that of a runner which is over; `OutcomeSound` then
follows for any number of kills.

Reminder loops: type correctness and `ReminderAlwaysSurvives`. The witness is `Last`: of the starts under
way or answered, the one that listed the running loops last. No start that listed before has it in
its list, so nobody tells it to stop.

Reviews: type correctness and `ReviewsAreHonest`, from an invariant of the panel (what was said is what a judge that was
heard tells), one of its paper, and one of the review log at each point of a run.

The composition: `PartsCompose` shows that a behaviour of `MCParts` is one of each part (`PartsStart`, `PartsStep`), so
that `PartsTypes`, `AnswersAlwaysSound` and `PartsHold` follow from the theorems about the parts.

Only model-checked are the liveness properties: `StartingSettles`, `RunningSettles`, `BindConverges`, `ClaimPublished`,
`TransferFinished`, `Converges`, `LitterGoes`, `ExecutionEnds` and `WaitsEnd`. Liveness under fairness is out of the
prover's reach, and so is what a function defined by recursion on its data computes: the models that are proved about
use counts, positions and gaps where the code builds lists. The four findings are counterexamples TLC has to find.

## Not modelled

- Templates, reports and retrospectives: they render or read text and share no state with anybody.
- Board, list, history, capture and send of `pb-session`; status, retro, bootstrap and the chronology of
  `pb-tasks`: they read, or append to files nobody decides by.
- The translation of provider events, the decisions of the policy about shell commands, and the words of
  every message: stateless text.
- Sandbox profiles, `install.sh` and the shell hooks: command lines and file copies. Of the sandbox the models
  have who is killed with whom.
- A subagent's file sink and the harvest of its transcript; the ranking of conversations by times and transcripts, and `restore all`.
- Git, worktrees, variants and the analysis of the arena, beyond that they work or fail.
- The validation of record shapes, links and file modes throughout: a record is what a program of this version wrote.
