----------------------------- MODULE MergeTasks -----------------------------
(***************************************************************************)
(* prepare-merge, the tasks (tasks/cli.py): tasks of the branch whose      *)
(* number the target branch gave away as well are moved to numbers behind  *)
(* the target's, with every reference to them, as one transaction under    *)
(* the locks of the task documents, the sessions and the chat log.         *)
(*                                                                         *)
(*   folder[t], slug[t]    the number and the rest of its folder's name;   *)
(*                         folders and headings write a number with three  *)
(*                         digits at least                                 *)
(*   title[t], mention[t]  the number in its heading, and the one its text *)
(*                         mentions: that of task About[t]                 *)
(*   claimed    tasks with a live owner                                    *)
(*   target     the numbers of the target branch                           *)
(*   cache[s]   the number in the session's current_state, or 0            *)
(*   offsets    sessions with a chat_log_offset                            *)
(*   chat       the number the chat log mentions (of ChatAbout), and       *)
(*              whether a person has edited the log                        *)
(*   merge      where the command is, todo what is left of that step       *)
(*   plan       the new number of each number that is given up             *)
(*   before     what was read under the locks                              *)
(***************************************************************************)
EXTENDS Integers, FiniteSets

CONSTANTS
    Task, Session,
    BaseTask, Base,    \* the task of the merge base, and its number
    About, ChatAbout,  \* the tasks that texts and the chat log mention
    Padded,            \* tasks mentioned with three digits (T007), not as T7
    Number, Targets    \* numbers of tasks, and sets of them on the target

ASSUME MergeAssumption ==
    /\ IsFiniteSet(Task) /\ BaseTask \in Task /\ ChatAbout \in Task
    /\ About \in [Task -> Task] /\ Padded \subseteq Task
    /\ Number \subseteq Nat \ {0} /\ Base \in Number /\ Targets \subseteq SUBSET Number
    /\ \A numbers \in Targets :
         /\ IsFiniteSet(numbers)
         /\ numbers # {} => \E n \in numbers : \A m \in numbers : m <= n

VARIABLES folder, slug, title, mention, claimed, target, cache, offsets, chat,
          merge, todo, plan, before

mergeFiles == <<folder, title, mention, cache, offsets, chat>>
mergeVars == <<mergeFiles, slug, claimed, target, merge, todo, plan, before>>

\* What the transaction must leave as it was, or change as a whole.
Content == [folder |-> folder, title |-> title, mention |-> mention,
            cache |-> cache, offsets |-> offsets, chat |-> chat]

MergeSteps == {"move", "docs", "chat", "chatwrite", "caches", "offsets"}

MergeTypeOK ==
    /\ folder \in [Task -> Nat] /\ title \in [Task -> Nat] /\ mention \in [Task -> Nat]
    /\ claimed \subseteq Task /\ cache \in [Session -> Nat] /\ offsets \subseteq Session
    /\ chat.ref \in Nat /\ chat.edited \in BOOLEAN
    /\ merge \in MergeSteps \cup {"idle", "planned", "locked", "fail", "done", "refused", "killed"}
    /\ DOMAIN plan \subseteq Number

\* The base task has one number on both branches.
MergeInit ==
    /\ folder \in {f \in [Task -> Number] : f[BaseTask] = Base /\ \A t, u \in Task : f[t] = f[u] => t = u}
    /\ slug \in {[t \in Task |-> t], [t \in Task |-> IF t = BaseTask THEN t ELSE ChatAbout]}
    /\ title = folder /\ mention = [t \in Task |-> folder[About[t]]]
    /\ chat = [ref |-> folder[ChatAbout], edited |-> FALSE]
    /\ claimed = {} /\ target \in Targets
    /\ cache \in [Session -> {folder[t] : t \in Task} \cup {0}]
    /\ offsets = {s \in Session : cache[s] # 0}
    /\ merge = "idle" /\ todo = {} /\ plan = [n \in {} |-> 0] /\ before = Content

---------------------------------------------------------------------------
(* Planning, without locks                                                 *)

MaxTarget == CHOOSE n \in target : \A m \in target : m <= n

Collisions == ({folder[t] : t \in Task} \ {Base}) \cap (target \ {Base})

\* In their order, from the first number behind the target's.
PlanMerge ==
    /\ merge = "idle"
    /\ plan' = [n \in Collisions |-> MaxTarget + Cardinality({m \in Collisions : m <= n})]
    /\ merge' = IF Collisions = {} THEN "done" ELSE "planned"
    /\ UNCHANGED <<mergeFiles, slug, claimed, target, todo, before>>

\* A claim takes the task's lock and then the session's, for the cache.
ClaimTask(s, t) ==
    /\ merge \in {"idle", "planned"} /\ t \notin claimed
    /\ claimed' = claimed \cup {t} /\ cache' = [cache EXCEPT ![s] = folder[t]]
    /\ UNCHANGED <<folder, title, mention, offsets, chat, slug, target, merge, todo, plan, before>>

Moving == {t \in Task : before.folder[t] \in DOMAIN plan}

---------------------------------------------------------------------------
(* What becomes of names and numbers                                       *)

\* A number without leading zeros, however it is written.
Wide(n) == n >= 100

\* The new name is the new number and what is left of the old name without
\* its first characters, as many as the old number has digits: of 007-x or
\* 042-x the zeros are cut and digits of the old number stay.
NewNumber(n) ==
    CASE n < 10 -> 100 * plan[n] + n
      [] n >= 10 /\ ~Wide(n) -> 10 * plan[n] + (n % 10)
      [] OTHER -> plan[n]

Destination(n) == IF n \in DOMAIN plan THEN NewNumber(n) ELSE n

\* What is searched for is the number without leading zeros.
Rewritten(n, padded) == IF n \in DOMAIN plan /\ (Wide(n) \/ ~padded) THEN plan[n] ELSE n

MentionRewritten(n, t) == Rewritten(n, About[t] \in Padded)
ChatRewritten == [before.chat EXCEPT !.ref = Rewritten(@, ChatAbout \in Padded)]

---------------------------------------------------------------------------
(* _renumber_tasks_transactionally, under all its locks                    *)

LockAndRead ==
    /\ merge = "planned"
    /\ merge' = "locked" /\ before' = Content
    /\ UNCHANGED <<mergeFiles, slug, claimed, target, todo, plan>>

\* A task that would move is claimed, or its new folder is there.
Hindered ==
    \E t \in Moving :
      \/ t \in claimed
      \/ \E u \in Task : folder[u] = Destination(folder[t]) /\ slug[u] = slug[t]

RefuseMerge ==
    /\ merge = "locked" /\ Hindered
    /\ merge' = "refused"
    /\ UNCHANGED <<mergeFiles, slug, claimed, target, todo, plan, before>>

BeginMerge ==
    /\ merge = "locked" /\ ~Hindered
    /\ merge' = "move" /\ todo' = Moving
    /\ UNCHANGED <<mergeFiles, slug, claimed, target, plan, before>>

\* One item of a step, and the next step when none is left.
StepOf(step, item) == merge = step /\ item \in todo /\ todo' = todo \ {item} /\ UNCHANGED merge
NextStep(step, next, items) == merge = step /\ todo = {} /\ merge' = next /\ todo' = items

\* A name that is taken by then fails the step.
MoveFolder(t) ==
    /\ StepOf("move", t)
    /\ \A u \in Task : slug[u] = slug[t] => folder[u] # Destination(folder[t])
    /\ folder' = [folder EXCEPT ![t] = Destination(@)]
    /\ UNCHANGED <<title, mention, cache, offsets, chat, slug, claimed, target, plan, before>>

WriteDocument(t) ==
    /\ StepOf("docs", t)
    /\ title' = [title EXCEPT ![t] = Rewritten(@, TRUE)]
    /\ mention' = [mention EXCEPT ![t] = MentionRewritten(@, t)]
    /\ UNCHANGED <<folder, cache, offsets, chat, slug, claimed, target, plan, before>>

\* The chat log must still be what was read,
CheckChat ==
    /\ merge = "chat"
    /\ merge' = IF chat = before.chat THEN "chatwrite" ELSE "fail"
    /\ UNCHANGED <<mergeFiles, slug, claimed, target, todo, plan, before>>

\* and is then replaced.
WriteChat ==
    /\ merge = "chatwrite"
    /\ chat' = ChatRewritten
    /\ merge' = "caches" /\ todo' = {s \in Session : cache[s] \in DOMAIN plan}
    /\ UNCHANGED <<folder, title, mention, cache, offsets, slug, claimed, target, plan, before>>

WriteCache(s) ==
    /\ StepOf("caches", s)
    /\ cache' = [cache EXCEPT ![s] = Rewritten(@, FALSE)]
    /\ UNCHANGED <<folder, title, mention, offsets, chat, slug, claimed, target, plan, before>>

DropOffset(s) ==
    /\ StepOf("offsets", s)
    /\ offsets' = offsets \ {s}
    /\ UNCHANGED <<folder, title, mention, cache, chat, slug, claimed, target, plan, before>>

EndStep ==
    /\ \/ NextStep("move", "docs", Task)
       \/ NextStep("docs", IF ChatRewritten = before.chat THEN "caches" ELSE "chat",
                   IF ChatRewritten = before.chat
                     THEN {s \in Session : cache[s] \in DOMAIN plan} ELSE {})
       \/ NextStep("caches", "offsets", offsets)
       \/ NextStep("offsets", "done", {})
    /\ UNCHANGED <<mergeFiles, slug, claimed, target, plan, before>>

StepFails ==
    /\ merge \in MergeSteps
    /\ merge' = "fail"
    /\ UNCHANGED <<mergeFiles, slug, claimed, target, todo, plan, before>>

\* A person's edit is kept; a log that was published and not edited since,
\* and one that was not published, end as they were.
ChatRolledBack ==
    IF chat = ChatRewritten THEN before.chat ELSE chat

\* Fault: the documents and the caches are put back, the folders are not.
RollBackKeepingFolders ==
    /\ merge = "fail"
    /\ merge' = "refused" /\ todo' = {}
    /\ title' = before.title /\ mention' = before.mention
    /\ cache' = before.cache /\ offsets' = before.offsets /\ chat' = ChatRolledBack
    /\ UNCHANGED <<folder, slug, claimed, target, plan, before>>

\* Documents, chat log, caches, offsets and then folders are put back, all
\* of it under the locks.
RollBack ==
    /\ merge = "fail"
    /\ merge' = "refused" /\ todo' = {}
    /\ folder' = before.folder /\ title' = before.title /\ mention' = before.mention
    /\ cache' = before.cache /\ offsets' = before.offsets /\ chat' = ChatRolledBack
    /\ UNCHANGED <<slug, claimed, target, plan, before>>

\* An editor knows no locks.
EditChat ==
    /\ ~chat.edited /\ chat' = [chat EXCEPT !.edited = TRUE]
    /\ UNCHANGED <<folder, title, mention, cache, offsets, slug, claimed, target, merge, todo, plan, before>>

MergeKilled ==
    /\ merge \in MergeSteps \cup {"fail"} /\ merge' = "killed" /\ todo' = {}
    /\ UNCHANGED <<mergeFiles, slug, claimed, target, plan, before>>

MergeNext ==
    \/ PlanMerge \/ LockAndRead \/ RefuseMerge \/ BeginMerge
    \/ \E t \in Task : MoveFolder(t) \/ WriteDocument(t) \/ \E s \in Session : ClaimTask(s, t)
    \/ CheckChat \/ WriteChat \/ \E s \in Session : WriteCache(s) \/ DropOffset(s)
    \/ EndStep \/ StepFails \/ RollBack \/ EditChat \/ MergeKilled

---------------------------------------------------------------------------

Renumbered == merge = "done" /\ DOMAIN plan # {}

\* The heading, the texts and the chat log that mention it and the caches
\* that name it have the number of the task's folder.
Agreed(t) ==
    /\ title[t] = folder[t] /\ \A u \in Task : About[u] = t => mention[u] = folder[t]
    /\ ChatAbout = t => chat.ref = folder[t]
    /\ \A s \in Session : before.cache[s] = before.folder[t] => cache[s] = folder[t]

\* A merge that is done has moved every task away from the target's numbers,
\* and every name of a task that keeps its number, or has one of three
\* digits, has moved along; a merge that is refused, for a claimed task, a
\* failed step or an edit of the chat log, has changed nothing, and kept the
\* edit.
MergeSound ==
    /\ Renumbered =>
         /\ \A t \in Task : t = BaseTask \/ folder[t] \notin target
         /\ \A t \in Task : Wide(before.folder[t]) \/ before.folder[t] \notin DOMAIN plan => Agreed(t)
         /\ offsets = {}
    /\ merge = "refused" =>
         /\ [Content EXCEPT !.chat = before.chat] = before
         /\ chat = before.chat \/ chat.edited

\* A merge moves every name of every task along ("all reverse pointers",
\* cli.py:894).
PointersFollow == Renumbered => \A t \in Task : Agreed(t)
=============================================================================
