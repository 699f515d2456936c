-------------------------- MODULE MergeTasks_proofs -------------------------
(***************************************************************************)
(* Proofs about MergeTasks, for any number of tasks, sessions and task     *)
(* numbers: a merge that is done has moved every task off the target's     *)
(* numbers, with every name of a task whose number is written without      *)
(* zeros; one that is refused has changed nothing, wherever a step failed  *)
(* and whenever the chat log was edited.                                   *)
(***************************************************************************)
EXTENDS MergeTasks, FiniteSetTheorems, TLAPS

MergeSpec == MergeInit /\ [][MergeNext]_mergeVars

Contents == [folder : [Task -> Nat], title : [Task -> Nat], mention : [Task -> Nat],
             cache : [Session -> Nat], offsets : SUBSET Session,
             chat : [ref : Nat, edited : BOOLEAN]]

Shapes ==
    /\ Content \in Contents /\ before \in Contents
    /\ target \in Targets
    /\ \A n \in DOMAIN plan : plan[n] \in Nat

\* A branch as its sessions leave it: every task is called by its number,
\* and only the base task has the base's number.
Consistent(c) ==
    /\ c.title = c.folder
    /\ c.mention = [t \in Task |-> c.folder[About[t]]]
    /\ c.chat.ref = c.folder[ChatAbout]
    /\ \A t \in Task : t # BaseTask => c.folder[t] # Base

\* The plan covers every task that collides, with numbers behind the target's.
PlanRight(c) ==
    /\ \A t \in Task : t # BaseTask /\ c.folder[t] \in target => c.folder[t] \in DOMAIN plan
    /\ \A n \in DOMAIN plan, m \in target : plan[n] > m

\* Each kind of file as it was read, half way (todo is to be done), and moved.
FoldersPartly == \A t \in Task : folder[t] = IF t \in todo THEN before.folder[t]
                                             ELSE Destination(before.folder[t])
FoldersMoved == \A t \in Task : folder[t] = Destination(before.folder[t])
DocsPartly == \A t \in Task : /\ title[t] = IF t \in todo THEN before.folder[t]
                                            ELSE Rewritten(before.folder[t], TRUE)
                              /\ mention[t] = IF t \in todo THEN before.mention[t]
                                              ELSE MentionRewritten(before.mention[t], t)
DocsMoved == \A t \in Task : /\ title[t] = Rewritten(before.folder[t], TRUE)
                             /\ mention[t] = MentionRewritten(before.mention[t], t)
CachesPartly == \A s \in Session : cache[s] = IF s \in todo THEN before.cache[s]
                                              ELSE Rewritten(before.cache[s], FALSE)
CachesMoved == \A s \in Session : cache[s] = Rewritten(before.cache[s], FALSE)

DocsKept == title = before.title /\ mention = before.mention
CachesKept == cache = before.cache /\ offsets = before.offsets
ChatKept == chat.ref = before.chat.ref
ChatMoved == chat.ref = ChatRewritten.ref

\* Unless a person has edited it, the chat log is what was read or what the
\* merge makes of it.
ChatKnown ==
    chat = before.chat \/ chat = ChatRewritten \/ chat.edited

Locked == merge \notin {"idle", "planned", "killed"} /\ DOMAIN plan # {}

\* Where the transaction is in each of its steps.
Phase ==
    /\ merge = "locked" => /\ folder = before.folder /\ DocsKept /\ CachesKept
                           /\ ChatKept /\ (chat = before.chat \/ chat.edited)
    /\ merge = "move" => todo \subseteq Moving /\ FoldersPartly /\ DocsKept /\ CachesKept /\ ChatKept
    /\ merge = "docs" => FoldersMoved /\ DocsPartly /\ CachesKept /\ ChatKept
    /\ merge \in {"chat", "chatwrite"} => FoldersMoved /\ DocsMoved /\ CachesKept
    /\ merge = "caches" => FoldersMoved /\ DocsMoved /\ ChatMoved /\ CachesPartly
    /\ merge = "offsets" => FoldersMoved /\ DocsMoved /\ ChatMoved /\ CachesMoved /\ offsets = todo
    /\ merge = "done" => FoldersMoved /\ DocsMoved /\ ChatMoved /\ CachesMoved /\ offsets = {}
    /\ merge = "refused" => /\ folder = before.folder /\ DocsKept /\ CachesKept
                            /\ (chat = before.chat \/ chat.edited)

\* The inductive invariant.
MergeInv ==
    /\ Shapes
    /\ merge \in {"idle", "planned"} => Consistent(Content)
    /\ merge = "planned" => PlanRight(Content)
    /\ merge \in {"idle", "done"} \/ DOMAIN plan # {}
    /\ merge = "idle" => DOMAIN plan = {}
    /\ Locked => Consistent(before) /\ PlanRight(before) /\ ChatKnown /\ Phase

USE DEF MergeSteps

---------------------------------------------------------------------------
(* What a plan says                                                        *)

\* A number of the plan lies behind the target's last: of those that collide
\* up to it, it is one itself.
LEMMA PlannedBehind ==
    ASSUME target \in Targets, NEW n \in Collisions
    PROVE  LET new == MaxTarget + Cardinality({m \in Collisions : m <= n})
           IN  new \in Nat /\ \A m \in target : new > m
<1> DEFINE upTo == {m \in Collisions : m <= n}
<1>1. target \subseteq Nat /\ IsFiniteSet(target) /\ target # {}
  BY MergeAssumption DEF Collisions
<1>2. MaxTarget \in target /\ \A m \in target : m <= MaxTarget
  BY <1>1, MergeAssumption DEF MaxTarget
<1>3. n \in upTo /\ upTo \subseteq target
  <2>1. n \in target /\ n \in Nat
    BY <1>1 DEF Collisions
  <2>2. QED
    BY <2>1 DEF Collisions
<1>4. IsFiniteSet(upTo)
  BY <1>1, <1>3, FS_Subset
<1>5. Cardinality(upTo) \in Nat /\ Cardinality(upTo) # 0
  BY <1>3, <1>4, FS_CardinalityType, FS_EmptySet
<1> HIDE DEF upTo
<1>6. MaxTarget + Cardinality(upTo) \in Nat /\ \A m \in target : MaxTarget + Cardinality(upTo) > m
  BY <1>1, <1>2, <1>5
<1>7. QED
  BY <1>6 DEF upTo

\* A new name keeps the new number's place behind the target's, whatever is
\* left of the old number.
LEMMA NamedBehind ==
    ASSUME NEW n \in Nat, plan[n] \in Nat
    PROVE  NewNumber(n) \in Nat /\ \A m \in Nat : plan[n] > m => NewNumber(n) > m
<1>1. CASE n < 10
  BY <1>1 DEF NewNumber
<1>2. CASE n >= 10 /\ ~Wide(n)
  <2>1. n % 10 \in 0 .. 9
    OBVIOUS
  <2>2. NewNumber(n) = 10 * plan[n] + (n % 10)
    BY <1>2 DEF NewNumber
  <2>3. QED
    BY <2>1, <2>2
<1>3. CASE n >= 10 /\ Wide(n)
  BY <1>3 DEF NewNumber
<1>4. QED
  BY <1>1, <1>2, <1>3

LEMMA PlanMade ==
    ASSUME MergeInv, PlanMerge PROVE MergeInv'
<1>1. /\ UNCHANGED mergeFiles /\ UNCHANGED before /\ UNCHANGED target /\ Consistent(Content)
      /\ plan' = [n \in Collisions |-> MaxTarget + Cardinality({m \in Collisions : m <= n})]
  BY DEF PlanMerge, MergeInv
<1>2. \A n \in DOMAIN plan' : plan'[n] \in Nat /\ \A m \in target : plan'[n] > m
  BY <1>1, PlannedBehind DEF MergeInv, Shapes
<1>3. Shapes'
  BY <1>1, <1>2 DEF MergeInv, Shapes, Content, mergeFiles
<1>4. Consistent(Content)'
  BY <1>1 DEF Consistent, Content, mergeFiles
<1>5. PlanRight(Content)'
  BY <1>1, <1>2 DEF PlanRight, Content, Collisions, mergeFiles, Consistent
<1>6. QED
  BY <1>1, <1>3, <1>4, <1>5 DEF PlanMerge, MergeInv, Locked

---------------------------------------------------------------------------
(* The steps of the transaction                                            *)

LEMMA Claimed ==
    ASSUME MergeInv, NEW s \in Session, NEW t \in Task, ClaimTask(s, t) PROVE MergeInv'
<1> USE DEF ClaimTask
<1>1. Shapes'
  BY DEF MergeInv, Shapes, Content, Contents
<1>2. Consistent(Content)'
  BY DEF MergeInv, Consistent, Content
<1>3. merge = "planned" => PlanRight(Content)'
  BY DEF MergeInv, PlanRight, Content
<1>4. QED
  BY <1>1, <1>2, <1>3 DEF MergeInv, Locked

LEMMA Locking ==
    ASSUME MergeInv, LockAndRead PROVE MergeInv'
<1> USE DEF LockAndRead, mergeFiles
<1>1. Shapes'
  BY DEF MergeInv, Shapes, Content
<1>2. Consistent(before)' /\ PlanRight(before)'
  BY DEF MergeInv, Consistent, PlanRight, Content
<1>3. ChatKnown' /\ Phase'
  BY DEF ChatKnown, Phase, Content, DocsKept, CachesKept, ChatKept
<1>4. QED
  BY <1>1, <1>2, <1>3 DEF MergeInv, Locked

\* What every step of the transaction leaves alone.
Frame == UNCHANGED <<target, plan, before>> /\ Locked /\ merge' \notin {"idle", "planned"}

LEMMA Framed ==
    ASSUME MergeInv, Frame, Content' \in Contents, merge' # "killed" => ChatKnown' /\ Phase'
    PROVE  MergeInv'
<1>1. Shapes'
  BY DEF MergeInv, Shapes, Frame
<1>2. Consistent(before)' /\ PlanRight(before)'
  BY DEF MergeInv, Frame, Consistent, PlanRight
<1>3. QED
  BY <1>1, <1>2 DEF MergeInv, Frame, Locked

LEMMA Refusing ==
    ASSUME MergeInv, RefuseMerge \/ BeginMerge PROVE MergeInv'
<1> USE DEF RefuseMerge, BeginMerge, mergeFiles
<1>1. Frame /\ Content' = Content
  BY DEF MergeInv, Frame, Content, Locked
<1>2. Content' \in Contents
  BY <1>1 DEF MergeInv, Shapes
<1>3. ChatKnown'
  BY <1>1 DEF MergeInv, Frame, ChatKnown, ChatRewritten, Rewritten
<1>4. Phase'
  BY <1>1 DEF MergeInv, Frame, Phase, DocsKept, CachesKept, ChatKept, FoldersPartly, Moving,
              Destination, NewNumber, Shapes, Contents
<1>5. QED
  BY <1>1, <1>2, <1>3, <1>4, Framed

LEMMA FolderMoved ==
    ASSUME MergeInv, NEW t \in Task, MoveFolder(t) PROVE MergeInv'
<1> USE DEF MoveFolder, StepOf
<1>1. Frame /\ todo \subseteq Moving /\ FoldersPartly /\ DocsKept /\ CachesKept /\ ChatKept /\ ChatKnown
  BY DEF MergeInv, Frame, Locked, Phase
<1>2. before.folder[t] \in DOMAIN plan /\ folder[t] = before.folder[t]
  BY <1>1 DEF FoldersPartly, Moving
<1>3. folder \in [Task -> Nat] /\ Destination(folder[t]) \in Nat
  <2>1. folder \in [Task -> Nat] /\ plan[folder[t]] \in Nat
    BY <1>2 DEF MergeInv, Shapes, Content, Contents
  <2>2. QED
    BY <2>1, NamedBehind DEF Destination
<1>4. Content' \in Contents
  BY <1>3 DEF MergeInv, Shapes, Content, Contents
<1>5. FoldersPartly'
  BY <1>1, <1>2, <1>3 DEF Frame, FoldersPartly, Destination, NewNumber
<1>6. todo' \subseteq Moving' /\ DocsKept' /\ CachesKept' /\ ChatKept'
  BY <1>1 DEF Frame, Moving, DocsKept, CachesKept, ChatKept
<1>7. ChatKnown'
  BY <1>1 DEF Frame, ChatKnown, ChatRewritten, Rewritten
<1>8. Phase'
  BY <1>5, <1>6 DEF Phase
<1>9. QED
  BY <1>1, <1>4, <1>7, <1>8, Framed

LEMMA DocumentWritten ==
    ASSUME MergeInv, NEW t \in Task, WriteDocument(t) PROVE MergeInv'
<1> USE DEF WriteDocument, StepOf
<1>1. Frame /\ FoldersMoved /\ DocsPartly /\ CachesKept /\ ChatKept /\ ChatKnown
  BY DEF MergeInv, Frame, Locked, Phase
<1>2. /\ title \in [Task -> Nat] /\ mention \in [Task -> Nat] /\ before.folder \in [Task -> Nat]
      /\ \A n \in Nat : Rewritten(n, TRUE) \in Nat /\ \A u \in Task : MentionRewritten(n, u) \in Nat
  BY DEF MergeInv, Shapes, Content, Contents, Rewritten, MentionRewritten
<1>3. title[t] = before.folder[t] /\ mention[t] = before.mention[t]
  BY <1>1 DEF DocsPartly
<1>4. Content' \in Contents
  BY <1>2, <1>3 DEF MergeInv, Shapes, Content, Contents
<1>5. DocsPartly'
  BY <1>1, <1>2, <1>3 DEF Frame, DocsPartly, Rewritten, MentionRewritten
<1>6. FoldersMoved' /\ CachesKept' /\ ChatKept' /\ ChatKnown'
  BY <1>1 DEF Frame, FoldersMoved, CachesKept, ChatKept, ChatKnown, Destination, NewNumber, ChatRewritten, Rewritten
<1>7. Phase'
  BY <1>5, <1>6 DEF Phase
<1>8. QED
  BY <1>1, <1>4, <1>6, <1>7, Framed

LEMMA ChatChecked ==
    ASSUME MergeInv, CheckChat PROVE MergeInv'
<1> USE DEF CheckChat, mergeFiles
<1>1. Frame /\ FoldersMoved /\ DocsMoved /\ CachesKept /\ ChatKnown
  BY DEF MergeInv, Frame, Locked, Phase
<1>2. Content' \in Contents
  BY DEF MergeInv, Shapes, Content
<1>3. FoldersMoved' /\ DocsMoved' /\ CachesKept' /\ ChatKnown'
  BY <1>1 DEF Frame, FoldersMoved, DocsMoved, CachesKept, ChatKnown, Destination, NewNumber, Rewritten, MentionRewritten, ChatRewritten
<1>4. Phase'
  BY <1>3 DEF Phase
<1>5. QED
  BY <1>1, <1>2, <1>3, <1>4, Framed

LEMMA ChatWritten ==
    ASSUME MergeInv, WriteChat PROVE MergeInv'
<1> USE DEF WriteChat
<1>1. Frame /\ FoldersMoved /\ DocsMoved /\ CachesKept
  BY DEF MergeInv, Frame, Locked, Phase
<1>2. /\ cache \in [Session -> Nat] /\ before.chat \in [ref : Nat, edited : BOOLEAN]
      /\ ChatRewritten \in [ref : Nat, edited : BOOLEAN]
  BY DEF MergeInv, Shapes, Content, Contents, ChatRewritten, Rewritten
<1>3. Content' \in Contents
  BY <1>2 DEF MergeInv, Shapes, Content, Contents
<1>4. FoldersMoved' /\ DocsMoved'
  BY <1>1 DEF Frame, FoldersMoved, DocsMoved, Destination, NewNumber, Rewritten, MentionRewritten
<1>5. ChatKnown' /\ ChatMoved'
  BY <1>1, <1>2 DEF Frame, ChatKnown, ChatMoved, ChatRewritten, Rewritten
<1>6. CachesPartly'
  BY <1>1, <1>2 DEF Frame, CachesKept, CachesPartly, Rewritten
<1>7. Phase'
  BY <1>4, <1>5, <1>6 DEF Phase
<1>8. QED
  BY <1>1, <1>3, <1>5, <1>7, Framed

LEMMA CacheWritten ==
    ASSUME MergeInv, NEW s \in Session, WriteCache(s) PROVE MergeInv'
<1> USE DEF WriteCache, StepOf
<1>1. Frame /\ FoldersMoved /\ DocsMoved /\ ChatMoved /\ CachesPartly /\ ChatKnown
  BY DEF MergeInv, Frame, Locked, Phase
<1>2. cache \in [Session -> Nat] /\ \A n \in Nat, padded \in BOOLEAN : Rewritten(n, padded) \in Nat
  BY DEF MergeInv, Shapes, Content, Contents, Rewritten
<1>3. Content' \in Contents
  BY <1>2 DEF MergeInv, Shapes, Content, Contents
<1>4. CachesPartly'
  BY <1>1, <1>2 DEF Frame, CachesPartly, Rewritten
<1>5. FoldersMoved' /\ DocsMoved' /\ ChatMoved' /\ ChatKnown'
  BY <1>1 DEF Frame, FoldersMoved, DocsMoved, ChatMoved, ChatKnown, Destination, NewNumber, Rewritten, MentionRewritten, ChatRewritten
<1>6. Phase'
  BY <1>4, <1>5 DEF Phase
<1>7. QED
  BY <1>1, <1>3, <1>5, <1>6, Framed

LEMMA OffsetDropped ==
    ASSUME MergeInv, NEW s \in Session, DropOffset(s) PROVE MergeInv'
<1> USE DEF DropOffset, StepOf
<1>1. Frame /\ FoldersMoved /\ DocsMoved /\ ChatMoved /\ CachesMoved /\ offsets = todo /\ ChatKnown
  BY DEF MergeInv, Frame, Locked, Phase
<1>2. Content' \in Contents
  BY DEF MergeInv, Shapes, Content, Contents
<1>3. FoldersMoved' /\ DocsMoved' /\ ChatMoved' /\ CachesMoved' /\ ChatKnown'
  BY <1>1 DEF Frame, FoldersMoved, DocsMoved, ChatMoved, CachesMoved, ChatKnown, Destination, NewNumber, Rewritten, MentionRewritten, ChatRewritten
<1>4. Phase'
  BY <1>1, <1>3 DEF Phase
<1>5. QED
  BY <1>1, <1>2, <1>3, <1>4, Framed

LEMMA StepEnded ==
    ASSUME MergeInv, EndStep PROVE MergeInv'
<1> USE DEF EndStep, NextStep, mergeFiles
<1>1. Frame /\ Content' \in Contents /\ todo = {} /\ Phase /\ ChatKnown
  BY DEF MergeInv, Shapes, Content, Frame, Locked
<1>2. ChatKnown'
  BY <1>1 DEF Frame, ChatKnown, ChatRewritten, Rewritten
<1> SUFFICES Phase'
  BY <1>1, <1>2, Framed
<1>3. CASE NextStep("move", "docs", Task)
  <2>1. FoldersPartly /\ DocsKept /\ CachesKept /\ ChatKept /\ Consistent(before)
    BY <1>1, <1>3 DEF Phase, MergeInv, Frame
  <2>2. FoldersMoved' /\ CachesKept' /\ ChatKept'
    BY <1>1, <2>1 DEF Frame, FoldersPartly, FoldersMoved, CachesKept, ChatKept, Destination, NewNumber
  <2>3. DocsPartly'
    BY <1>1, <1>3, <2>1 DEF Frame, DocsPartly, DocsKept, Consistent, Rewritten, MentionRewritten
  <2>4. QED
    BY <1>3, <2>2, <2>3 DEF Phase
<1>4. CASE merge = "docs"
  <2>1. FoldersMoved /\ DocsPartly /\ CachesKept /\ ChatKept
    BY <1>1, <1>4 DEF Phase
  <2>2. FoldersMoved' /\ DocsMoved' /\ CachesKept'
    BY <1>1, <2>1 DEF Frame, FoldersMoved, DocsPartly, DocsMoved, CachesKept, Destination, NewNumber, Rewritten, MentionRewritten
  <2>3. CASE merge' = "chat"
    BY <2>2, <2>3 DEF Phase
  <2>4. CASE merge' = "caches"
    <3>1. ChatRewritten = before.chat /\ todo' = {s \in Session : cache[s] \in DOMAIN plan}
      BY <1>4, <2>4
    <3>2. ChatMoved'
      BY <1>1, <2>1, <3>1 DEF Frame, ChatMoved, ChatKept, ChatRewritten, Rewritten
    <3>3. CachesPartly'
      BY <1>1, <2>1, <3>1 DEF Frame, CachesKept, CachesPartly, Rewritten
    <3>4. QED
      BY <2>2, <2>4, <3>2, <3>3 DEF Phase
  <2>5. QED
    BY <1>4, <2>3, <2>4
<1>5. CASE NextStep("caches", "offsets", offsets)
  <2>1. FoldersMoved /\ DocsMoved /\ ChatMoved /\ CachesPartly
    BY <1>1, <1>5 DEF Phase
  <2>2. FoldersMoved' /\ DocsMoved' /\ ChatMoved' /\ CachesMoved'
    BY <1>1, <2>1 DEF Frame, FoldersMoved, DocsMoved, ChatMoved, CachesPartly, CachesMoved, Destination, NewNumber, Rewritten, MentionRewritten, ChatRewritten
  <2>3. QED
    BY <1>5, <2>2 DEF Phase
<1>6. CASE NextStep("offsets", "done", {})
  <2>1. FoldersMoved /\ DocsMoved /\ ChatMoved /\ CachesMoved /\ offsets = {}
    BY <1>1, <1>6 DEF Phase
  <2>2. FoldersMoved' /\ DocsMoved' /\ ChatMoved' /\ CachesMoved'
    BY <1>1, <2>1 DEF Frame, FoldersMoved, DocsMoved, ChatMoved, CachesMoved, Destination, NewNumber, Rewritten, MentionRewritten, ChatRewritten
  <2>3. QED
    BY <1>6, <2>1, <2>2 DEF Phase
<1>7. QED
  BY <1>3, <1>4, <1>5, <1>6

---------------------------------------------------------------------------
(* Failures, and the editor that knows no locks                            *)

LEMMA Failed ==
    ASSUME MergeInv, StepFails \/ MergeKilled PROVE MergeInv'
<1> USE DEF StepFails, MergeKilled, mergeFiles
<1>1. CASE merge' = "killed"
  BY <1>1 DEF MergeInv, Shapes, Content, Locked
<1>2. CASE merge' = "fail"
  <2>1. Frame /\ Content' \in Contents /\ ChatKnown
    BY <1>2 DEF MergeInv, Shapes, Content, Frame, Locked
  <2>2. ChatKnown' /\ Phase'
    BY <1>2, <2>1 DEF Frame, ChatKnown, Phase, ChatRewritten, Rewritten
  <2>3. QED
    BY <2>1, <2>2, Framed
<1>3. QED
  BY <1>1, <1>2

LEMMA RolledBack ==
    ASSUME MergeInv, RollBack PROVE MergeInv'
<1> USE DEF RollBack
<1>1. Frame /\ ChatKnown
  BY DEF MergeInv, Frame, Locked
<1>2. chat' \in {chat, before.chat} /\ (chat' = before.chat \/ chat'.edited)
  BY <1>1 DEF ChatRolledBack, ChatKnown
<1>3. Content' \in Contents
  BY <1>2 DEF MergeInv, Shapes, Content, Contents
<1>4. ChatKnown' /\ Phase'
  BY <1>1, <1>2 DEF Frame, ChatKnown, Phase, DocsKept, CachesKept
<1>5. QED
  BY <1>1, <1>3, <1>4, Framed

LEMMA ChatEdited ==
    ASSUME MergeInv, EditChat PROVE MergeInv'
<1> USE DEF EditChat
<1>1. chat \in [ref : Nat, edited : BOOLEAN] /\ chat'.ref = chat.ref /\ chat'.edited = TRUE
  BY DEF MergeInv, Shapes, Content, Contents
<1>2. Shapes'
  BY <1>1 DEF MergeInv, Shapes, Content, Contents
<1>3. Consistent(Content) => Consistent(Content)'
  BY <1>1 DEF Consistent, Content
<1>4. PlanRight(Content) => PlanRight(Content)'
  BY DEF PlanRight, Content
<1>5. Consistent(before) /\ PlanRight(before) => (Consistent(before) /\ PlanRight(before))'
  BY DEF Consistent, PlanRight
<1>6. ChatKnown'
  BY <1>1 DEF ChatKnown
<1>7. Phase => Phase'
  BY <1>1 DEF Phase, FoldersPartly, FoldersMoved, DocsPartly, DocsMoved, CachesPartly,
              CachesMoved, DocsKept, CachesKept, ChatKept, ChatMoved, Destination, NewNumber, Rewritten,
         MentionRewritten, ChatRewritten, Moving
<1>8. QED
  BY <1>2, <1>3, <1>4, <1>5, <1>6, <1>7 DEF MergeInv, Locked

LEMMA Stuttered ==
    ASSUME MergeInv, UNCHANGED mergeVars PROVE MergeInv'
<1> USE DEF mergeVars, mergeFiles
<1>1. Shapes' /\ Content' = Content
  BY DEF MergeInv, Shapes, Content
<1>2. Consistent(Content) => Consistent(Content)'
  BY DEF Consistent, Content
<1>3. PlanRight(Content) => PlanRight(Content)'
  BY DEF PlanRight, Content
<1>4. Consistent(before) /\ PlanRight(before) => (Consistent(before) /\ PlanRight(before))'
  BY DEF Consistent, PlanRight
<1>5. ChatKnown => ChatKnown'
  BY DEF ChatKnown, ChatRewritten, Rewritten
<1>6. Phase => Phase'
  BY DEF Phase, FoldersPartly, FoldersMoved, DocsPartly, DocsMoved, CachesPartly,
         CachesMoved, DocsKept, CachesKept, ChatKept, ChatMoved, Destination, NewNumber, Rewritten,
         MentionRewritten, ChatRewritten, Moving
<1>7. QED
  BY <1>1, <1>2, <1>3, <1>4, <1>5, <1>6 DEF MergeInv, Locked

---------------------------------------------------------------------------

LEMMA MergeStarts ==
    ASSUME MergeInit PROVE MergeInv
<1> USE MergeAssumption DEF MergeInit
<1>1. folder \in [Task -> Nat] /\ \A t \in Task : t # BaseTask => folder[t] # Base
  BY MergeAssumption
<1>2. title \in [Task -> Nat] /\ mention \in [Task -> Nat]
  BY <1>1
<1>3. cache \in [Session -> Nat] /\ offsets \subseteq Session
  <2>1. {folder[t] : t \in Task} \cup {0} \subseteq Nat
    BY <1>1
  <2>2. QED
    BY <2>1
<1>4. chat \in [ref : Nat, edited : BOOLEAN]
  BY <1>1
<1>5. Shapes
  BY <1>1, <1>2, <1>3, <1>4 DEF Shapes, Content, Contents
<1>6. Consistent(Content)
  BY <1>1 DEF Consistent, Content
<1>7. QED
  BY <1>5, <1>6 DEF MergeInv, Locked

LEMMA MergeStep ==
    ASSUME MergeInv, [MergeNext]_mergeVars PROVE MergeInv'
<1>1. ASSUME NEW t \in Task, MoveFolder(t) \/ WriteDocument(t) \/ \E s \in Session : ClaimTask(s, t)
      PROVE MergeInv'
  BY <1>1, FolderMoved, DocumentWritten, Claimed
<1>2. ASSUME NEW s \in Session, WriteCache(s) \/ DropOffset(s) PROVE MergeInv'
  BY <1>2, CacheWritten, OffsetDropped
<1>3. CASE PlanMerge \/ LockAndRead \/ RefuseMerge \/ BeginMerge
  BY <1>3, PlanMade, Locking, Refusing
<1>4. CASE CheckChat \/ WriteChat \/ EndStep
  BY <1>4, ChatChecked, ChatWritten, StepEnded
<1>5. CASE StepFails \/ RollBack \/ EditChat \/ MergeKilled
  BY <1>5, Failed, RolledBack, ChatEdited
<1>6. CASE UNCHANGED mergeVars
  BY <1>6, Stuttered
<1>7. QED
  BY <1>1, <1>2, <1>3, <1>4, <1>5, <1>6 DEF MergeNext

\* A task that collides has moved behind the target, and one that has not
\* moved does not collide; every name of a task is rewritten as its folder
\* is when the number is written without zeros.
LEMMA MergeInvSound ==
    ASSUME MergeInv PROVE MergeSound
<1>1. ASSUME Renumbered
      PROVE  /\ \A t \in Task : t = BaseTask \/ folder[t] \notin target
             /\ \A t \in Task : Wide(before.folder[t]) \/ before.folder[t] \notin DOMAIN plan => Agreed(t)
             /\ offsets = {}
  <2>1. /\ FoldersMoved /\ DocsMoved /\ ChatMoved /\ CachesMoved /\ offsets = {}
        /\ Consistent(before) /\ PlanRight(before)
    BY <1>1 DEF MergeInv, Locked, Phase, Renumbered
  <2>2. /\ target \in Targets /\ target \subseteq Nat /\ \A n \in DOMAIN plan : plan[n] \in Nat
        /\ before.folder \in [Task -> Nat] /\ before.chat \in [ref : Nat, edited : BOOLEAN]
    BY MergeAssumption DEF MergeInv, Shapes, Contents
  <2>3. ASSUME NEW t \in Task, t # BaseTask, folder[t] \in target PROVE FALSE
    <3>1. folder[t] = Destination(before.folder[t]) /\ before.folder[t] \in Nat
      BY <2>1, <2>2 DEF FoldersMoved
    <3>2. CASE before.folder[t] \in DOMAIN plan
      <4>1. plan[before.folder[t]] > folder[t] /\ folder[t] \in Nat
        BY <2>1, <2>2, <2>3, <3>2 DEF PlanRight
      <4>2. NewNumber(before.folder[t]) > folder[t] /\ NewNumber(before.folder[t]) = folder[t]
        BY <2>2, <3>1, <3>2, <4>1, NamedBehind DEF Destination
      <4>3. QED
        BY <4>1, <4>2
    <3>3. CASE before.folder[t] \notin DOMAIN plan
      BY <2>1, <2>3, <3>1, <3>3 DEF Destination, PlanRight
    <3>4. QED
      BY <3>2, <3>3
  <2>4. ASSUME NEW t \in Task, Wide(before.folder[t]) \/ before.folder[t] \notin DOMAIN plan
        PROVE  Agreed(t)
    <3>1. before.folder[t] \in Nat /\ folder[t] = Destination(before.folder[t])
      BY <2>1, <2>2 DEF FoldersMoved
    <3>2. /\ Rewritten(before.folder[t], TRUE) = folder[t]
          /\ Rewritten(before.folder[t], FALSE) = folder[t]
          /\ Rewritten(before.folder[t], t \in Padded) = folder[t]
      BY <2>4, <3>1 DEF Rewritten, Destination, NewNumber, Wide
    <3>3. title[t] = folder[t]
      BY <2>1, <3>2 DEF DocsMoved
    <3>4. ASSUME NEW u \in Task, About[u] = t PROVE mention[u] = folder[t]
      <4>1. before.mention[u] = before.folder[t]
        BY <2>1, <3>4 DEF Consistent
      <4>2. mention[u] = Rewritten(before.folder[t], t \in Padded)
        BY <2>1, <3>4, <4>1 DEF DocsMoved, MentionRewritten
      <4>3. QED
        BY <3>2, <4>2
    <3>5. ASSUME ChatAbout = t PROVE chat.ref = folder[t]
      <4>1. before.chat.ref = before.folder[t]
        BY <2>1, <3>5 DEF Consistent
      <4>2. chat.ref = Rewritten(before.folder[t], t \in Padded)
        BY <2>1, <2>2, <3>5, <4>1 DEF ChatMoved, ChatRewritten
      <4>3. QED
        BY <3>2, <4>2
    <3>6. ASSUME NEW s \in Session, before.cache[s] = before.folder[t] PROVE cache[s] = folder[t]
      BY <2>1, <3>2, <3>6 DEF CachesMoved
    <3>7. QED
      BY <3>3, <3>4, <3>5, <3>6 DEF Agreed
  <2>5. QED
    BY <2>1, <2>3, <2>4
<1>2. ASSUME merge = "refused"
      PROVE  [Content EXCEPT !.chat = before.chat] = before /\ (chat = before.chat \/ chat.edited)
  <2>1. /\ folder = before.folder /\ DocsKept /\ CachesKept
        /\ chat = before.chat \/ chat.edited
    BY <1>2 DEF MergeInv, Locked, Phase
  <2>2. QED
    BY <2>1 DEF MergeInv, Shapes, Contents, Content, DocsKept, CachesKept
<1>3. QED
  BY <1>1, <1>2 DEF MergeSound

\* A merge that is done has moved every colliding task, and with it every
\* place that names it when its number has three digits; a merge that is
\* refused has changed nothing and kept a person's edit: prepare-merge and
\* its rollback, for any number of tasks.
THEOREM MergeAlwaysSound == MergeSpec => []MergeSound
<1>1. MergeInit => MergeInv
  BY MergeStarts
<1>2. MergeInv /\ [MergeNext]_mergeVars => MergeInv'
  BY MergeStep
<1>3. MergeInv => MergeSound
  BY MergeInvSound
<1>4. QED
  BY <1>1, <1>2, <1>3, PTL DEF MergeSpec

---------------------------------------------------------------------------
(* Type correctness                                                        *)

MergeRest ==
    /\ claimed \subseteq Task
    /\ merge \in MergeSteps \cup {"idle", "planned", "locked", "fail", "done", "refused", "killed"}
    /\ DOMAIN plan \subseteq Number

LEMMA MergeRestKept == ASSUME MergeInv, MergeRest, [MergeNext]_mergeVars PROVE MergeRest'
<1> USE DEF MergeRest, MergeSteps
<1>1. CASE PlanMerge
  <2>1. Collisions \subseteq Number
    BY MergeAssumption DEF Collisions, MergeInv, Shapes
  <2>2. DOMAIN plan' = Collisions
    BY <1>1 DEF PlanMerge
  <2>3. QED
    BY <1>1, <2>1, <2>2 DEF PlanMerge
<1>2. ASSUME NEW t \in Task, MoveFolder(t) \/ WriteDocument(t) PROVE MergeRest'
  BY <1>2 DEF MoveFolder, WriteDocument, StepOf
<1>3. ASSUME NEW s \in Session, NEW t \in Task, ClaimTask(s, t) PROVE MergeRest'
  BY <1>3 DEF ClaimTask
<1>4. ASSUME NEW s \in Session, WriteCache(s) \/ DropOffset(s) PROVE MergeRest'
  BY <1>4 DEF WriteCache, DropOffset, StepOf
<1>5. CASE EndStep
  BY <1>5 DEF EndStep, NextStep
<1>6. CASE LockAndRead \/ RefuseMerge \/ BeginMerge \/ CheckChat \/ WriteChat \/ StepFails \/ RollBack
           \/ EditChat \/ MergeKilled
  BY <1>6 DEF LockAndRead, RefuseMerge, BeginMerge, CheckChat, WriteChat, StepFails, RollBack, EditChat,
              MergeKilled
<1>7. CASE UNCHANGED mergeVars
  BY <1>7 DEF mergeVars
<1>8. QED
  BY <1>1, <1>2, <1>3, <1>4, <1>5, <1>6, <1>7 DEF MergeNext

\* The variables of the merge have their types.
THEOREM MergeTypes == MergeSpec => []MergeTypeOK
<1>1. MergeInit => MergeInv /\ MergeRest
  BY MergeStarts DEF MergeInit, MergeRest
<1>2. MergeInv /\ MergeRest /\ [MergeNext]_mergeVars => (MergeInv /\ MergeRest)'
  BY MergeStep, MergeRestKept
<1>3. MergeInv /\ MergeRest => MergeTypeOK
  BY DEF MergeInv, MergeRest, MergeTypeOK, Shapes, Content, Contents
<1>4. QED
  BY <1>1, <1>2, <1>3, PTL DEF MergeSpec
=============================================================================
