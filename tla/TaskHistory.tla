---------------------------- MODULE TaskHistory ----------------------------
(***************************************************************************)
(* TaskClaims with a memory: who was ever recorded in the ## Sessions of a *)
(* task, and whether the commands came in turn so far.  A Write applied    *)
(* late can take a session out of the document; it claimed the task all    *)
(* the same.                                                               *)
(***************************************************************************)
EXTENDS TaskClaims

VARIABLES
  claimants,   \* claimants[t]: the sessions once recorded in t's document
  orderly      \* TRUE while commands and edits came one after the other

hvars == <<vars, claimants, orderly>>

Recorded(d) == {d.sessions[i] : i \in 1..Len(d.sessions)}

\* No two folders have one number.
NumbersApart(f) ==
  \A t, u \in Task : f[t].number # 0 /\ f[t].number = f[u].number => t = u

\* One process runs at most, none was killed and none is forced.
InTurn ==
  /\ \A p, q \in Proc : proc[p].pc # "idle" /\ proc[q].pc # "idle" => p = q
  /\ crashes = 0
  /\ \A p \in Proc : ~proc[p].force

HInit ==
  /\ Init
  /\ claimants = [t \in Task |-> {}]
  /\ orderly = NumbersApart(folder)

Remember ==
  /\ claimants' = [t \in Task |-> claimants[t] \cup Recorded(doc'[t])]
  /\ orderly' = (orderly /\ InTurn')

\* Next, with Remember at each of its actions.
HNext ==
  \E p \in Proc :
    \/ Leave(p) /\ Remember
    \/ AutoClose(p) /\ Remember
    \/ ReadStub(p) /\ Remember
    \/ Expand(p) /\ Remember
    \/ Claim(p) /\ Remember
    \/ CacheTask(p) /\ Remember
    \/ ReleaseOld(p) /\ Remember
    \/ Validate(p) /\ Remember
    \/ CheckGates(p) /\ Remember
    \/ Complete(p) /\ Remember
    \/ ClearOwn(p) /\ Remember
    \/ MakeFolder(p) /\ Remember
    \/ ReadFreehand(p) /\ Remember
    \/ FillFreehand(p) /\ Remember
    \/ SpliceBlock(p) /\ Remember
    \/ ApplyEdit(p) /\ Remember
    \/ ApplyWrite(p) /\ Remember
    \/ Crash(p) /\ Remember
    \/ NewTask(p) /\ Remember
    \/ \E s \in Session :
         \/ \E n \in Numbers, from \in Named : Work(p, s, n, from) /\ Remember
         \/ WorkDone(p, s) /\ Remember
         \/ FreehandTask(p, s) /\ Remember
         \/ FreehandBlock(p, s) /\ Remember
         \/ AdmitEdit(p, s) /\ Remember
         \/ AdmitWrite(p, s) /\ Remember

HSpec == HInit /\ [][HNext]_hvars

HFairSpec == HSpec /\ Reruns

\* Whatever crashes, races, transfers or late edits there were, current_state
\* names only a task number that its session really claimed once.
CacheWasClaimed ==
  \A s \in Session : cache[s] # 0 => \E t \in Folders(cache[s]) : s \in claimants[t]

\* As long as work, work done, new, freehand and the admitted edits of all
\* sessions came one after the other, none killed and none forced, every
\* session owns one task in progress at most, and can finish it.
OwnersInTurn == orderly => FocusedSession /\ NeverStranded
=============================================================================
