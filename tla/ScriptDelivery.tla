--------------------------- MODULE ScriptDelivery ---------------------------
(* What an arena campaign promises, without its files and processes: the    *)
(* messages of a script reach the worker of a run in order, one at a time   *)
(* and each at most once; a run that is closed gets no more of them; a      *)
(* campaign is reported when all its runs are closed.                       *)
EXTENDS Integers, Sequences

CONSTANTS Run, NumEvents

VARIABLES
    typed,     \* messages typed into the terminal of a run's worker, in order
    settled,   \* number of messages of a run acknowledged or given up
    closed,    \* the runs that ended with all their evidence
    reported

dvars == <<typed, settled, closed, reported>>

Init ==
    /\ typed = [r \in Run |-> <<>>]
    /\ settled = [r \in Run |-> 0]
    /\ closed = {}
    /\ reported = FALSE

\* The next message is sent once the one before it is settled.
Deliver(r) ==
    /\ r \notin closed
    /\ settled[r] = Len(typed[r])
    /\ settled[r] < NumEvents
    /\ typed' = [typed EXCEPT ![r] = Append(@, settled[r] + 1)]
    /\ UNCHANGED <<settled, closed, reported>>

Settle(r) ==
    /\ r \notin closed
    /\ settled[r] < Len(typed[r])
    /\ settled' = [settled EXCEPT ![r] = @ + 1]
    /\ UNCHANGED <<typed, closed, reported>>

Close(r) ==
    /\ r \notin closed
    /\ closed' = closed \cup {r}
    /\ UNCHANGED <<typed, settled, reported>>

Report ==
    /\ closed = Run
    /\ reported' = TRUE
    /\ UNCHANGED <<typed, settled, closed>>

Next ==
    \/ \E r \in Run : Deliver(r) \/ Settle(r) \/ Close(r)
    \/ Report

Spec == Init /\ [][Next]_dvars
=============================================================================
