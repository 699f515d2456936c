------------------------------ MODULE MCTasks ------------------------------
(* Small instances of TaskClaims for TLC.                                  *)
EXTENDS TaskClaims, TLC

CONSTANTS s1, s2, t1, t2, p1, p2

TwoSessions  == {s1, s2}
TwoTasks     == {t1, t2}
OneProc      == {p1}
TwoProcs     == {p1, p2}

FoundOne     == t1 :> 1
FoundTwo     == (t1 :> 1) @@ (t2 :> 2)
FoundNone    == <<>>
NoStub       == {}
OneStub      == {t1}
Unforced     == {FALSE}
Forced       == {TRUE}
EitherForce  == BOOLEAN

WorkAndGates == {"work", "edit", "freehand"}
WorkAndEdit  == {"work", "done", "edit", "write"}
NewToo       == {"work", "done", "write", "new"}

SessionSymmetry == Permutations(Proc) \cup Permutations(Session)
\* Where no task is there at first, tasks are alike too.
FullSymmetry == SessionSymmetry \cup Permutations(Task)
=============================================================================
