------------------------------ MODULE MCArena -------------------------------
(* Small instances of ArenaRun for TLC.                                     *)
EXTENDS ArenaRun, TLC

CONSTANTS p1, p2, r1, r2

OneCoord == {p1}
TwoCoords == {p1, p2}
OneRun == {r1}
TwoRuns == {r1, r2}
InOrder == IF r2 \in Run THEN <<r1, r2>> ELSE <<r1>>
SkipThenFail == [i \in 1..NumEvents |-> IF i = 1 THEN "skip" ELSE "fail"]
SkipThenStop == [i \in 1..NumEvents |-> IF i = 1 THEN "skip" ELSE "stop"]
LastAfterExit == {NumEvents} \ {1}
NoneAfterExit == {}
OneCheck == <<"unit">>
NoCheck == <<>>
OneJudge == <<"blind">>
=============================================================================
