------------------------------ MODULE MCMerge ------------------------------
(* A small instance of MergeTasks by itself, with task numbers of two and  *)
(* of three digits.                                                        *)
EXTENDS MergeTasks, TLC

CONSTANTS t1, t2, t3, c1

ThreeTasks == {t1, t2, t3}
OneCache == {c1}
InACircle == (t1 :> t2) @@ (t2 :> t3) @@ (t3 :> t1)
OneCircled == {t3}
FourNumbers == 98 .. 101
TargetNumbers == {{98}, {98, 99}, {98, 99, 100}}

Spec == MergeInit /\ [][MergeNext]_mergeVars
=============================================================================
