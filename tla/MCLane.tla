------------------------------- MODULE MCLane -------------------------------
(* Small instances of LaneControl for TLC. *)
EXTENDS LaneControl, TLC

CONSTANTS b1, b2, k1, k2, c1, c2, claude, codex

OneBody == {b1}
TwoBodies == {b1, b2}
OneKey == {k1}
TwoKeys == {k1, k2}
OneController == {c1}
TwoControllers == {c1, c2}
OneProvider == {claude}
TwoProviders == {claude, codex}
SameProvider == [k \in Key |-> claude]
OneEach == [k \in Key |-> IF k = k1 THEN claude ELSE codex]
AllJobs == {"start", "swap", "stop", "destroy", "resume"}
NoResume == AllJobs \ {"resume"}
StopOnly == {"start", "stop"}
ControllerSymmetry == Permutations(Controller)
BodySymmetry == Permutations(Body)
=============================================================================
