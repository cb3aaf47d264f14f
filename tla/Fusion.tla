-------------------------------- MODULE Fusion --------------------------------
(***************************************************************************)
(* What the per-frame estimator promises, seen from outside: the belief    *)
(* (mean and covariance) is a set of pieces of evidence, one per sensor    *)
(* and frame, and every frame adds to it, in one step, this frame's LiDAR  *)
(* evidence, this frame's visual evidence, both or neither -- never older  *)
(* evidence again, and never by giving up any it had.                      *)
(***************************************************************************)
EXTENDS Naturals

VARIABLES done,     \* frames finished
          fused     \* the <<sensor, frame>> pairs the belief rests on

vars == <<done, fused>>

Sensors == {"lio", "vio"}

Init == done = 0 /\ fused = {}

Fuse ==
  /\ done' = done + 1
  /\ \E used \in SUBSET Sensors : fused' = fused \cup (used \X {done + 1})

Next == Fuse

Spec == Init /\ [][Next]_vars
===============================================================================
