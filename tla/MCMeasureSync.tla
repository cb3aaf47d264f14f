--------------------------- MODULE MCMeasureSync ----------------------------
(* Instances of MeasureSync for TLC; the .cfg files give the bounds.       *)
EXTENDS MeasureSync
=============================================================================
