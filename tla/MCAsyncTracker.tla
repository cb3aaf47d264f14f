--------------------------- MODULE MCAsyncTracker ---------------------------
(* Instances of AsyncTracker for TLC; the .cfg files give the bounds.      *)
EXTENDS AsyncTracker
=============================================================================
