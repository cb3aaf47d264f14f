-------------------------- MODULE MCFrameCorrection --------------------------
EXTENDS FrameCorrection
\* Every configuration; the options of the path not taken are fixed.
AllModes == {m \in Mode : m.combined => ~m.afterLio /\ ~m.vio /\ ~m.diag}
==============================================================================
