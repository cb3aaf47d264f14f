----------------------------- MODULE MCEvoMatch ------------------------------
EXTENDS EvoMatch
==============================================================================
