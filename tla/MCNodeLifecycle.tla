--------------------------- MODULE MCNodeLifecycle ---------------------------
EXTENDS NodeLifecycle
==============================================================================
