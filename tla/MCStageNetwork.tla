--------------------------- MODULE MCStageNetwork ---------------------------
EXTENDS StageNetwork
=============================================================================
