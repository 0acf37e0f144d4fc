--------------------------- MODULE MCRunCompletion ---------------------------
EXTENDS RunCompletion
=============================================================================
