--------------------------- MODULE MCLocalWorkQueue ---------------------------
EXTENDS LocalWorkQueue

CONSTANTS j1, j2, w1, w2
=============================================================================
