-------------------------- MODULE MCRuntimeOwnership --------------------------
EXTENDS RuntimeOwnership, TLC

CONSTANTS p1, p2, p3

\* The third life has the PID of the first.
MCPID == p1 :> 1 @@ p2 :> 2 @@ p3 :> 1
=============================================================================
