-------------------------- MODULE MCMemoryAnswerTask --------------------------
(* Two processes, one of which serves only Personal tasks, and one Team.     *)
EXTENDS MemoryAnswerTask, TLC

CONSTANTS t1, t2, worker, desktop, team, key

MCTeamsOf == (worker :> {team}) @@ (desktop :> {})
Symmetry == Permutations({t1, t2})

=============================================================================
