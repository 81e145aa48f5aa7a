----------------------- MODULE MCMemoryAnswerScheduler -----------------------
(* Runtime processes with the credentials of one owner.                        *)
EXTENDS MemoryAnswerScheduler

CONSTANTS p1, p2, t1, t2, team

MCTeamsOf == [a \in Actors |-> Teams]

=============================================================================
