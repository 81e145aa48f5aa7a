-------------------------- MODULE MCAnswerAdmission --------------------------
EXTENDS AnswerAdmission, TLC

CONSTANTS r1, r2, r3, r4
=============================================================================
