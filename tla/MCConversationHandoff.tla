------------------------ MODULE MCConversationHandoff ------------------------
(* Three devices.  The first handoff goes to another one than d3, which is   *)
(* like d2 then; the second goes on to d3 or back to where it came from.     *)
EXTENDS ConversationHandoff

CONSTANTS d1, d2, d3

MCRoute == [h \in 1..MaxHandoffs |-> IF h = 1 THEN Devices \ {d3} ELSE Devices]
=============================================================================
