--------------------------- MODULE ExclusiveExecution ---------------------------
(***************************************************************************)
(* What handing a Conversation on promises, without leases, commands or    *)
(* handoffs: one device at a time may write, the device that owned it last *)
(* hands it on, nobody writes while that happens, and the lineage of the   *)
(* owners is only ever extended.  A device that lost its place stays out   *)
(* unless the Conversation is handed back to it.                           *)
(***************************************************************************)
EXTENDS Naturals, Sequences

CONSTANTS Machines, Origin

VARIABLES lineage,  \* the owners, generation by generation
          writers   \* the devices on which a turn is running

vars == <<lineage, writers>>

Owner == lineage[Len(lineage)]

Init == lineage = <<Origin>> /\ writers = {}

Begin == writers' = writers \cup {Owner} /\ UNCHANGED lineage

Finish == \E d \in writers : writers' = writers \ {d} /\ UNCHANGED lineage

HandOver ==
  /\ writers = {}
  /\ \E d \in Machines \ {Owner} : lineage' = Append(lineage, d)
  /\ UNCHANGED writers

Next == Begin \/ Finish \/ HandOver

Spec == Init /\ [][Next]_vars

=============================================================================
