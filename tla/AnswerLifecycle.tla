--------------------------- MODULE AnswerLifecycle ---------------------------
(***************************************************************************)
(* What durable Memory Answers promise the client that asked for them,     *)
(* without leases, attempts or processes: a question is answered at most   *)
(* once, only while it is open, and a question whose cancellation was      *)
(* recorded is never answered.  One step may move several questions, since *)
(* one transaction of the implementation may settle or delete several.     *)
(***************************************************************************)

CONSTANT Questions

VARIABLES phase,    \* phase[q]: where question q stands
          answered  \* the questions for which a final answer was written

vars == <<phase, answered>>

Phases == {"none", "open", "cancelling", "answered", "closed", "purged"}

Init ==
  /\ phase = [q \in Questions |-> "none"]
  /\ answered = {}

Move(q, from, to) == phase[q] \in from /\ phase'[q] = to

Submit(q) == Move(q, {"none"}, "open")

Answer(q) == Move(q, {"open"}, "answered")

AskToCancel(q) == Move(q, {"open"}, "cancelling")

Close(q) == Move(q, {"open", "cancelling"}, "closed")

\* The record is dropped after its retention; the answer stays.
Purge(q) == Move(q, {"answered", "closed"}, "purged")

Change(q) == Submit(q) \/ Answer(q) \/ AskToCancel(q) \/ Close(q) \/ Purge(q)

Next ==
  /\ phase' \in [Questions -> Phases]
  /\ \A q \in Questions : phase'[q] = phase[q] \/ Change(q)
  /\ answered' = answered \cup {q \in Questions : Answer(q)}

Spec == Init /\ [][Next]_vars

=============================================================================
