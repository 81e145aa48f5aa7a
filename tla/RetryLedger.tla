----------------------------- MODULE RetryLedger -----------------------------
(***************************************************************************)
(* What a work queue with retries promises those who enqueue jobs, without *)
(* rows, leases, locks or processes' states: an owed job is done only by   *)
(* the one worker it was last given to, is given up only when that worker  *)
(* refuses it or all its attempts were lost, and is charged for lost and   *)
(* reported attempts alone.  One step may move several jobs, since one     *)
(* statement of the implementation may requeue several.                    *)
(***************************************************************************)
EXTENDS Naturals

CONSTANTS Jobs, Workers,
          Limit  \* attempts a job is given

VARIABLES phase,    \* phase[j]: where job j stands
          charged,  \* charged[j]: attempts j was charged for since it was asked for
          holders   \* holders[j]: the workers whose report on j would count

vars == <<phase, charged, holders>>

Phases == {"none", "waiting", "running", "done", "abandoned"}

Init ==
  /\ phase = [j \in Jobs |-> "none"]
  /\ charged = [j \in Jobs |-> 0]
  /\ holders = [j \in Jobs |-> {}]

Move(j, from, to) == phase[j] \in from /\ phase'[j] = to
Charge(j, n) == charged'[j] = charged[j] + n
Release(j) == holders'[j] = {}

Request(j) ==
  Move(j, {"none", "done", "abandoned"}, "waiting") /\ charged'[j] = 0 /\ Release(j)

\* At most one worker learns that it was given the job.
Take(j) ==
  /\ Move(j, {"waiting"}, "running") /\ charged[j] < Limit /\ Charge(j, 0)
  /\ \A v, w \in holders'[j] : v = w

\* The worker is gone, or has spoken and was not heard.
Orphan(j) ==
  Move(j, {"running"}, "running") /\ Charge(j, 0) /\ holders'[j] \subseteq holders[j]

\* The attempt is taken back, and not charged.
Return(j) == Move(j, {"running"}, "waiting") /\ Charge(j, 0) /\ Release(j)

\* The attempt ran out of time or failed; the last one is not repeated.
Lose(j) ==
  /\ Move(j, {"running"}, IF charged[j] + 1 < Limit THEN "waiting" ELSE "abandoned")
  /\ Charge(j, 1) /\ Release(j)

\* The worker's own word ends the job, for good or for bad.
Settle(j) ==
  /\ holders[j] # {}
  /\ Move(j, {"running"}, "done") \/ Move(j, {"running"}, "abandoned")
  /\ Charge(j, 1) /\ Release(j)

Change(j) ==
  Request(j) \/ Take(j) \/ Orphan(j) \/ Return(j) \/ Lose(j) \/ Settle(j)

Stay(j) ==
  phase'[j] = phase[j] /\ charged'[j] = charged[j] /\ holders'[j] = holders[j]

Next ==
  /\ phase' \in [Jobs -> Phases]
  /\ charged' \in [Jobs -> 0..Limit]
  /\ holders' \in [Jobs -> SUBSET Workers]
  /\ \A j \in Jobs : Stay(j) \/ Change(j)

Spec == Init /\ [][Next]_vars

=============================================================================
