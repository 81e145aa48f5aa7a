--------------------------- MODULE MemoryAnswerTask ---------------------------
(***************************************************************************)
(* The rows of memory_answer_tasks for one owner, and the transactions of  *)
(* packages/db/src/memory-answer-task-repository.ts on them.  Every        *)
(* repository call is one PostgreSQL transaction that locks the rows it    *)
(* writes, so every call is one action.  What is concurrent is the set of  *)
(* processes that make the calls: each holds the claims it was once handed *)
(* and may use any of them, at any time, however old it is.                *)
(*                                                                         *)
(* Time is abstracted to what the code compares with a clock: a lease is   *)
(* live or has lapsed, a retry delay is over or not, a row is past its     *)
(* retention or not.                                                       *)
(***************************************************************************)
EXTENDS Integers, FiniteSets

CONSTANTS
  Tasks,           \* task ids, used at most once each
  Actors,          \* processes calling the repository, each one lease owner
  PersonalActors,  \* those whose credential has allowPersonal
  Teams,           \* Team Workspaces
  TeamsOf,         \* TeamsOf[a]: the Teams the credential of a reaches
  Keys,            \* (origin, invocation_key) pairs
  NoKey,           \* an acceptance without an invocation key
  Personal,        \* the scope of a task with no Team Workspace
  Nobody,          \* lease_owner is null
  MaxAttempts,     \* max_attempts
  MaxQueued,       \* the configured backlog bound
  ClaimBudget,     \* candidates one claim call may examine (16 in the code)
  MaxRenewals      \* bound: heartbeats an attempt makes before its hard timeout

ASSUME TaskAssumption == IsFiniteSet(Tasks)
ASSUME ScopeAssumption ==
  /\ PersonalActors \subseteq Actors
  /\ TeamsOf \in [Actors -> SUBSET Teams]
  /\ Personal \notin Teams
  /\ Nobody \notin Actors
  /\ NoKey \notin Keys
ASSUME BoundAssumption ==
  /\ MaxAttempts \in Nat \ {0}
  /\ MaxQueued \in Nat \ {0}
  /\ ClaimBudget \in Nat \ {0}
  /\ MaxRenewals \in Nat

VARIABLES
  row,      \* row[t]: the columns of task t that the transactions read
  revoked,  \* tasks whose frozen Team authority no longer matches
  claims,   \* every lease ever handed to a process
  answer,   \* answer[t]: fence under which t's final question was written
  renewals  \* renewals[t]: heartbeats of the current attempt

vars == <<row, revoked, claims, answer, renewals>>

Statuses == {"absent", "accepted", "running", "cancel_requested",
             "completed", "failed", "cancelled", "deleted"}
Terminal == {"completed", "failed", "cancelled"}
Leased == {"running", "cancel_requested"}
Open == {"accepted"} \cup Leased

Scopes == Teams \cup {Personal}

Rows == [status : Statuses, key : Keys \cup {NoKey}, scope : Scopes,
         attempt : 0..MaxAttempts, fence : Nat, owner : Actors \cup {Nobody},
         live : BOOLEAN, due : BOOLEAN, cancelAsked : BOOLEAN,
         expired : BOOLEAN]

Claims == [task : Tasks, owner : Actors, fence : Nat]

EmptyRow(status) ==
  [status |-> status, key |-> NoKey, scope |-> Personal, attempt |-> 0,
   fence |-> 0, owner |-> Nobody, live |-> FALSE, due |-> FALSE,
   cancelAsked |-> FALSE, expired |-> FALSE]

Init ==
  /\ row = [t \in Tasks |-> EmptyRow("absent")]
  /\ revoked = {}
  /\ claims = {}
  /\ answer = [t \in Tasks |-> 0]
  /\ renewals = [t \in Tasks |-> 0]

-----------------------------------------------------------------------------
(* Authority *)

Present(t) == row[t].status \notin {"absent", "deleted"}

\* A credential reaches Personal tasks, or the Teams inside its boundary.
Reaches(a, scope) ==
  IF scope = Personal THEN a \in PersonalActors ELSE scope \in TeamsOf[a]

\* Mutant: the scope is checked, the frozen Team authority is not.
AuthorizedByScope(a, t) == Reaches(a, row[t].scope)

\* assertAuthority: in scope, and the Team authority frozen at acceptance is
\* still exactly the current one.
Authorized(a, t) == Reaches(a, row[t].scope) /\ t \notin revoked

-----------------------------------------------------------------------------
(* Acceptance *)

Accepted == {t \in Tasks : row[t].status = "accepted"}

NewRow(k, s) ==
  [EmptyRow("accepted") EXCEPT !.key = k, !.scope = s, !.due = TRUE]

\* The owner's users row is locked first, so the key lookup, the count and
\* the insert are one step.  A repeated invocation returns the existing row,
\* and a full queue is refused: both leave the state alone.
Accept(a, t, k, s) ==
  /\ row[t].status = "absent"
  /\ Reaches(a, s)
  /\ k # NoKey => \A u \in Tasks : Present(u) => row[u].key # k
  /\ Cardinality(Accepted) < MaxQueued
  /\ row' = [row EXCEPT ![t] = NewRow(k, s)]
  /\ UNCHANGED <<revoked, claims, answer, renewals>>

-----------------------------------------------------------------------------
(* Claiming *)

\* The candidate query of a claim for one scope filter.
Eligible(a, t, team) ==
  LET r == row[t] IN
  /\ Reaches(a, r.scope)
  /\ (r.scope # Personal) = team
  /\ \/ r.status = "accepted" /\ r.due
     \/ r.status = "cancel_requested" /\ ~r.live
     \/ /\ r.status = "running" /\ ~r.live
        /\ r.due \/ r.attempt >= MaxAttempts

Settled(r, status) ==
  [r EXCEPT !.status = status, !.owner = Nobody, !.live = FALSE]

\* retireDeniedTask: also moves the fence, and ends as asked by the caller.
Retired(r, status) ==
  [Settled(r, status) EXCEPT !.fence = r.fence + 1,
                             !.cancelAsked = @ \/ status = "cancelled"]

\* Mutant: the attempt budget is not checked.
MustReconcileEndless(t) == t \in revoked \/ row[t].status = "cancel_requested"

\* A candidate the claim loop settles instead of handing out.
MustReconcile(t) ==
  \/ t \in revoked
  \/ row[t].status = "cancel_requested"
  \/ row[t].attempt >= MaxAttempts

Reconciled(t) ==
  IF t \in revoked THEN Retired(row[t], "failed")
  ELSE IF row[t].status = "cancel_requested" THEN Settled(row[t], "cancelled")
  ELSE Settled(row[t], "failed")

\* Mutant: the claim counts no attempt.
TakenUncounted(a, r) ==
  [r EXCEPT !.status = "running", !.owner = a, !.live = TRUE, !.fence = @ + 1]

Taken(a, r) ==
  [r EXCEPT !.status = "running", !.owner = a, !.live = TRUE,
            !.fence = @ + 1, !.attempt = @ + 1]

\* One claim call settles some of the candidates (rows locked by another
\* transaction are skipped, so not always the oldest ones) and then takes at
\* most one; it stops at the one it takes.  A call whose request payload does
\* not decrypt rolls back as a whole and changes nothing.
Claim(a, team) ==
  \E settle \in SUBSET {t \in Tasks : Eligible(a, t, team) /\ MustReconcile(t)},
     take \in SUBSET {t \in Tasks : Eligible(a, t, team) /\ ~MustReconcile(t)} :
    /\ settle \cup take # {}
    /\ \A t, u \in take : t = u
    /\ Cardinality(settle \cup take) <= ClaimBudget
    /\ row' = [t \in Tasks |->
                 IF t \in settle THEN Reconciled(t)
                 ELSE IF t \in take THEN Taken(a, row[t])
                 ELSE row[t]]
    /\ claims' = claims \cup
         {[task |-> t, owner |-> a, fence |-> row[t].fence + 1] : t \in take}
    /\ renewals' = [t \in Tasks |-> IF t \in take THEN 0 ELSE renewals[t]]
    /\ UNCHANGED <<revoked, answer>>

-----------------------------------------------------------------------------
(* What the holder of a claim may do, while the row still carries its fence *)

\* Mutant: any fence will do.
HoldsAnyFence(c) == row[c.task].live

\* lease_owner, fence_generation and lease_until >= clock_timestamp().
Holds(c) ==
  /\ row[c.task].owner = c.owner
  /\ row[c.task].fence = c.fence
  /\ row[c.task].live

Heartbeat(c) ==
  /\ Authorized(c.owner, c.task)
  /\ Holds(c)
  /\ row[c.task].status \in Leased
  /\ renewals[c.task] < MaxRenewals
  /\ row' = [row EXCEPT ![c.task].live = TRUE]
  /\ renewals' = [renewals EXCEPT ![c.task] = @ + 1]
  /\ UNCHANGED <<revoked, claims, answer>>

\* The final Memory Question, the result and the status are one transaction.
Complete(c) ==
  /\ Authorized(c.owner, c.task)
  /\ Holds(c)
  /\ row[c.task].status = "running"
  /\ row' = [row EXCEPT ![c.task] = Settled(@, "completed")]
  /\ answer' = [answer EXCEPT ![c.task] = c.fence]
  /\ UNCHANGED <<revoked, claims, renewals>>

\* Mutant: the retry budget before the recorded cancellation.
FailedRetrying(r, retry) ==
  IF retry /\ r.attempt < MaxAttempts
    THEN [Settled(r, "accepted") EXCEPT !.due = FALSE]
  ELSE Settled(r, "failed")

\* A failure honours a recorded cancellation first, then the retry budget.
Failed(r, retry) ==
  IF r.status = "cancel_requested" THEN Settled(r, "cancelled")
  ELSE IF retry /\ r.attempt < MaxAttempts
    THEN [Settled(r, "accepted") EXCEPT !.due = FALSE]
  ELSE Settled(r, "failed")

Fail(c, retry) ==
  /\ Authorized(c.owner, c.task)
  /\ Holds(c)
  /\ row[c.task].status \in Leased
  /\ row' = [row EXCEPT ![c.task] = Failed(@, retry)]
  /\ UNCHANGED <<revoked, claims, answer, renewals>>

-----------------------------------------------------------------------------
(* The owner's cancellation, and retention *)

CancelStatus(status) ==
  IF status = "accepted" THEN "cancelled" ELSE "cancel_requested"

\* withOwnedTask(..., cancelDeniedTeam = true): a task whose Team authority
\* is gone is retired as cancelled; a settled task is only read.
Cancel(a, t) ==
  /\ row[t].status \in Open
  /\ Reaches(a, row[t].scope)
  /\ IF t \in revoked
     THEN row' = [row EXCEPT ![t] = Retired(@, "cancelled")]
     ELSE /\ row[t].status \in {"accepted", "running"}
          /\ row' = [row EXCEPT ![t] = [row[t] EXCEPT !.status = CancelStatus(@), !.cancelAsked = TRUE]]
  /\ UNCHANGED <<revoked, claims, answer, renewals>>

DeletableBy(a) ==
  {t \in Tasks : /\ row[t].status \in Terminal /\ row[t].expired
                 /\ Reaches(a, row[t].scope)}

DeleteExpired(a) ==
  /\ DeletableBy(a) # {}
  /\ row' = [t \in Tasks |-> IF t \in DeletableBy(a)
                             THEN EmptyRow("deleted") ELSE row[t]]
  /\ UNCHANGED <<revoked, claims, answer, renewals>>

-----------------------------------------------------------------------------
(* The environment: clocks, and Team administration *)

LeaseLapses(t) ==
  /\ row[t].live
  /\ row' = [row EXCEPT ![t].live = FALSE]
  /\ UNCHANGED <<revoked, claims, answer, renewals>>

DelayPasses(t) ==
  /\ row[t].status = "accepted" /\ ~row[t].due
  /\ row' = [row EXCEPT ![t].due = TRUE]
  /\ UNCHANGED <<revoked, claims, answer, renewals>>

RetentionPasses(t) ==
  /\ Present(t) /\ ~row[t].expired
  /\ row' = [row EXCEPT ![t].expired = TRUE]
  /\ UNCHANGED <<revoked, claims, answer, renewals>>

\* Any change of a grant, membership or policy the authority froze.  The
\* fingerprints hold versions and hashes, so they never match again.
RevokeTeam(m) ==
  /\ revoked' = revoked \cup {t \in Tasks : Present(t) /\ row[t].scope = m}
  /\ revoked' # revoked
  /\ UNCHANGED <<row, claims, answer, renewals>>

-----------------------------------------------------------------------------
Next ==
  \/ \E a \in Actors, t \in Tasks, k \in Keys \cup {NoKey}, s \in Scopes :
       Accept(a, t, k, s)
  \/ \E a \in Actors, team \in BOOLEAN : Claim(a, team)
  \/ \E c \in claims : Heartbeat(c)
  \/ \E c \in claims : Complete(c)
  \/ \E c \in claims, retry \in BOOLEAN : Fail(c, retry)
  \/ \E a \in Actors, t \in Tasks : Cancel(a, t)
  \/ \E a \in Actors : DeleteExpired(a)
  \/ \E t \in Tasks : LeaseLapses(t)
  \/ \E t \in Tasks : DelayPasses(t)
  \/ \E t \in Tasks : RetentionPasses(t)
  \/ \E m \in Teams : RevokeTeam(m)

Spec == Init /\ [][Next]_vars

-----------------------------------------------------------------------------
(* Properties *)

\* The types of all variables; no row counts more attempts than max_attempts,
\* which the claim query alone does not ensure.
TypeOK ==
  /\ row \in [Tasks -> Rows]
  /\ revoked \subseteq Tasks
  /\ claims \subseteq Claims
  /\ answer \in [Tasks -> Nat]
  /\ renewals \in [Tasks -> 0..MaxRenewals]

\* Two claims of the same task never carry the same fence, whoever holds
\* them, and none is ahead of its row: at most one process can still write
\* to a task, the one that was handed it last.
Fencing ==
  /\ \A c, d \in claims : c.task = d.task /\ c.fence = d.fence => c = d
  /\ \A c \in claims : /\ row[c.task].status # "absent"
                       /\ Present(c.task) => c.fence \in 1..row[c.task].fence

\* The final question was written by the newest claim of its task: no
\* process was handed the task after, or instead of, the one that answered.
AnsweredByNewestClaim ==
  \A t \in Tasks : answer[t] # 0 =>
    /\ row[t].status \in {"completed", "deleted"}
    /\ \E c \in claims : c.task = t /\ c.fence = answer[t]
    /\ \A c \in claims : c.task = t => c.fence <= answer[t]

\* A recorded cancellation is never lost: no retry, takeover or late result
\* turns the task back into work or into an answer.
CancellationSticks ==
  \A t \in Tasks : row[t].cancelAsked =>
    /\ row[t].status \in {"cancel_requested", "cancelled", "failed"}
    /\ answer[t] = 0

\* A task is handed out once per attempt, and never beyond its budget, even
\* when every attempt dies without reporting.
AttemptsAreClaims ==
  \A t \in Tasks : Present(t) =>
    Cardinality({c \in claims : c.task = t}) = row[t].attempt

\* A settled task only ever leaves by deletion: late heartbeats, results and
\* failures, cancellations and reconciliation leave it alone.
SettledStays ==
  [][\A t \in Tasks : row[t].status \in Terminal /\ row'[t].status # row[t].status
        => row'[t].status = "deleted"]_vars

\* A lapsed lease never comes back to life under the same fence.
LapsedLeaseStaysLapsed ==
  [][\A t \in Tasks : row[t].status \in Leased /\ ~row[t].live /\ row'[t].live
        => row'[t].fence > row[t].fence]_vars

\* After its Team authority is gone a task is not answered any more.
NoAnswerAfterRevocation ==
  [][\A t \in revoked : answer'[t] = answer[t]]_vars

-----------------------------------------------------------------------------
(* Refinement: the promise of each row *)

PhaseOf(status) ==
  CASE status = "absent" -> "none"
    [] status \in {"accepted", "running"} -> "open"
    [] status = "cancel_requested" -> "cancelling"
    [] status = "completed" -> "answered"
    [] status \in {"failed", "cancelled"} -> "closed"
    [] status = "deleted" -> "purged"

Promise ==
  INSTANCE AnswerLifecycle
    WITH Questions <- Tasks,
         phase <- [t \in Tasks |-> PhaseOf(row[t].status)],
         answered <- {t \in Tasks : answer[t] # 0}

\* The rows together keep the promise of AnswerLifecycle.
KeepsPromise == Promise!Spec

=============================================================================
