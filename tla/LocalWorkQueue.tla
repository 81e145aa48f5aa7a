---------------------------- MODULE LocalWorkQueue ----------------------------
(***************************************************************************)
(* packages/db/src/local-work-queue-repository.ts and the local backend of *)
(* apps/worker/src/queue.ts: the Postgres work queue of the Worker.        *)
(*                                                                         *)
(* A runtime is one Worker process.  It holds a session advisory lock,     *)
(* requeues the jobs a previous runtime left active, and then polls one    *)
(* queue sequentially: claim, run the handler, report.  Every repository   *)
(* call is one SQL statement, so one atomic step whose response may be     *)
(* lost.  The database may end the session that holds the lock while its   *)
(* process is still running.                                               *)
(*                                                                         *)
(* The order of claims (priority, age, id) is left out: rows locked by     *)
(* other statements are skipped, so a claim may take any available job.    *)
(***************************************************************************)
EXTENDS Integers

CONSTANTS
  Jobs,         \* job keys of one queue
  Runtimes,     \* Worker processes
  MaxAttempts,  \* max_attempts of every job
  MaxEnqueues,  \* bound: enqueues that create or reset a row
  MaxStops,     \* bound: closes, deaths and failed starts of runtimes
  MaxSplits,    \* bound: lock sessions that end before their process does
  None          \* no runtime, no job

ASSUME WorkQueueAssumption ==
  /\ MaxAttempts \in Nat \ {0}
  /\ MaxEnqueues \in Nat /\ MaxStops \in Nat /\ MaxSplits \in Nat
  /\ None \notin Runtimes

VARIABLES
  rows,     \* rows[j]: the row of local_work_queue
  issued,   \* issued[j]: claims of j so far; numbers the lock tokens
  spent,    \* spent[j]: attempts since j was enqueued that ended in a report
            \* or a lapsed lease (a history variable)
  lock,     \* the runtime whose session holds the advisory lock
  runtime,  \* runtime[w]: "down", "recovering", "polling", "draining"
  hand,     \* hand[w]: the claim w works on
  enqueues, stops, splits

vars == <<rows, issued, spent, lock, runtime, hand, enqueues, stops, splits>>
queueVars == <<rows, issued, spent, enqueues>>
runtimeVars == <<lock, runtime, stops, splits>>

Statuses == {"absent", "pending", "active", "completed", "failed"}

\* `available` stands for available_at <= now, `lapsed` for locked_until <= now.
Row(status, attempts, token, available) ==
  [status |-> status, attempts |-> attempts, token |-> token,
   available |-> available, lapsed |-> FALSE]

Idle == [job |-> None, token |-> 0, attempt |-> 0, step |-> "idle"]

Init ==
  /\ rows = [j \in Jobs |-> Row("absent", 0, 0, FALSE)]
  /\ issued = [j \in Jobs |-> 0] /\ spent = [j \in Jobs |-> 0]
  /\ lock = None
  /\ runtime = [w \in Runtimes |-> "down"]
  /\ hand = [w \in Runtimes |-> Idle]
  /\ enqueues = 0 /\ stops = 0 /\ splits = 0

-----------------------------------------------------------------------------
\* enqueue(): a new row, or a settled row made new.  A pending or active row
\* is left as it is, the enqueue is coalesced with it.
Enqueue(j) ==
  /\ rows[j].status \in {"absent", "completed", "failed"}
  /\ enqueues < MaxEnqueues /\ enqueues' = enqueues + 1
  /\ rows' = [rows EXCEPT ![j] = Row("pending", 0, 0, TRUE)]
  /\ spent' = [spent EXCEPT ![j] = 0]
  /\ UNCHANGED <<issued, hand, runtimeVars>>

\* Time passes: a retry becomes available, a lease runs out.
BackoffElapses(j) ==
  /\ rows[j].status = "pending" /\ ~rows[j].available
  /\ rows' = [rows EXCEPT ![j].available = TRUE]
  /\ UNCHANGED <<issued, spent, enqueues, hand, runtimeVars>>

LeaseLapses(j) ==
  /\ rows[j].status = "active" /\ ~rows[j].lapsed
  /\ rows' = [rows EXCEPT ![j].lapsed = TRUE]
  /\ UNCHANGED <<issued, spent, enqueues, hand, runtimeVars>>

\* Mutant: the rows out of attempts are not swept.
SweptRetryable(r) ==
  IF ~(r.status = "active" /\ r.lapsed) \/ r.attempts >= MaxAttempts THEN r
  ELSE Row("pending", r.attempts, 0, r.available)

\* Mutant: the last attempt is not given.
SweptEarly(r) ==
  IF ~(r.status = "active" /\ r.lapsed) THEN r
  ELSE Row(IF r.attempts + 1 >= MaxAttempts THEN "failed" ELSE "pending",
           r.attempts, 0, r.available)

\* expired_failed, expired_pending: what a claim makes of a row it meets.
Swept(r) ==
  IF ~(r.status = "active" /\ r.lapsed) THEN r
  ELSE Row(IF r.attempts >= MaxAttempts THEN "failed" ELSE "pending",
           r.attempts, 0, r.available)

\* claim(): all parts of the statement see the rows as they were before it,
\* so a row it requeues is not a row it takes.
Claim(w) ==
  LET available == {j \in Jobs : rows[j].status = "pending" /\ rows[j].available}
      swept == [j \in Jobs |-> Swept(rows[j])]
  IN
  /\ runtime[w] = "polling" /\ hand[w].step = "idle"
  /\ spent' = [j \in Jobs |->
                 IF swept[j].status # rows[j].status THEN spent[j] + 1 ELSE spent[j]]
  /\ \/ /\ available = {}
        /\ rows' = swept
        /\ UNCHANGED <<issued, hand>>
     \/ \E j \in available, arrives \in BOOLEAN :
          LET attempt == rows[j].attempts + 1
              token == issued[j] + 1
          IN /\ rows' = [swept EXCEPT ![j] = Row("active", attempt, token, TRUE)]
             /\ issued' = [issued EXCEPT ![j] = token]
             /\ hand' = IF arrives
                        THEN [hand EXCEPT ![w] = [job |-> j, token |-> token,
                                attempt |-> attempt, step |-> "handling"]]
                        ELSE hand
  /\ UNCHANGED <<enqueues, runtimeVars>>

\* Mutant: complete and fail find their row by its id alone.
HeldById(w) == rows[hand[w].job].status # "absent"

\* where id = $1 and lock_token = $2 and status = 'active'
Held(w) ==
  /\ rows[hand[w].job].status = "active"
  /\ rows[hand[w].job].token = hand[w].token

\* complete(), after the handler returned.  When its response is an error the
\* attempt goes on as a failed one.
Complete(w) ==
  LET j == hand[w].job IN
  /\ hand[w].step = "handling"
  /\ \E commits, arrives \in BOOLEAN :
       /\ arrives => commits
       /\ IF commits /\ Held(w)
          THEN /\ rows' = [rows EXCEPT ![j] = Row("completed", @.attempts, 0, @.available)]
               /\ spent' = [spent EXCEPT ![j] = @ + 1]
          ELSE UNCHANGED <<rows, spent>>
       /\ hand' = [hand EXCEPT ![w] = IF arrives THEN Idle ELSE [@ EXCEPT !.step = "failing"]]
  /\ UNCHANGED <<issued, enqueues, runtimeVars>>

HandlerThrows(w) ==
  /\ hand[w].step = "handling"
  /\ hand' = [hand EXCEPT ![w].step = "failing"]
  /\ UNCHANGED <<queueVars, runtimeVars>>

\* Mutant: a transient error is retried whatever the number of the attempt.
RetryForever(w, transient) == transient

\* A transient error is retried while attempts are left.
Retry(w, transient) == transient /\ hand[w].attempt < MaxAttempts

\* fail(): a retry waits for its backoff.  An error of the call itself is
\* only logged, and leaves the row to its lease.
Fail(w) ==
  LET j == hand[w].job IN
  /\ hand[w].step = "failing"
  /\ \E commits, transient \in BOOLEAN :
       IF commits /\ Held(w)
       THEN /\ rows' = [rows EXCEPT ![j] =
                          IF Retry(w, transient) THEN Row("pending", @.attempts, 0, FALSE)
                          ELSE Row("failed", @.attempts, 0, @.available)]
            /\ spent' = [spent EXCEPT ![j] = @ + 1]
       ELSE UNCHANGED <<rows, spent>>
  /\ hand' = [hand EXCEPT ![w] = Idle]
  /\ UNCHANGED <<issued, enqueues, runtimeVars>>

-----------------------------------------------------------------------------
\* tryAcquireRuntimeLease(): a second runtime is refused and does not start.
Start(w) ==
  /\ runtime[w] = "down" /\ lock = None
  /\ lock' = w
  /\ runtime' = [runtime EXCEPT ![w] = "recovering"]
  /\ UNCHANGED <<hand, stops, splits, queueVars>>

\* requeueAbandonedJobs(), on the session that holds the lock.
Recover(w) ==
  /\ runtime[w] = "recovering" /\ lock = w
  /\ rows' = [j \in Jobs |->
                IF rows[j].status = "active"
                THEN Row("pending",
                         IF rows[j].attempts > 0 THEN rows[j].attempts - 1 ELSE 0, 0, TRUE)
                ELSE rows[j]]
  /\ runtime' = [runtime EXCEPT ![w] = "polling"]
  /\ UNCHANGED <<issued, spent, enqueues, hand, lock, stops, splits>>

Unlocked(w) == IF lock = w THEN None ELSE lock

\* The process dies, or its start fails and releases the lock: the session
\* ends and what was in memory is gone.
Die(w) ==
  /\ runtime[w] # "down"
  /\ stops < MaxStops /\ stops' = stops + 1
  /\ runtime' = [runtime EXCEPT ![w] = "down"]
  /\ hand' = [hand EXCEPT ![w] = Idle]
  /\ lock' = Unlocked(w)
  /\ UNCHANGED <<splits, queueVars>>

\* Mutant: close() releases the lock without awaiting the current job.
CloseEarly(w) ==
  /\ runtime[w] = "polling"
  /\ stops < MaxStops /\ stops' = stops + 1
  /\ runtime' = [runtime EXCEPT ![w] = "draining"]
  /\ lock' = Unlocked(w)
  /\ UNCHANGED <<hand, splits, queueVars>>

\* close(): no claim follows, the current job is awaited.
Close(w) ==
  /\ runtime[w] = "polling"
  /\ stops < MaxStops /\ stops' = stops + 1
  /\ runtime' = [runtime EXCEPT ![w] = "draining"]
  /\ UNCHANGED <<lock, hand, splits, queueVars>>

CloseReturns(w) ==
  /\ runtime[w] = "draining" /\ hand[w].step = "idle"
  /\ runtime' = [runtime EXCEPT ![w] = "down"]
  /\ lock' = Unlocked(w)
  /\ UNCHANGED <<hand, stops, splits, queueVars>>

\* The database ends the session that holds the lock; the process goes on.
LockSessionEnds ==
  /\ lock # None /\ runtime[lock] # "recovering"
  /\ splits < MaxSplits /\ splits' = splits + 1
  /\ lock' = None
  /\ UNCHANGED <<hand, runtime, stops, queueVars>>

Next ==
  \/ \E j \in Jobs : Enqueue(j) \/ BackoffElapses(j) \/ LeaseLapses(j)
  \/ \E w \in Runtimes :
       \/ Claim(w) \/ Complete(w) \/ HandlerThrows(w) \/ Fail(w)
       \/ Start(w) \/ Recover(w) \/ Die(w) \/ Close(w) \/ CloseReturns(w)
  \/ LockSessionEnds

Spec == Init /\ [][Next]_vars

\* Clocks advance, handlers end, the poll timer of a running Worker fires,
\* and the supervisor starts a Worker again.  When there is a claim to make,
\* another enqueue, death or lapse does not keep it from being made for ever.
Fairness ==
  /\ \A j \in Jobs : WF_vars(BackoffElapses(j)) /\ WF_vars(LeaseLapses(j))
  /\ WF_vars(\E w \in Runtimes : Start(w))
  /\ \A w \in Runtimes :
       /\ WF_vars(Claim(w)) /\ WF_vars(Complete(w) \/ HandlerThrows(w))
       /\ WF_vars(Fail(w)) /\ WF_vars(Recover(w)) /\ WF_vars(CloseReturns(w))

FairSpec == Spec /\ Fairness

-----------------------------------------------------------------------------
\* The types of all variables.
TypeOK ==
  /\ rows \in [Jobs -> [status : Statuses, attempts : 0..MaxAttempts, token : Nat,
                        available : BOOLEAN, lapsed : BOOLEAN]]
  /\ issued \in [Jobs -> Nat] /\ spent \in [Jobs -> Nat]
  /\ lock \in Runtimes \cup {None}
  /\ runtime \in [Runtimes -> {"down", "recovering", "polling", "draining"}]
  /\ hand \in [Runtimes -> [job : Jobs \cup {None}, token : Nat, attempt : 0..MaxAttempts,
                            step : {"idle", "handling", "failing"}]]
  /\ enqueues \in 0..MaxEnqueues /\ stops \in 0..MaxStops /\ splits \in 0..MaxSplits

\* claim() does not look at max_attempts: it relies on every way back to
\* 'pending' leaving an attempt.
PendingHasAttemptLeft ==
  \A j \in Jobs : rows[j].status = "pending" => rows[j].attempts < MaxAttempts

\* docs of the repository: a restart does not cost an attempt.  The attempts
\* of a row are the ones that ended in a report or a lapsed lease, and the
\* running one.
RestartsAreFree ==
  \A j \in Jobs :
    rows[j].attempts = spent[j] + (IF rows[j].status = "active" THEN 1 ELSE 0)

\* apps/worker/README.md: a replacement runtime requeues the interrupted jobs
\* because the lock proves that the process before it is gone.  So no job is
\* handled by two processes, as long as no lock session ends early.
OneHandlerPerJob ==
  splits = 0 =>
    \A v, w \in Runtimes :
      hand[v].step # "idle" /\ hand[w].step # "idle" /\ hand[v].job = hand[w].job => v = w

\* Only the newest claim of a job completes it: not the one of a process that
\* lost the lock, the lease or both.
CompletedByNewestClaim ==
  [][\A j \in Jobs :
       rows[j].status # "completed" /\ rows'[j].status = "completed" =>
         \E w \in Runtimes : hand[w].job = j /\ hand[w].token = issued[j]]_vars

\* A completed job is not failed or retried by a late report, also when the
\* response of its completion was lost; it runs again when enqueued again.
CompletedIsFinal ==
  [][\A j \in Jobs :
       rows[j].status = "completed" /\ rows'[j].status # "completed" => enqueues' # enqueues]_vars

\* What a row says of its job, in the terms of RetryLedger.
Phase(j) ==
  CASE rows[j].status = "absent" -> "none"
    [] rows[j].status = "pending" -> "waiting"
    [] rows[j].status = "active" -> "running"
    [] rows[j].status = "completed" -> "done"
    [] rows[j].status = "failed" -> "abandoned"

\* The attempt that is running has not been charged yet.
Charged(j) == rows[j].attempts - (IF rows[j].status = "active" THEN 1 ELSE 0)

\* The runtimes whose claim the row still names.
Holders(j) == {w \in Runtimes : hand[w].step # "idle" /\ hand[w].job = j /\ Held(w)}

Ledger == INSTANCE RetryLedger WITH
  Workers <- Runtimes, Limit <- MaxAttempts,
  phase <- [j \in Jobs |-> Phase(j)],
  charged <- [j \in Jobs |-> Charged(j)],
  holders <- [j \in Jobs |-> Holders(j)]

\* The queue keeps the account it owes: a job ends by the word of the runtime
\* its row names or after max_attempts lost attempts, neither earlier nor by
\* anyone else, and no restart, lost response or late report is charged to it.
KeepsLedger == Ledger!Spec

\* Every enqueued job ends completed or failed.
EveryJobSettles ==
  \A j \in Jobs :
    rows[j].status \in {"pending", "active"} ~> rows[j].status \in {"completed", "failed"}

=============================================================================
