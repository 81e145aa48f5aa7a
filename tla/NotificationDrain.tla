-------------------------- MODULE NotificationDrain --------------------------
(***************************************************************************)
(* packages/shared/src/notification-drain-controller.ts: how the services  *)
(* of the API and the Worker learn of work another process committed to    *)
(* Postgres.  A controller LISTENs on a connection, runs one drain at a    *)
(* time, repeats it when it is asked to meanwhile, and wakes itself up     *)
(* after an error and at the time the work asks for.                       *)
(*                                                                         *)
(* processOnce is a service's; it is modelled after the one of             *)
(* apps/worker/src/personal-project-default-service.ts: it takes an item   *)
(* that is due, or, when none is, schedules a retry at the next due time.  *)
(*                                                                         *)
(* An action is what runs between two awaits.  `run` = "ended" is the      *)
(* promise chain between the end of the drain loop and its finally: only   *)
(* other promise continuations come in between, not events and timers.     *)
(***************************************************************************)
EXTENDS Integers, FiniteSets

CONSTANTS
  Items,       \* pieces of work
  MaxTime,     \* bound: the clock; nothing is scheduled after it
  MaxFailures, \* bound: drains that end in an error
  MaxBreaks,   \* bound: connections that fail
  None         \* no item; no retry timer

ASSUME DrainAssumption ==
  /\ MaxTime \in Nat /\ MaxFailures \in Nat /\ MaxBreaks \in Nat
  /\ None \notin Items /\ None \notin Nat

VARIABLES
  now,
  item,      \* item[i]: "absent", "open", "done"
  dueAt,     \* dueAt[i]: when an open item may be processed
  inFlight,  \* a NOTIFY sent to the session and not delivered yet
  lifecycle, \* "idle", "started", "stopped", and "closed": stop() returned
  conn,      \* the wake connection, see Connections
  held,      \* pool clients taken and not released
  run,       \* the drain: "idle", "reading", "asking", "working", "ended"
  taken,     \* the item being processed
  runAgain,
  timer,     \* retryAtMs
  failures, breaks

vars == <<now, item, dueAt, inFlight, lifecycle, conn, held, run, taken,
          runAgain, timer, failures, breaks>>
dbVars == <<now, item, dueAt>>
drainVars == <<run, taken, runAgain, timer, failures>>
connVars == <<inFlight, conn, held, breaks>>

\* "off", "waiting" for the reconnect timer, "connecting", "listening" (the
\* LISTENs are done, no listener is attached yet), "up", "broken" (the session
\* is gone and the process has not noticed), "releasing" the client.
Connections ==
  {"off", "waiting", "connecting", "listening", "up", "broken", "releasing"}

Times == 0..MaxTime
Open == {i \in Items : item[i] = "open"}
Due == {i \in Open : dueAt[i] <= now}

Init ==
  /\ now = 0
  /\ item = [i \in Items |-> "absent"] /\ dueAt = [i \in Items |-> 0]
  /\ inFlight = FALSE
  /\ lifecycle = "idle"
  /\ conn = "off" /\ held = 0
  /\ run = "idle" /\ taken = None /\ runAgain = FALSE
  /\ timer = None
  /\ failures = 0 /\ breaks = 0

-----------------------------------------------------------------------------
\* Another process commits work, due now or later, and notifies.
Commit(i) ==
  /\ item[i] = "absent"
  /\ item' = [item EXCEPT ![i] = "open"]
  /\ \E t \in now..MaxTime : dueAt' = [dueAt EXCEPT ![i] = t]
  /\ inFlight' = (inFlight \/ conn \in {"listening", "up"})
  /\ UNCHANGED <<now, lifecycle, conn, held, breaks, drainVars>>

Advance ==
  /\ now < MaxTime /\ now' = now + 1
  /\ UNCHANGED <<item, dueAt, lifecycle, connVars, drainVars>>

-----------------------------------------------------------------------------
\* requestDrain(): starts the loop, or makes the running one repeat.
RequestDrain ==
  IF lifecycle # "started" THEN UNCHANGED <<run, runAgain>>
  ELSE IF run # "idle" THEN runAgain' = TRUE /\ run' = run
  ELSE run' = "reading" /\ runAgain' = FALSE

\* Mutant: a timer that runs is kept, whatever its time.
ScheduleRetryOnce(at) ==
  timer' = IF lifecycle # "started" \/ at = None \/ timer # None THEN timer ELSE at

\* scheduleRetry(): the earliest retry time wins.
ScheduleRetry(at) ==
  timer' = IF lifecycle # "started" \/ at = None THEN timer
           ELSE IF timer # None /\ timer <= at THEN timer ELSE at

\* Events and timers run when no promise continuation is left.
Macrotask == run # "ended"

RetryFires ==
  /\ Macrotask /\ timer # None /\ now >= timer
  /\ timer' = None
  /\ RequestDrain
  /\ UNCHANGED <<taken, failures, lifecycle, dbVars, connVars>>

\* The body of the loop starts over when it was asked to, until stop().
Repeat(again) ==
  /\ run' = IF lifecycle = "started" /\ again THEN "reading" ELSE "ended"
  /\ runAgain' = (lifecycle # "started" /\ again)

\* processOnce reads the due items.
Read ==
  /\ run = "reading"
  /\ IF Due = {} THEN run' = "asking" /\ taken' = None
     ELSE run' = "working" /\ \E i \in Due : taken' = i
  /\ UNCHANGED <<runAgain, timer, failures, lifecycle, dbVars, connVars>>

\* ... and asks for the next retry time when there was none: the due time of
\* an open item no other one comes before.
Ask ==
  /\ run = "asking"
  /\ \/ Open = {} /\ UNCHANGED timer
     \/ \E i \in Open : (\A k \in Open : dueAt[i] <= dueAt[k]) /\ ScheduleRetry(dueAt[i])
  /\ Repeat(runAgain)
  /\ UNCHANGED <<taken, failures, lifecycle, dbVars, connVars>>

\* ... or processes the one it took; shouldContinue makes the loop repeat.
Work ==
  /\ run = "working"
  /\ item' = [item EXCEPT ![taken] = "done"]
  /\ taken' = None
  /\ Repeat(TRUE)
  /\ UNCHANGED <<now, dueAt, timer, failures, lifecycle, connVars>>

\* processOnce throws, having deferred the item it took or not.  The catch
\* schedules a retry, the backoff being one unit of time.
Throw ==
  /\ run \in {"reading", "asking", "working"}
  /\ now < MaxTime /\ failures < MaxFailures /\ failures' = failures + 1
  /\ \/ UNCHANGED dueAt
     \/ run = "working" /\ dueAt' = [dueAt EXCEPT ![taken] = now + 1]
  /\ ScheduleRetry(now + 1)
  /\ run' = "ended" /\ taken' = None
  /\ UNCHANGED <<now, item, runAgain, lifecycle, connVars>>

\* The finally handler: a request that came too late for the loop, because it
\* was over or ended by an error, starts another one.
Finally ==
  /\ run = "ended"
  /\ IF lifecycle = "started" /\ runAgain
     THEN run' = "reading" /\ runAgain' = FALSE
     ELSE run' = "idle" /\ UNCHANGED runAgain
  /\ UNCHANGED <<taken, timer, failures, lifecycle, dbVars, connVars>>

-----------------------------------------------------------------------------
\* start() connects.
Start ==
  /\ lifecycle = "idle" /\ lifecycle' = "started"
  /\ conn' = "connecting"
  /\ UNCHANGED <<inFlight, held, breaks, dbVars, drainVars>>

\* The reconnect timer fires.
Reconnect ==
  /\ Macrotask /\ conn = "waiting" /\ conn' = "connecting"
  /\ UNCHANGED <<inFlight, held, breaks, lifecycle, dbVars, drainVars>>

\* The pool gives a client.  After stop() it is released, else it LISTENs.
Connect ==
  /\ conn = "connecting"
  /\ IF lifecycle = "started"
     THEN conn' = "listening" /\ held' = held + 1
     ELSE conn' = "off" /\ held' = held
  /\ UNCHANGED <<inFlight, breaks, lifecycle, dbVars, drainVars>>

\* Mutant: nothing is drained for the time without a connection.
ListenQuietly ==
  /\ conn = "listening"
  /\ conn' = IF lifecycle = "started" THEN "up" ELSE "releasing"
  /\ UNCHANGED <<run, runAgain>>
  /\ UNCHANGED <<inFlight, held, breaks, taken, timer, failures, lifecycle, dbVars>>

\* Mutant: a connection that comes up after stop() is kept.
ListenRegardless ==
  /\ conn = "listening"
  /\ conn' = "up" /\ RequestDrain
  /\ UNCHANGED <<inFlight, held, breaks, taken, timer, failures, lifecycle, dbVars>>

\* The listeners are attached, and what was committed before is drained.
\* After stop() the client is released instead.
Listen ==
  /\ conn = "listening"
  /\ IF lifecycle = "started" THEN conn' = "up" /\ RequestDrain
     ELSE conn' = "releasing" /\ UNCHANGED <<run, runAgain>>
  /\ UNCHANGED <<inFlight, held, breaks, taken, timer, failures, lifecycle, dbVars>>

\* Connecting or a LISTEN fails: the client is released, and a reconnect is
\* scheduled unless the controller has stopped.
ConnectFails ==
  /\ conn \in {"connecting", "listening"}
  /\ breaks < MaxBreaks /\ breaks' = breaks + 1
  /\ conn' = IF conn = "listening" THEN "releasing"
             ELSE IF lifecycle = "started" THEN "waiting" ELSE "off"
  /\ inFlight' = FALSE
  /\ UNCHANGED <<held, lifecycle, dbVars, drainVars>>

\* unlistenAndRelease() is over.
ReleaseClient ==
  /\ conn = "releasing"
  /\ held' = held - 1
  /\ conn' = IF lifecycle = "started" THEN "waiting" ELSE "off"
  /\ inFlight' = FALSE
  /\ UNCHANGED <<breaks, lifecycle, dbVars, drainVars>>

\* The session is gone: notifications are lost from here on.
Break ==
  /\ conn = "up" /\ conn' = "broken" /\ inFlight' = FALSE
  /\ breaks < MaxBreaks /\ breaks' = breaks + 1
  /\ UNCHANGED <<held, lifecycle, dbVars, drainVars>>

\* The client's error event.
ErrorEvent ==
  /\ Macrotask /\ conn = "broken" /\ conn' = "waiting"
  /\ held' = held - 1
  /\ UNCHANGED <<inFlight, breaks, lifecycle, dbVars, drainVars>>

\* A notification arrives; before the listener is attached it is dropped.
Deliver ==
  /\ Macrotask /\ inFlight /\ inFlight' = FALSE
  /\ conn \in {"listening", "up", "releasing"}
  /\ IF conn = "up" THEN RequestDrain ELSE UNCHANGED <<run, runAgain>>
  /\ UNCHANGED <<conn, held, breaks, taken, timer, failures, lifecycle, dbVars>>

\* Mutant: a client whose session is gone is released by stop() twice.
StopReleasingTwice ==
  /\ lifecycle \in {"idle", "started"} /\ lifecycle' = "stopped"
  /\ runAgain' = FALSE /\ timer' = None
  /\ conn' = CASE conn \in {"up", "broken"} -> "releasing"
               [] conn = "waiting" -> "off"
               [] OTHER -> conn
  /\ held' = IF conn = "broken" THEN held - 1 ELSE held
  /\ UNCHANGED <<inFlight, breaks, run, taken, failures, dbVars>>

\* stop(): the timers are cleared, the client is let go; a connection or a
\* drain under way is awaited.
Stop ==
  /\ lifecycle \in {"idle", "started"} /\ lifecycle' = "stopped"
  /\ runAgain' = FALSE /\ timer' = None
  /\ conn' = CASE conn \in {"up", "broken"} -> "releasing"
               [] conn = "waiting" -> "off"
               [] OTHER -> conn
  /\ UNCHANGED <<inFlight, held, breaks, run, taken, failures, dbVars>>

StopReturns ==
  /\ lifecycle = "stopped" /\ conn \notin {"connecting", "listening", "releasing"}
  /\ run = "idle"
  /\ lifecycle' = "closed"
  /\ UNCHANGED <<dbVars, connVars, drainVars>>

Next ==
  \/ \E i \in Items : Commit(i)
  \/ Advance
  \/ RetryFires \/ Read \/ Ask \/ Work \/ Throw \/ Finally
  \/ Start \/ Reconnect \/ Connect \/ Listen \/ ConnectFails \/ ReleaseClient
  \/ Break \/ ErrorEvent \/ Deliver
  \/ Stop \/ StopReturns

Spec == Init /\ [][Next]_vars

\* The clock advances, the event loop runs what it has, the pool and the
\* database answer, and a session that is gone is noticed.
Fairness ==
  /\ WF_vars(Advance) /\ WF_vars(RetryFires)
  /\ WF_vars(Read) /\ WF_vars(Ask) /\ WF_vars(Work \/ Throw) /\ WF_vars(Finally)
  /\ WF_vars(Reconnect) /\ WF_vars(Connect) /\ WF_vars(Listen)
  /\ WF_vars(ReleaseClient) /\ WF_vars(ErrorEvent) /\ WF_vars(Deliver)
  /\ WF_vars(StopReturns)

FairSpec == Spec /\ Fairness

-----------------------------------------------------------------------------
\* The types of all variables.
TypeOK ==
  /\ now \in Times
  /\ item \in [Items -> {"absent", "open", "done"}]
  /\ dueAt \in [Items -> Times]
  /\ inFlight \in BOOLEAN
  /\ lifecycle \in {"idle", "started", "stopped", "closed"}
  /\ conn \in Connections /\ held \in 0..1
  /\ run \in {"idle", "reading", "asking", "working", "ended"}
  /\ taken \in Items \cup {None}
  /\ runAgain \in BOOLEAN
  /\ timer \in Times \cup {None}
  /\ failures \in 0..MaxFailures /\ breaks \in 0..MaxBreaks

\* No lost wake-up, and none too late: a controller that is connected, has
\* heard everything and sits still has a timer running if any work is open,
\* and it sleeps past the due time of none of it, unless it is to wake up
\* within the backoff of an error.
IdleIsTimely ==
  lifecycle = "started" /\ conn = "up" /\ ~inFlight /\ run = "idle" =>
    \A i \in Open : timer # None /\ (timer <= dueAt[i] \/ timer <= now + 1)

\* Work is processed while it is open and when it is due, and not before,
\* however long ago the drain read it.
ProcessedWhenDue ==
  [][\A i \in Items :
       item[i] # "done" /\ item'[i] = "done" => item[i] = "open" /\ dueAt[i] <= now]_vars

\* A request made while a drain runs is served by another pass: the request
\* is never left behind by a controller that has gone idle.
RequestsAreServed == lifecycle = "started" /\ run = "idle" => ~runAgain

\* stop() has returned: no drain runs, no timer will start one, and the client
\* is back in the pool, wherever start, reconnect and drain were.
ClosedIsQuiet ==
  lifecycle = "closed" =>
    held = 0 /\ conn = "off" /\ run = "idle" /\ timer = None

\* A retry is only ever brought forward: errors cannot push it away.
RetryNeverPostponed ==
  [][timer # None /\ timer' # None => timer' <= timer]_vars

\* Every open item is processed, unless the controller is stopped.
EveryItemIsProcessed ==
  \A i \in Items :
    lifecycle = "started" /\ item[i] = "open" ~> item[i] = "done" \/ lifecycle # "started"

=============================================================================
