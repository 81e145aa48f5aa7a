------------------------ MODULE MemoryAnswerScheduler ------------------------
(***************************************************************************)
(* The processes that execute Memory Answer tasks: MemoryAnswerTask        *)
(* composed with the in-memory state of                                    *)
(* packages/mcp-server/src/memory-answer-task-scheduler.ts in each actor.  *)
(* Every await of a repository call splits a handler in two, so a process  *)
(* is several interleaved activities: its drain loop, one attempt per      *)
(* claim it was handed, and the calls of its clients.  A repository call   *)
(* may commit although its response is lost, or fail altogether.           *)
(***************************************************************************)
EXTENDS MemoryAnswerTask

CONSTANTS
  MaxActive,  \* slots of one process's AnswerExecutionCapacity
  Mortal,     \* the processes that may be closed or die
  Cancelling, \* bound: the processes whose clients cancel tasks
  NoClaim

ASSUME SchedulerAssumption ==
  /\ MaxActive \in Nat \ {0} /\ Mortal \subseteq Actors
  /\ Cancelling \subseteq Actors /\ NoClaim \notin Claims

VARIABLES
  proc,     \* proc[p]: "up", "closing", "closed" or "dead"
  drain,    \* drain[p]: where the drain loop is; draining means not "idle"
  inHand,   \* inHand[p]: claim of the batch the drain loop is waiting for
  running,  \* running[p][t]: the attempt the process knows of for task t
  attempt,  \* attempt[c]: phase and first-wins end reason of each unfinished
            \* attempt; its domain grows and shrinks with them
  slots,    \* slots[p]: execution slots in use
  awaited,  \* awaited[p]: the attempts close() waits for
  cancels   \* cancels[p]: tasks whose recorded cancellation p has yet to hear of

procVars == <<proc, drain, inHand, running, attempt, slots, awaited, cancels>>
allVars == <<vars, procVars>>

Drains == {"idle", "scheduled", "claiming", "answered"}
Phases == {"executing", "completing", "failing"}
Reasons == {"none", "cancelled", "lease_lost", "hard_timeout",
            "no_progress_timeout", "shutdown"}

SchedulerInit ==
  /\ Init
  /\ proc = [p \in Actors |-> "up"]
  /\ drain = [p \in Actors |-> "scheduled"]
  /\ inHand = [p \in Actors |-> NoClaim]
  /\ running = [p \in Actors |-> [t \in Tasks |-> NoClaim]]
  /\ attempt = [c \in {} |-> [phase |-> "executing", reason |-> "none"]]
  /\ slots = [p \in Actors |-> 0]
  /\ awaited = [p \in Actors |-> {}]
  /\ cancels = [p \in Actors |-> {}]

Alive(p) == proc[p] \in {"up", "closing", "closed"}
Unfinished(p) == {c \in DOMAIN attempt : c.owner = p}

-----------------------------------------------------------------------------
(* nudge and drain *)

\* nudge is dropped while the drain loop is running, and after close.
Nudged(p) ==
  IF proc[p] = "up" /\ drain[p] = "idle" THEN "scheduled" ELSE drain[p]

\* The reconcile timer.
Tick(p) ==
  /\ proc[p] = "up" /\ drain[p] = "idle"
  /\ drain' = [drain EXCEPT ![p] = "scheduled"]
  /\ UNCHANGED <<vars, proc, inHand, running, attempt, slots, awaited, cancels>>

\* Mutant: the loop claims without looking at the capacity.
DrainHeadGreedy(p) ==
  /\ Alive(p) /\ drain[p] = "scheduled"
  /\ drain' = [drain EXCEPT ![p] = "claiming"]
  /\ slots' = [slots EXCEPT ![p] = @ + 1]
  /\ UNCHANGED <<vars, proc, inHand, running, attempt, awaited, cancels>>

\* Mutant: the loop claims without looking whether close() ran meanwhile.
DrainHeadRegardless(p) ==
  /\ Alive(p) /\ drain[p] = "scheduled"
  /\ IF slots[p] < MaxActive
     THEN /\ drain' = [drain EXCEPT ![p] = "claiming"]
          /\ slots' = [slots EXCEPT ![p] = @ + 1]
     ELSE /\ drain' = [drain EXCEPT ![p] = "idle"]
          /\ UNCHANGED slots
  /\ UNCHANGED <<vars, proc, inHand, running, attempt, awaited, cancels>>

\* The head of the drain loop: closed, out of slots, or off to claim.  The slots
\* that blocking requests of the same process hold are AnswerAdmission's.
DrainHead(p) ==
  /\ Alive(p) /\ drain[p] = "scheduled"
  /\ IF proc[p] = "up" /\ slots[p] < MaxActive
     THEN /\ drain' = [drain EXCEPT ![p] = "claiming"]
          /\ slots' = [slots EXCEPT ![p] = @ + 1]
     ELSE /\ drain' = [drain EXCEPT ![p] = "idle"]
          /\ UNCHANGED slots
  /\ UNCHANGED <<vars, proc, inHand, running, attempt, awaited, cancels>>

\* The claim transaction commits; its response is on the way.
ClaimCommits(p, team) ==
  /\ Alive(p) /\ drain[p] = "claiming"
  /\ \/ Claim(p, team)
     \/ /\ \A t \in Tasks : ~Eligible(p, t, team)
        /\ UNCHANGED vars
  /\ drain' = [drain EXCEPT ![p] = "answered"]
  /\ inHand' = [inHand EXCEPT ![p] =
       IF claims' = claims THEN NoClaim ELSE CHOOSE c \in claims' : c \notin claims]
  /\ UNCHANGED <<proc, running, attempt, slots, awaited, cancels>>

\* The response arrives.  An attempt is started for the claim even if close()
\* ran meanwhile, and takes the place of an older attempt of the same task in
\* the running map; without a claim the slot is released and the loop ends.
ClaimAnswered(p) ==
  /\ Alive(p) /\ drain[p] = "answered"
  /\ IF inHand[p] = NoClaim
     THEN /\ drain' = [drain EXCEPT ![p] = "idle"]
          /\ slots' = [slots EXCEPT ![p] = @ - 1]
          /\ UNCHANGED <<running, attempt>>
     ELSE LET c == inHand[p] IN
          /\ drain' = [drain EXCEPT ![p] = "scheduled"]
          /\ running' = [running EXCEPT ![p][c.task] = c]
          /\ attempt' = [d \in DOMAIN attempt \cup {c} |->
               IF d = c THEN [phase |-> "executing", reason |-> "none"]
               ELSE attempt[d]]
          /\ UNCHANGED slots
  /\ inHand' = [inHand EXCEPT ![p] = NoClaim]
  /\ UNCHANGED <<vars, proc, awaited, cancels>>

\* Mutant: the error path keeps the slot.
ClaimErrsLeaking(p) ==
  /\ Alive(p) /\ drain[p] \in {"claiming", "answered"}
  /\ drain' = [drain EXCEPT ![p] = "idle"]
  /\ inHand' = [inHand EXCEPT ![p] = NoClaim]
  /\ UNCHANGED <<vars, proc, running, attempt, slots, awaited, cancels>>

\* The call fails before its commit, or its response is lost after it: the
\* slot is released and nobody in the process knows of the claim.
ClaimErrs(p) ==
  /\ Alive(p) /\ drain[p] \in {"claiming", "answered"}
  /\ drain' = [drain EXCEPT ![p] = "idle"]
  /\ slots' = [slots EXCEPT ![p] = @ - 1]
  /\ inHand' = [inHand EXCEPT ![p] = NoClaim]
  /\ UNCHANGED <<vars, proc, running, attempt, awaited, cancels>>

-----------------------------------------------------------------------------
(* One attempt *)

\* MemoryAnswerAttemptControl.stop: the first reason wins.
Stopped(att, cs, reason) ==
  [c \in DOMAIN att |->
     IF c \in cs /\ att[c].reason = "none" THEN [att[c] EXCEPT !.reason = reason]
     ELSE att[c]]

InPhase(c, phase) ==
  Alive(c.owner) /\ c \in DOMAIN attempt /\ attempt[c].phase = phase

GoTo(c, phase) == attempt' = [attempt EXCEPT ![c].phase = phase]

\* The attempt's promise settles: its finally block drops whatever attempt
\* the running map holds for the task, releases the slot and nudges.
Leave(c) ==
  /\ attempt' = [d \in DOMAIN attempt \ {c} |-> attempt[d]]
  /\ running' = [running EXCEPT ![c.owner][c.task] = NoClaim]
  /\ slots' = [slots EXCEPT ![c.owner] = @ - 1]
  /\ drain' = [drain EXCEPT ![c.owner] = Nudged(c.owner)]
  /\ UNCHANGED <<proc, inHand, awaited, cancels>>

\* A heartbeat that is answered; it also reports a recorded cancellation.
Beat(c) ==
  /\ InPhase(c, "executing") /\ attempt[c].reason = "none"
  /\ Heartbeat(c)
  /\ attempt' = IF row[c.task].status = "cancel_requested"
                THEN Stopped(attempt, {c}, "cancelled") ELSE attempt
  /\ UNCHANGED <<proc, drain, inHand, running, slots, awaited, cancels>>

\* A heartbeat is rejected, or the call fails: both count as a lost lease.
\* A watchdog fires, also while the completion call is in flight.
Interrupt(c, reason) ==
  /\ \/ InPhase(c, "executing")
     \/ reason = "hard_timeout" /\ InPhase(c, "completing")
  /\ attempt[c].reason = "none"
  /\ attempt' = Stopped(attempt, {c}, reason)
  /\ UNCHANGED <<vars, proc, drain, inHand, running, slots, awaited, cancels>>

\* Mutant: the entry of the running map is dropped as soon as the executor
\* returns, and not when the attempt has settled.
ReturnForgetting(c) ==
  /\ InPhase(c, "executing")
  /\ \/ attempt[c].reason = "none" /\ GoTo(c, "completing")
     \/ GoTo(c, "failing")
  /\ running' = [running EXCEPT ![c.owner][c.task] = NoClaim]
  /\ UNCHANGED <<vars, proc, drain, inHand, slots, awaited, cancels>>

\* The executor returns.  Its result is used only if nothing stopped the
\* attempt before; otherwise, and on an error, the failure path is next.
Return(c) ==
  /\ InPhase(c, "executing")
  /\ \/ attempt[c].reason = "none" /\ GoTo(c, "completing")
     \/ GoTo(c, "failing")
  /\ UNCHANGED <<vars, proc, drain, inHand, running, slots, awaited, cancels>>

\* The completion call commits and is answered, commits with its answer lost,
\* or does not commit (rejected, or the call failed).
CallComplete(c) ==
  /\ InPhase(c, "completing")
  /\ \/ Complete(c) /\ Leave(c)
     \/ /\ Complete(c) \/ UNCHANGED vars
        /\ GoTo(c, "failing")
        /\ UNCHANGED <<proc, drain, inHand, running, slots, awaited, cancels>>

\* Mutant: the failure is written without the fence.
CallFailBlind(c) ==
  /\ InPhase(c, "failing")
  /\ row' = [row EXCEPT ![c.task] = Failed(@, TRUE)]
  /\ UNCHANGED <<revoked, claims, answer, renewals>>
  /\ Leave(c)

\* A lost lease writes nothing; otherwise the failure is reported once.
CallFail(c) ==
  /\ InPhase(c, "failing")
  /\ \/ UNCHANGED vars
     \/ /\ attempt[c].reason # "lease_lost"
        /\ \E retry \in BOOLEAN :
             /\ attempt[c].reason \in {"cancelled", "hard_timeout"} => ~retry
             /\ Fail(c, retry)
  /\ Leave(c)

-----------------------------------------------------------------------------
(* The process's clients, close, and death *)

Start(p, t, k, s) ==
  /\ proc[p] = "up"
  /\ Accept(p, t, k, s)
  /\ drain' = [drain EXCEPT ![p] = Nudged(p)]
  /\ UNCHANGED <<proc, inHand, running, attempt, slots, awaited, cancels>>

\* cancel() at process p: the transaction commits; its answer is on the way.
\* Bound: one call in flight for each process and task.
CancelCommits(p, t) ==
  /\ p \in Cancelling /\ proc[p] = "up" /\ t \notin cancels[p]
  /\ \/ Cancel(p, t)
     \/ /\ row[t].status = "cancel_requested" /\ Authorized(p, t)
        /\ UNCHANGED vars
  /\ cancels' = IF row'[t].status = "cancel_requested"
                THEN [cancels EXCEPT ![p] = @ \cup {t}] ELSE cancels
  /\ UNCHANGED <<proc, drain, inHand, running, attempt, slots, awaited>>

\* The answer arrives, and the attempt the process knows of by now is stopped.
CancelAnswered(p, t) ==
  /\ Alive(p) /\ t \in cancels[p]
  /\ cancels' = [cancels EXCEPT ![p] = @ \ {t}]
  /\ attempt' = Stopped(attempt, {running[p][t]}, "cancelled")
  /\ UNCHANGED <<vars, proc, drain, inHand, running, slots, awaited>>

\* The answer is lost: nothing is stopped here.
CancelErrs(p, t) ==
  /\ Alive(p) /\ t \in cancels[p]
  /\ cancels' = [cancels EXCEPT ![p] = @ \ {t}]
  /\ UNCHANGED <<vars, proc, drain, inHand, running, attempt, slots, awaited>>

CancelAt(p, t) == CancelCommits(p, t) \/ CancelAnswered(p, t) \/ CancelErrs(p, t)

Known(p) == {running[p][t] : t \in Tasks} \ {NoClaim}

Close(p) ==
  /\ p \in Mortal /\ proc[p] = "up"
  /\ proc' = [proc EXCEPT ![p] = "closing"]
  /\ attempt' = Stopped(attempt, Known(p), "shutdown")
  /\ awaited' = [awaited EXCEPT ![p] = Known(p)]
  /\ UNCHANGED <<vars, drain, inHand, running, slots, cancels>>

CloseReturns(p) ==
  /\ proc[p] = "closing"
  /\ awaited[p] \cap Unfinished(p) = {}
  /\ proc' = [proc EXCEPT ![p] = "closed"]
  /\ awaited' = [awaited EXCEPT ![p] = {}]
  /\ UNCHANGED <<vars, drain, inHand, running, attempt, slots, cancels>>

\* The process exits or crashes: everything in memory is gone.
Die(p) ==
  /\ p \in Mortal /\ Alive(p)
  /\ proc' = [proc EXCEPT ![p] = "dead"]
  /\ drain' = [drain EXCEPT ![p] = "idle"]
  /\ inHand' = [inHand EXCEPT ![p] = NoClaim]
  /\ running' = [running EXCEPT ![p] = [t \in Tasks |-> NoClaim]]
  /\ attempt' = [c \in DOMAIN attempt \ Unfinished(p) |-> attempt[c]]
  /\ slots' = [slots EXCEPT ![p] = 0]
  /\ awaited' = [awaited EXCEPT ![p] = {}]
  /\ cancels' = [cancels EXCEPT ![p] = {}]
  /\ UNCHANGED vars

Cleanup(p) == proc[p] = "up" /\ DeleteExpired(p) /\ UNCHANGED procVars

Environment ==
  /\ \/ \E t \in Tasks : LeaseLapses(t)
     \/ \E t \in Tasks : DelayPasses(t)
     \/ \E t \in Tasks : RetentionPasses(t)
     \/ \E m \in Teams : RevokeTeam(m)
  /\ UNCHANGED procVars

-----------------------------------------------------------------------------
Interruptions == {"lease_lost", "hard_timeout", "no_progress_timeout"}

SchedulerNext ==
  \/ \E p \in Actors : Tick(p)
  \/ \E p \in Actors : DrainHead(p)
  \/ \E p \in Actors, team \in BOOLEAN : ClaimCommits(p, team)
  \/ \E p \in Actors : ClaimAnswered(p)
  \/ \E p \in Actors : ClaimErrs(p)
  \/ \E c \in DOMAIN attempt : Beat(c)
  \/ \E c \in DOMAIN attempt, reason \in Interruptions : Interrupt(c, reason)
  \/ \E c \in DOMAIN attempt : Return(c)
  \/ \E c \in DOMAIN attempt : CallComplete(c)
  \/ \E c \in DOMAIN attempt : CallFail(c)
  \/ \E p \in Actors, t \in Tasks, k \in Keys \cup {NoKey}, s \in Scopes :
       Start(p, t, k, s)
  \/ \E p \in Actors, t \in Tasks : CancelAt(p, t)
  \/ \E p \in Actors : Close(p)
  \/ \E p \in Actors : CloseReturns(p)
  \/ \E p \in Actors : Die(p)
  \/ \E p \in Actors : Cleanup(p)
  \/ Environment

SchedulerSpec == SchedulerInit /\ [][SchedulerNext]_allVars

\* Timers fire, calls return, executors settle once the hard timeout aborts
\* them.  Claim calls that are tried for ever claim something now and then.
SchedulerFairness ==
  /\ \A t \in Tasks : WF_allVars(LeaseLapses(t) /\ UNCHANGED procVars)
                  /\ WF_allVars(DelayPasses(t) /\ UNCHANGED procVars)
  /\ \A p \in Actors :
       /\ WF_allVars(Tick(p))
       /\ WF_allVars(DrainHead(p))
       /\ WF_allVars(ClaimAnswered(p))
       /\ SF_allVars(\E team \in BOOLEAN : ClaimCommits(p, team) /\ row' # row)
       /\ WF_allVars(\E team \in BOOLEAN : ClaimCommits(p, team))
       /\ WF_allVars(\E c \in Unfinished(p) :
            Return(c) \/ CallComplete(c) \/ CallFail(c))

FairSchedulerSpec == SchedulerSpec /\ SchedulerFairness

-----------------------------------------------------------------------------
(* Properties *)

\* The types of the variables of the processes.  A process has no more slots in
\* use than its capacity, and every claim it knows was handed out.
SchedulerTypeOK ==
  /\ proc \in [Actors -> {"up", "closing", "closed", "dead"}]
  /\ drain \in [Actors -> Drains]
  /\ \A p \in Actors : inHand[p] \in claims \cup {NoClaim}
  /\ \A p \in Actors, t \in Tasks : running[p][t] \in claims \cup {NoClaim}
  /\ DOMAIN attempt \subseteq claims
  /\ \A c \in DOMAIN attempt : attempt[c] \in [phase : Phases, reason : Reasons]
  /\ slots \in [Actors -> 0..MaxActive]
  /\ \A p \in Actors : awaited[p] \subseteq claims
  /\ cancels \in [Actors -> SUBSET Tasks]

\* Every slot in use belongs to an unfinished attempt or to the drain loop's
\* claim call: no path, however it fails, leaks a slot or frees it twice.
SlotsMatch ==
  \A p \in Actors :
    slots[p] = Cardinality(Unfinished(p))
                 + IF drain[p] \in {"claiming", "answered"} THEN 1 ELSE 0

\* The process was handed the task once only.
Sole(c) == \A d \in claims : d.owner = c.owner /\ d.task = c.task => d = c

\* An attempt of a task its process was handed once is stopped by the answer to
\* every cancellation the process handles, the first or a repeated one, whatever
\* came before that answer, and is stopped and awaited by close(): the running map
\* has not lost it.
SoleAttemptsAreStopped ==
  [][\A p \in Actors : \A c \in Unfinished(p) : Sole(c) =>
       /\ CancelAnswered(p, c.task) => attempt'[c].reason # "none"
       /\ Close(p) => attempt'[c].reason # "none" /\ c \in awaited'[p]]_allVars

\* close() waits for the attempts it knows of, and the claim call it finds in
\* flight may still start one, which nobody awaits.  It is the last one: from the
\* call of close() on, of all the tasks the process was handed once at most one is
\* worked on without being awaited, and none while the drain loop may start it.
LeftBehind(p) == {c \in Unfinished(p) : Sole(c)} \ awaited[p]

CloseLeavesOne ==
  \A p \in Actors : proc[p] \in {"closing", "closed"} =>
    /\ \A c, d \in LeftBehind(p) : c = d
    /\ drain[p] \in {"claiming", "answered"} => LeftBehind(p) = {}

\* Seen from the database, the processes only ever do what the repository's
\* transactions allow, so all that holds of MemoryAnswerTask holds here.
ImplementsTasks == Spec

\* While one process survives, every accepted task is settled, whatever the
\* others do: no nudge that is dropped, claim that is lost, lease that lapses
\* or process that dies strands a task.
EveryTaskSettlesHere ==
  \A t \in Tasks : row[t].status \in Open ~> row[t].status \in Terminal

\* docs/durable-memory-answer.md: "Explicit task cancellation records intent,
\* aborts the exact in-process attempt, and fences a late result."
CancelAbortsAttempt ==
  [][\A p \in Actors, t \in Tasks :
        CancelAnswered(p, t) =>
          \A c \in DOMAIN attempt :
            c.task = t /\ InPhase(c, "executing") /\ c.owner = p /\ Holds(c)
              => attempt'[c].reason # "none"]_allVars

=============================================================================
