--------------------------- MODULE AnswerAdmission ---------------------------
(***************************************************************************)
(* packages/mcp-server/src/answer-admission.ts: the execution slots one    *)
(* runtime process shares between blocking answer requests, which queue    *)
(* for them, and durable tasks, whose scheduler only ever tries.           *)
(*                                                                         *)
(* JavaScript runs each call to its end, the listeners it triggers         *)
(* included, so a call is one action.  The callers are left open: requests *)
(* are aborted and the queue is closed at any time, in any order.          *)
(***************************************************************************)
EXTENDS Integers, FiniteSets, SequencesExt

CONSTANTS
  Requests,   \* blocking requests, each made once
  MaxActive,  \* KOED_LOCAL_AI_RUNTIME_MAX_ACTIVE_ANSWERS
  MaxWaiting  \* bound of the blocking queue

ASSUME AdmissionAssumption ==
  IsFiniteSet(Requests) /\ MaxActive \in Nat \ {0} /\ MaxWaiting \in Nat \ {0}

VARIABLES
  active,   \* slots in use
  durable,  \* those of them held by the task scheduler
  queue,    \* the waiting requests, oldest first
  state,    \* state[r]: "new", "waiting", "granted", "released", "rejected"
  aborted,  \* requests whose signal is aborted
  open      \* close() has not run

vars == <<active, durable, queue, state, aborted, open>>

Init ==
  /\ active = 0 /\ durable = 0
  /\ queue = <<>>
  /\ state = [r \in Requests |-> "new"]
  /\ aborted = {}
  /\ open = TRUE

\* Mutant: the bound of the queue is one too high.
AcquireOverfull(r) ==
  /\ open /\ state[r] = "new" /\ r \notin aborted
  /\ IF active < MaxActive
     THEN state' = [state EXCEPT ![r] = "granted"] /\ active' = active + 1 /\ queue' = queue
     ELSE /\ Len(queue) <= MaxWaiting
          /\ state' = [state EXCEPT ![r] = "waiting"]
          /\ queue' = Append(queue, r) /\ active' = active
  /\ UNCHANGED <<durable, aborted, open>>

\* acquire(): rejected when aborted, a slot when there is one, a place in the
\* queue when there is one, refused with 429 otherwise.  The code asks nothing
\* about close(); its one caller (local-runtime-server.ts) aborts the signal of
\* every request and ends the server before it, so later calls find it aborted.
Acquire(r) ==
  /\ open \/ r \in aborted
  /\ state[r] = "new"
  /\ \/ /\ r \in aborted
        /\ state' = [state EXCEPT ![r] = "rejected"]
        /\ UNCHANGED <<active, queue>>
     \/ /\ r \notin aborted /\ active < MaxActive
        /\ state' = [state EXCEPT ![r] = "granted"]
        /\ active' = active + 1
        /\ UNCHANGED queue
     \/ /\ r \notin aborted /\ active >= MaxActive /\ Len(queue) < MaxWaiting
        /\ state' = [state EXCEPT ![r] = "waiting"]
        /\ queue' = Append(queue, r)
        /\ UNCHANGED active
     \/ /\ r \notin aborted /\ active >= MaxActive /\ Len(queue) >= MaxWaiting
        /\ state' = [state EXCEPT ![r] = "rejected"]
        /\ UNCHANGED <<active, queue>>
  /\ UNCHANGED <<durable, aborted, open>>

\* Mutant: drain takes the newest entry.
DrainNewest(st, used) ==
  IF queue = <<>> \/ used >= MaxActive
  THEN active' = used /\ queue' = queue /\ state' = st
  ELSE /\ active' = used + 1
       /\ queue' = Front(queue)
       /\ state' = [st EXCEPT ![Last(queue)] = "granted"]

\* Mutant: drain does not take the slot it hands out.
DrainFree(st, used) ==
  /\ active' = used
  /\ queue' = <<>>
  /\ state' = [r \in Requests |-> IF r \in ToSet(queue) THEN "granted" ELSE st[r]]

\* Mutant: drain is not called.
DrainNever(st, used) == active' = used /\ queue' = queue /\ state' = st

\* drain() with `used` slots in use: from the head on, every entry takes a
\* slot; an entry whose signal is aborted is rejected and gives it back.
Drain(st, used) ==
  LET liveBefore(i) == {j \in 1..(i - 1) : queue[j] \notin aborted}
      taken == {i \in DOMAIN queue : used + Cardinality(liveBefore(i)) < MaxActive}
      rejected == {queue[i] : i \in taken} \cap aborted
      granted == {queue[i] : i \in taken} \ aborted
  IN /\ active' = used + Cardinality(granted)
     /\ queue' = SubSeq(queue, Cardinality(taken) + 1, Len(queue))
     /\ state' = [r \in Requests |-> CASE r \in granted -> "granted"
                                       [] r \in rejected -> "rejected"
                                       [] OTHER -> st[r]]

\* A slot becomes free.  The queue's listener runs at once, until close();
\* the scheduler's listener schedules its try for after this call.
Free(st) ==
  IF open THEN Drain(st, active - 1)
          ELSE active' = active - 1 /\ queue' = queue /\ state' = st

\* The request is over.  Release runs in a finally block, and only once.
Release(r) ==
  /\ state[r] = "granted"
  /\ Free([state EXCEPT ![r] = "released"])
  /\ UNCHANGED <<durable, aborted, open>>

\* The drain loop of the task scheduler takes a slot when it finds one.
DurableTake ==
  /\ active < MaxActive
  /\ active' = active + 1 /\ durable' = durable + 1
  /\ UNCHANGED <<queue, state, aborted, open>>

DurableRelease ==
  /\ durable > 0
  /\ durable' = durable - 1
  /\ Free(state)
  /\ UNCHANGED <<aborted, open>>

\* The client goes away.  An entry that waits is spliced out of the queue.
Abort(r) ==
  /\ r \notin aborted
  /\ aborted' = aborted \cup {r}
  /\ \/ r \notin ToSet(queue) /\ UNCHANGED <<queue, state>>
     \/ \E i \in DOMAIN queue :
          /\ queue[i] = r
          /\ queue' = RemoveAt(queue, i)
          /\ state' = [state EXCEPT ![r] = "rejected"]
  /\ UNCHANGED <<active, durable, open>>

\* Mutant: close() unsubscribes and leaves the queue as it is.
CloseQuietly ==
  /\ open /\ open' = FALSE
  /\ UNCHANGED <<active, durable, queue, state, aborted>>

\* close(): no listener any more, and nobody is left waiting.
Close ==
  /\ open /\ open' = FALSE
  /\ queue' = <<>>
  /\ state' = [r \in Requests |-> IF r \in ToSet(queue) THEN "rejected" ELSE state[r]]
  /\ UNCHANGED <<active, durable, aborted>>

Next ==
  \/ \E r \in Requests : Acquire(r)
  \/ \E r \in Requests : Release(r)
  \/ DurableTake
  \/ DurableRelease
  \/ \E r \in Requests : Abort(r)
  \/ Close

Spec == Init /\ [][Next]_vars

\* Answers end, blocking and durable ones: both run under a hard timeout.
Fairness == WF_vars(DurableRelease) /\ \A r \in Requests : WF_vars(Release(r))

FairSpec == Spec /\ Fairness

-----------------------------------------------------------------------------
\* The types; at most MaxActive slots are in use and MaxWaiting requests wait.
TypeOK ==
  /\ active \in 0..MaxActive
  /\ durable \in 0..MaxActive
  /\ queue \in Seq(Requests) /\ Len(queue) <= MaxWaiting
  /\ state \in [Requests -> {"new", "waiting", "granted", "released", "rejected"}]
  /\ aborted \subseteq Requests
  /\ open \in BOOLEAN

\* docs/durable-memory-answer.md: one shared execution limit.  Every slot in
\* use is held by one granted request or by the scheduler: no sequence of
\* releases, aborts and grants loses a slot or hands one out twice.
SlotsHeld ==
  active = durable + Cardinality({r \in Requests : state[r] = "granted"})

\* No lost wake-up: nobody waits while a slot is free, which is also why the
\* scheduler, which takes free slots without looking at the queue, never
\* overtakes a waiting request.
NobodyWaitsInVain == queue # <<>> => active = MaxActive

\* First come, first served: no request is granted a slot while one that
\* came before it still waits.
FirstComeFirstServed ==
  [][\A i, j \in DOMAIN queue :
        i < j /\ state'[queue[i]] = "waiting" => state'[queue[j]] # "granted"]_vars

\* Every waiting request is settled, whatever the scheduler takes.
EveryWaiterSettles ==
  \A r \in Requests : state[r] = "waiting" ~> state[r] # "waiting"

=============================================================================
