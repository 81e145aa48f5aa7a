# Verification of Koed

TLA+ modules that model parts of Koed, TLC configurations that check them on
small instances, and proofs, checked by TLAPS, of what holds for every value of
the constants. Everything is translated from the TypeScript under `src/`.
`PROJECT.json` maps every definition to the lines it models and every run,
property, hazard and theorem to each other.

1. [The system](#1-the-system)
2. [What is modelled](#2-what-is-modelled)
3. [The modules, one by one](#3-the-modules-one-by-one)
4. [Runs, bounds and fairness](#4-runs-bounds-and-fairness)
5. [Proofs](#5-proofs)
6. [Where code and documents disagree](#6-where-code-and-documents-disagree)
7. [Inventory of the rest, and the plan](#7-inventory-of-the-rest-and-the-plan)

## 1. The system

Koed keeps the memory of AI clients. A *supervisor* (`packages/koed-server`)
owns one `KOED_HOME` and starts PostgreSQL, the API (`apps/api`), the Worker
(`apps/worker`), the embedding and privacy services, and the local AI runtime
(`packages/mcp-server`). PostgreSQL is the only shared store
(`packages/db`): processes talk through rows, `LISTEN`/`NOTIFY` and HTTP. The
desktop application (`apps/desktop`) and the command line drive the supervisor.

| Part | State | Interacts with |
| --- | --- | --- |
| Supervisor and lifecycle commands | files under `KOED_HOME/run`: supervisor lock, lifecycle lock, generation pin; the pointers to the selected payloads | each other, through files and process identities; children |
| Local work queue | table `local_work_queue`; a session advisory lock | the Worker claims and reports; API and Worker enqueue |
| Notification drain controllers | a connection, a drain loop, one retry timer | `NOTIFY` of other processes; the service's own `processOnce` |
| Durable Memory Answer tasks | table `memory_answer_tasks`, final Memory Questions | API transactions on behalf of runtimes |
| Memory Answer scheduler | in memory of each runtime: drain loop, running attempts, slots | the task transactions; the executor; clients |
| Answer admission | in memory: slots in use, a queue of blocking requests | the scheduler takes slots without queueing |
| Managed conversation transfer | rows of the execution, its commands and handoffs, the authority log; in each worker three lanes, provider sessions, heartbeats | the workers of a User's devices claim commands and call the transactions of a handoff |

What is hard in these parts is the same everywhere: a process may die between
two writes, an answer may be lost after its commit, a claim may lapse while its
holder still works, and handlers interleave at every `await`. The transfer of a
Conversation adds devices that disagree about who owns it.

## 2. What is modelled

| Module | Models | Proofs |
| --- | --- | --- |
| `AnswerLifecycle` | the promise to the client of a Memory Answer (abstract) | |
| `MemoryAnswerTask` | transactions of `memory-answer-task-repository.ts` | `MemoryAnswerTaskProofs` |
| `MemoryAnswerScheduler` | `memory-answer-task-scheduler.ts` in every runtime, composed with the tasks | `MemoryAnswerSchedulerProofs` |
| `AnswerAdmission` | `answer-admission.ts` | `AnswerAdmissionProofs` |
| `RetryLedger` | the promise of a work queue with retries (abstract) | |
| `LocalWorkQueue` | `local-work-queue-repository.ts` and the local backend of `queue.ts` | `LocalWorkQueueProofs` |
| `NotificationDrain` | `notification-drain-controller.ts` with one of its services | `NotificationDrainProofs` |
| `RuntimeOwnership` | `supervisor-lock.ts`, `generation-lifecycle.ts`, `stopped-runtime.ts` and the commands on them | `RuntimeOwnershipProofs` |
| `ExclusiveExecution` | the promise that one device at a time executes a Conversation (abstract) | |
| `ConversationHandoff` | `managed-conversation-transfer-repository.ts`, the commands of `managed-conversation-repository.ts` and the worker of `managed-conversation-service.ts` on every device | `ConversationHandoffProofs`, `HandoffRestorationProofs` |

Each `MC*` module instantiates one of them for TLC. The modules build on each
other where the code does:

    AnswerLifecycle     <--refines--  MemoryAnswerTask  <--refines--  MemoryAnswerScheduler
    RetryLedger         <--refines--  LocalWorkQueue
    ExclusiveExecution  <--refines--  ConversationHandoff

`MemoryAnswerScheduler` EXTENDS `MemoryAnswerTask`: each of its steps is a step
of one process together with the transaction that process commits, or none.

A definition whose comment begins with *Mutant* is not part of a specification.
It is a plausible bug in the definition after it, kept to show that a property
notices.

## 3. The modules, one by one

### MemoryAnswerTask

A repository call is one transaction that locks the rows it writes, so it is one
action. `row[t]` has the columns the transactions read; time appears as what the
code compares with the clock (`live`, `due`, `expired`). Holders of claims are
not trusted: `claims` has every lease ever handed out and any of them may be
used at any time, which covers paused processes, duplicate calls and late
responses.

| Action | Repository function |
| --- | --- |
| `Accept` | acceptance: key lookup, backlog bound, insert, under the lock on the owner's row |
| `Claim` | settles the candidates it may not hand out, takes at most one |
| `Heartbeat`, `Complete`, `Fail` | the calls fenced by owner, generation and lease |
| `Cancel` | the owner's cancellation; retires a task whose Team authority is gone |
| `DeleteExpired` | retention |
| `RevokeTeam`, `LeaseLapses`, `DelayPasses`, `RetentionPasses` | Team administration, clocks |

Properties: an answer is written by the newest claim (`AnsweredByNewestClaim`), a
revoked task is not answered (`NoAnswerAfterRevocation`), a task is handed out
once per attempt (`AttemptsAreClaims`). `KeepsPromise` is the refinement of
`AnswerLifecycle`, which knows no leases, attempts or processes. Proved, and in
no run: claims of a task carry different fences and none is ahead of its row
(`Fencing`), a recorded cancellation sticks (`CancellationSticks`) and a lease
that lapsed stays lapsed under its fence (`LapsedLeaseStaysLapsed`).

### MemoryAnswerScheduler

One runtime is a drain loop (`drain`, `inHand`), the attempts it executes
(`attempt`, with the reason that stopped each first), the map of the attempts it
knows (`running`), its slots and `close()` (`proc`, `awaited`). Handlers are cut
at each `await` of a repository call; a call may commit and lose its response
(`ClaimErrs` after `ClaimCommits`, the second disjunct of `CallComplete`). So may
`cancel()`: `CancelCommits` is its transaction, and `cancels` remembers whose answer
is on the way. `CancelAnswered` stops the attempt that the map has by then, which may
be a newer one or none; `CancelErrs` stops nothing. Slots that blocking requests
of the same runtime hold are not in this module but in `AnswerAdmission`.
`SlotsMatch` says that no path loses a slot or releases it twice;
`SoleAttemptsAreStopped` says which attempts `cancel()` and `close()` reach
without fail: those whose process was handed their task once (section 6 has the
others). `close()` does not wait for a claim call that is under way, and what that
call brings is started all the same; `CloseLeavesOne` says that this is all that
can be left behind: no second claim call begins, so no second attempt.
`ImplementsTasks` is the refinement; `EveryTaskSettlesHere` is liveness while one
process survives.

### AnswerAdmission

JavaScript runs a call to its end with the listeners it triggers, so a call is
one action. `Drain` is the loop that hands freed slots to the queue; what it
does to the whole queue is stated at once. The scheduler takes slots without
looking at the queue: `NobodyWaitsInVain` is why that never overtakes a waiting
request, `FirstComeFirstServed` and `EveryWaiterSettles` what clients get.
`acquire()` itself does not look whether the admission was closed; that
`Acquire` takes new requests only while it is open, unless they are aborted, is
what the server does: it aborts the signal of every request before it closes.

### LocalWorkQueue

Rows, the advisory lock and two or more Worker processes. `Claim` sees all rows
as they were before the statement, as the SQL statement does, so a row it
requeues is not one it takes. `PendingHasAttemptLeft` is why it may ignore
`max_attempts`. `spent` is a history variable: attempts that ended
in a report or a lapsed lease. `RestartsAreFree`, proved and in no run, relates it
to the counter in the row: a restart costs no attempt. `LockSessionEnds` is the case the code cannot exclude, a session that
the database ends under a living process: with it, two handlers of one job are
possible, and the rest still holds: a job is completed by its newest claim
(`CompletedByNewestClaim`), and the queue refines `RetryLedger`
(`KeepsLedger`). That knows no leases and no locks: a job that is owed is
done by the word of the one worker it was last given to, is given up on that
worker's word or when its attempts are lost, and is charged for lost and
reported attempts alone. The
holders of a job are the Workers whose `hand` still matches its row.

### NotificationDrain

`conn` follows the wake connection, `run` the drain between two awaits, `timer`
the retry. `run = "ended"` is the gap between the end of the drain loop and its
`finally`: only promise continuations run in it, hence the guard `Macrotask` on
events and timers. Work may be committed at any time, also while nobody listens,
and due at any time after that. `IdleIsTimely` therefore asks more of a controller at
rest than a timer: one that does not oversleep any of the open work, except within the
backoff of an error.

### RuntimeOwnership

A member of `Processes` is one life of an operating system process; `PID` gives
two lives the same number, one after the other. An action is one access to a
shared file, or several where the lifecycle lock covers them; the removal of a
stale supervisor record is two (`Compare`, `Remove`), because between the two
system calls another process may write. Commands: a packaged start, which takes
the lifecycle lock to pin and keeps it while it lives; a start from source,
which takes it only to choose a native runtime, when there is a store of them;
`stop`, which observes first and takes the lock to clean up, when there is a store,
and leaves these files alone otherwise; an installer, which
holds it in two passes with a download in between; an activation. A `KOED_HOME`
may have a native store from the beginning or get one from an installer. The
start of a Desktop bundle is a packaged one that may move the generation pointer
before it pins (`Bundled`).

| Label in `pc` | Where the code is |
| --- | --- |
| `open`, `write`, `judge`, `reclaim` | `acquireKoedServerSupervisorLock` |
| `pin`, `pinning` | `pinGenerationForStart` |
| `look`, `select`, `selecting` | selection of the native runtime in `start.ts` |
| `running`, `unpin`, `unpinned`, `release`, `unlink` | a supervisor and its shutdown |
| `observe`, `observePin`, `observeChildren` | `observeStoppedRuntime` |
| `clean`, `compare`, `remove`, `removePin`, `reopen` | removal of stale records under the lifecycle lock |
| `enter`, `check`, `act`, `leave` | installer and activation |

`OneSupervisor` and `OwnersRecordStays` are the promise of the locks;
`SelectionInUse` and `NativeIsQuiet` protect what a supervisor runs on;
`HeldByTheLiving` says that, as long as nothing crashed or failed to clean up,
every file belongs to a process that lives: no path that fails ends without giving
back what it took, or puts back the file of somebody who is gone. `NothingLeftBehind`
follows when all have stopped.

Left out: the privacy management of the Desktop, which pins and unpins without a
supervisor lock; staging and cleaning of generations; the store lock inside the
lifecycle lock; the signals `stop` sends.

### ConversationHandoff

A Conversation is executed on one device at a time. A handoff gives it to
another: the source is quiesced and sealed, the target materializes a checkout
and verifies it, one transaction moves the *authority log*, the execution and
the handoff to the next generation, and the target restores the provider there.
Every repository method is one transaction and one action. Between them the
worker awaits, and what it read before may be stale; the record `work[d]`
holds what it remembers: the attempt of its command, the versions of the
execution and of the handoff.

One worker process runs per device. Its *command lane* (`processOnce`) claims a
command, runs it under a heartbeat and completes or fails it; the *control lane*
(`processControlsOnce`) does so for stops; *startup recovery* resumes what the
device owned; a second heartbeat (`renewOwnedRuntimes`) closes a session whose
lease it cannot renew. A lane's `pc` names the code it is about to run:

| `work[d].pc` | Command | Where the code is |
| --- | --- | --- |
| `open` | prompt, quiesce, restore | `sessionFor` |
| `turn` | prompt | the provider operation under the lease, up to `bindManagedConversationSourceGeneration`, which may raise the version of the execution |
| `mark` | prompt | `markManagedConversationCheckpointPending` |
| `capture` | prompt | the checkpoint of a turn that is over: the first part of the prompt's case of `runCommand` |
| `seal`, `quiesce`, `handoff` | quiesce | sealing the sources, `setManagedConversationExecutionState`, reading the handoff |
| `prepare`, `attest` | quiesce | `prepareManagedConversationHandoff`, `attestManagedConversationHandoffSource` |
| `verify_target`, `checkout`, `verify`, `commit` | verify_target | its case of `runCommand`, `checkoutForTarget`, `verifyManagedConversationHandoffTarget`, `commitManagedConversationHandoff` |
| `restore`, `begin`, `write`, `bind`, `land`, `enlist` | restore | its case of `runCommand`: `beginManagedConversationHandoffRestore`, the transcript, the provider's identity, `completeManagedConversationHandoffRestore`, the session in the map |
| `complete`, `fail`, `close`, `set` | all | the end of `processOnce`: complete, fail, close the session, read the execution, set it failed or reconciling |

Any call may commit and lose its answer (`Goes`), anything awaited may throw
(`Throw`, `StopThrows`), a process dies or is stopped and is started again
(`Crash`, `Stop`, `Start`), and the leases of the command, the execution and the
restoration lapse in any order (`CommandLapses`, `ExecutionLapses`,
`RestorationLapses`), with `LoseLease` for the heartbeat that notices. `Block`
and `Replicated` are the closure of the source that has not arrived yet. A
restoration creates the transcript at a path of the thread in the Codex home of the
device (`Write`), where neither an earlier attempt nor an earlier generation may
have left one (`HasRollout`): handed back to a device that had it, a Conversation
is not restored. A
prompt whose worker died is looked into (`Reconcile`): it is settled, or it comes
back for its checkpoint alone (`pending`, the phase in the command's result), or it
stays indeterminate. `turns` is a history variable: how often the provider was given
the prompt, which is no column, but can show in the Conversation's items.

Properties: `OwnershipFollowsLog` relates four tables: each generation was
handed on once, by its owner, to the next. `ExecutionIsExclusive` is the
refinement of `ExclusiveExecution`: turns run on the owner alone, nobody writes
while the Conversation is handed over. `NothingLeftBehind`: the commands of the
User are settled before the generation they belong to ends. `TurnsAreTakenOnce`:
the provider is given a prompt at most once, through every death, lapse, error and
lost answer between the claim and the completion of its command.
`RestoredBeforeUse`: nobody runs a generation, keeps a provider session of it or takes a
turn in it before its transcript was restored and bound, whichever attempt at
the restoration got how far and whose answers were lost.
`FailsOnlyItsOwn`: the failure path reads the execution and sets it failed
afterwards, and by then another device may own it. `LeftDevicesFallSilent` and
`TransferSettles` are liveness: no session outlives the ownership of its device,
and a handoff past its transfer does not wait for ever on a restoration that is
due.

Abstracted: keys, certificates and digests (the hash of the authority log is
determined by its sequence), snapshots and transcripts (they verify or throw),
clocks. The provider is Codex. Left out: starting a Conversation, forks, what is in
a checkpoint, file operations, interrupts and settings, runtime items.

## 4. Runs, bounds and fairness

| Run | Instance | Question |
| --- | --- | --- |
| `answer_tasks` | 2 tasks, 2 processes, 1 Team, 1 key, 2 attempts, symmetry | all safety properties and the refinement of the promise |
| `scheduler` | 1 process, 1 task, 1 Team, 3 attempts, 2 slots | types, slots, attempts reached by a cancellation or close, what close leaves, refinement of the tasks |
| `scheduler_live` | 2 processes of which one may die, 1 task, 1 slot, no renewals | every accepted task settles |
| `scheduler_cancel` | 1 process, 1 task, 2 slots | violated: section 6 |
| `admission` | 4 requests, 2 slots, 2 places | all properties of admission, liveness too |
| `work_queue` | 2 jobs, 2 Workers, 2 attempts, 2 enqueues, 1 stop, 1 lost lock session | all properties, the refinement of the ledger and liveness too |
| `drain` | 2 items, 2 failures, 2 broken sessions | all properties, liveness too |
| `ownership` | 3 lives (two with one PID), all commands, 3 faults | one owner, its record, every file held by the living, the selection in use |
| `ownership_stale` | 3 lives, starts, stops and installers, with or without a store, 1 fault | violated: section 6 |
| `handoff` | 3 devices, 2 handoffs, 2 prompts or stops, 1 fault | types, exclusive execution, nothing left behind, no prompt taken twice, failures by the owner only |
| `handoff_live` | 3 devices, 2 handoffs, 2 faults | one history, restored before use, silence of left devices, transfers settle |
| `handoff_resume` | 3 devices, 1 handoff, 2 faults | violated: section 6 |

Bounds that the code does not have:

- `MaxRenewals`: heartbeats an attempt makes before its hard timeout. The code
  bounds them by that timeout; one renewal already gives a lease that is live
  again after it could have lapsed. `scheduler_live` has none: a renewal there only
  postpones what its fairness makes happen.
- `Cancelling`: the processes whose clients cancel, with one call in flight for
  each task. In `scheduler_live` it is the process that survives, as what the other
  one cancels is seen there only in the row.
- `MaxEnqueues`, `MaxStops`, `MaxSplits`: enqueues, ends of Workers and lost
  lock sessions. Two enqueues give two jobs side by side, or one that is enqueued
  again after it settled; one stop, by death or close, lets a second runtime recover
  what the first left, and the lost session takes the lock from that one too.
- `MaxTime`, `MaxFailures`, `MaxBreaks`: nothing is scheduled after the last
  tick, so work is due at once, at the next tick or at the one after. Two of
  each give a retry that is brought forward, an error on top of an
  error, and a reconnect that fails.
- `MaxFaults`: crashes, full disks and cleanups that fail. One leaves a stale
  record, an empty one, a lifecycle lock or orphaned children, and the other
  lives meet what it left, at the same time or one after another; a second one
  interrupts their repair, or makes a start give up, and a third one the repair of
  that. Three lives are a process, one that comes after it with its number, and
  one that competes with either.

- `MaxHandoffs`, `MaxAsks`, and `MaxFaults` of `ConversationHandoff`, which counts crashes,
  errors, lost answers, stalls, blocked commands and expiries. Two handoffs take
  the Conversation away and then on to a third device, where it is restored once
  more, or back, where it cannot be, so that a lane left over from the first meets
  a device that owns it again. `Route` says where each handoff may go: the first one
  goes to `d2`, from which `d3` does not differ until then. With two asks a stop meets a prompt in flight, or a
  prompt follows one that left its checkpoint behind, before a
  handoff is requested or sealed. In `handoff` one fault hits any step of that; a lapse
  of a lease that nobody renews is not counted. The two faults of `handoff_live` are a
  worker that loses its answer and then its life, or a source and a target that fail
  one each. The proofs have none of these bounds.

`MaxAttempts`, `MaxQueued`, `ClaimBudget`, `MaxActive`, `MaxWaiting` are
parameters of the code, made small so that each limit is reached.
One task suffices for the scheduler, as its attempts meet only in the slots and
in the map of running attempts: three claims of the same task by one process, or
two processes with one task, meet in both. Symmetry is used in runs without liveness only.

Deadlock is not checked in any run: every system here may stop for good (all
tasks settled and deleted, all requests answered, all processes ended).

Fairness, and why the code justifies it:

- *Scheduler*: clocks advance, so leases and delays pass; timers fire, calls end, and an executor settles once the hard
  timeout aborts it. Claim calls that commit and change the
  row, personal and Team ones together, are strongly fair: the call fails now and
  then and is repeated by the timer for ever, so it succeeds eventually. Processes in
  `Mortal` may die at any time; one process is not in it, without which nobody
  would be left to settle anything.
- *Admission*: slots are released, since blocking and durable answers run under
  a hard timeout.
- *Queue*: backoffs and leases pass, handlers end, the poll timer fires, and the
  supervisor starts a Worker when there is none. Enqueues, lost responses and
  deaths are not fair, and bounded.
- *Drain*: the clock advances, the event loop runs what is ready, pool and
  database answer, and a broken session is noticed by its error event. Without
  the last one the controller would wait for ever; it does not poll.
- *Handoff*: the lanes go on, since every call returns or throws; a lane that
  is idle claims what it may, as later wakes and the startup drain reach it;
  leases nobody renews lapse; blocked sources are replicated; a worker that died is started
  again. Requests, prompts, stops and all faults are not fair. The instance has
  no prompts and stops, which only postpone a handoff.

## 5. Proofs

The proof modules prove, for any numbers of tasks, processes, jobs, faults and
so on, every safety property that a passing run checks. The one form of
argument is an inductive invariant `IInv`: it holds initially, every action
keeps it, and it implies the property (an action property follows from `IInv`
and one step). What had to be added to each property, and why:

- **MemoryAnswerTaskProofs.** Fencing needs that a claim is never ahead of
  its row, and that answers carry the fence of a claim that existed; these go
  together with the types. `TasksKeepPromise` is the refinement: `RowMoves`
  lists what one step can do to one row, each move is mapped to a step of
  `AnswerLifecycle` or none. `AttemptsAreCounted` adds that the claims are
  finitely many: a claim call adds one to the count and to the row at once, and
  a new row starts at zero because no claim precedes its acceptance (`Fencing`).
  `SettledTasksStay` and `LapsedLeasesStayLapsed` follow from `RowMoves` too;
  `CancellationHolds` is a part of the invariant.
- **MemoryAnswerSchedulerProofs.** `KnownClaims`: a process works only on claims
  that were handed out. That makes each heartbeat, completion and failure one
  that `MemoryAnswerTask` allows, hence `SchedulersImplementTasks`, and everything
  proved of the tasks holds of the schedulers (`SchedulerAnswersAreCurrent`,
  `SchedulersKeepPromise`). `SlotsAreAccounted` needs that the claim the drain
  loop has in hand is its own and has no attempt yet (`HandedOver`): otherwise
  the slot of the call would pass to an attempt that is already counted.
  `SoleAttemptsStop` needs `SoleAttemptIsKnown`: as long as a process was
  handed a task once, its map has that attempt until it ends, since only an attempt
  of the same task could take it out. `ClosingLeavesOne` follows from it, from
  `HandedOver` and from the drain loop being one: an attempt that appears after
  close() comes from the claim call that close() met.
- **AnswerAdmissionProofs.** `QueueIsWaiting`: the queue holds the requests that
  wait, each once and none of them aborted. So while somebody waits all
  slots are in use, and a freed one goes to the head of the queue and
  to nobody else (`FreedSlot`), which is all that `SlotsHeld`,
  `NobodyWaitsInVain` and `FirstComeFirstServed` need.
- **LocalWorkQueueProofs.** An active row carries the newest token
  (`ActiveIsNewest`), and the hand of a runtime holds a token that is no newer
  (`HandsAreClaims`): a report that still matches its row is the newest claim's.
  Types need `PendingHasAttemptLeft`, because `claim` does not look at
  `max_attempts`. `LockHeldByRunning` is the conditional half of
  `OneHandlerPerJob`. `LedgerIsKept` is the refinement, job by job (`JobMoves`):
  a statement that requeues some jobs and hands out another is a step
  of each of them. It needs `ClaimsAreUnique`, that no two hands hold one token of a
  job: else a job in the ledger would have two holders. `NextHands` says which
  hands a step keeps and which one it fills.
- **NotificationDrainProofs.** `WorkIsCovered` says who will see open work: the
  notification on its way, the drain that has not read yet, its repetition, or a
  timer, and then one that is early enough (`Timely`): a drain that read one
  item while another was committed must not sleep until the first is due.
  `IdleIsTimely` is what is left of it in an idle controller. `TakenIsDue` (what the drain
  has in hand is open and was due when it was read) gives `WorkIsNotPremature`.
- **RuntimeOwnershipProofs.** `OwnersRecordStays` is not inductive: the danger is
  the process about to call `rmSync`. `RemovedIsJudged` says that the file still
  is the record it judged, which holds because judging and removing happen under the lifecycle
  lock (`InsideHolds`), because only one judged dead is removed
  (`JudgedAreDead`), and because the dead do not come back
  (`RecordsAreOfTheBorn`): a new owner cannot appear while the old record is
  there. `StoppedStays` says that what an installer found stopped stays stopped once
  the native store exists, which is what `SecondPassHasStore` provides before
  the second pass. `FilesAreAccounted` names for each file the process that will
  remove it, and while nothing has failed that process lives, which is
  `HeldByTheLiving`.
- **ConversationHandoffProofs.** The proof first reduces every step to what it
  does to the rows (`RowsMove`: it inserts one of four kinds of command, or the
  rows only move as `RowsKept` allows) and to the lanes (`LaneWorks`: a lane that
  is busy works on in its attempt, or takes a command). The invariant then follows
  the argument of the design. Lanes hold commands of their kind, in attempts
  no other lane works in (`LanesHoldCommands`, `AttemptsDiffer`), so a prompt
  that is run cannot be settled from elsewhere (`PromptsAreHeld`). A request
  finds every prompt settled, and none is asked before the transfer
  (`PromptsAreSettled`). Sealing needs the lease of the execution, which is the
  owner's (`RunnerIsOwner`), and the one lane that could still demote the
  execution, to a state in which stops are accepted, would be the same lane: so
  once sealed, nothing is asked (`SealedIsClosed`), stops stand ahead of
  the verification (`StopsComeFirst`), and who verifies has found them settled
  (`VerifierFoundThemSettled`). A lane that works for the present generation
  is the owner's, or verifies on the target (`LanesAreCurrent`): that gives
  `FailuresAreOwn`, and with the history of the handoffs `Exclusivity`, the
  refinement. `PromptsRunOnce` needs `TurnsComeOnce`: a prompt that is queued, or
  that a lane is about to open, was never given to the provider, unless its
  checkpoint is pending. The lane that opens one holds it (`PromptsAreHeld`), so no other
  lane is as far, and whoever queues it afterwards marks it pending.
- **HandoffRestorationProofs.** `RestoredFirst` rests on that invariant and a
  second one, `RInv`. The danger is an older lane that lands, or a newer handoff
  that starts, on a restoration it knows nothing of. A generation that was handed on has one restore
  command (`RestoresAreUnique`), and the next handoff is not requested before it
  is settled (`RestoresAreSettled`): one that is blocked on its sources keeps its
  handoff in transit (`BlockedInTransit`). So a lane that still restores, even
  after a commit whose answer was lost, holds its command, works for the generation
  that is (`RestoresAreHeld`) and while the handoff is in transit
  (`RestorersAreInTime`); it goes beyond the transcript only when that is bound. Every other way
  to a session starts from a generation that runs or ran: prompts and
  quiesces are asked of one (`AsksAreRestored`), startup recovery reads one
  (`RecoveryIsRestored`).

Assumptions: only the named `ASSUME`s of the modules, which say that the bounds
are numbers (`Route`: sets of devices) and that `None` and the like are no members of
the sets beside them.

Some theorems state what no run lists, as the prover gives it for every
instance:

| Theorem | States |
| --- | --- |
| `SettledTasksStay` | a settled task only leaves by deletion |
| `CancellationHolds`, `LapsedLeasesStayLapsed` | a recorded cancellation sticks; a lapsed lease comes back under a higher fence only |
| `FencingHolds` | claims of a task carry different fences, none ahead of its row |
| `RestartsStayFree` | a restart costs no attempt |
| `PendingRowsHaveAttempts` | what `claim` may take has an attempt left |
| `CompletedJobsStay` | only another enqueue undoes a completed job |
| `RequestsStayServed` | a request made while a drain runs is served by it or the next one |
| `RetriesAreNotPostponed` | a pending retry is replaced by an earlier one only |
| `WorkIsNotPremature` | no item is processed twice or before it is due |
| `NothingStays` | no file is left when all have stopped without a fault |
| `LeftToTheLivingAtFirst` | until a fault, `stop` leaves records to a living holder only |

Only model-checked, not proved: all liveness, which is out of the prover's reach
as `ENABLED` is, and the properties of section 6, which do not hold.

One convention serves the proofs: an `EXCEPT` changes a function at one index
only, and the several fields of a row are set in a record `EXCEPT` of their own
(`[cmds EXCEPT ![c] = [cmds[c] EXCEPT !.state = ..., !.live = TRUE]]`). The prover's
SMT translation of one `EXCEPT` that names the same index twice is not sound
(FALSE follows from it), so neither the models nor the proofs use that form.

## 6. Where code and documents disagree

- `scheduler_cancel`. `docs/durable-memory-answer.md` says that a cancellation
  aborts the exact in-process attempt. The scheduler keeps attempts by task, and
  the `finally` of an old attempt removes whatever attempt the map holds for the
  task. If a lease lapses and the same process takes the task over, the newer
  attempt is dropped from the map when the older one ends, and a cancellation
  no longer reaches it. (A heartbeat that reports the cancellation does, later.)
  What holds is `SoleAttemptsAreStopped`, proved: an attempt whose process
  was handed its task once is always reached.
- `ownership_stale`. `docs/stopped-native-runtime.md` says that `koed stop`
  removes the stale records of a killed supervisor, and
  `docs/running-koed.md` that stale locks are reclaimed after their owner exits.
  A `stop` cleans up when there is a native store. A packaged supervisor holds the
  lifecycle lock as long as it lives, so when it is killed
  that lock stays too, and both the cleanup and the reclaim need it. The operator has to
  remove it, as another paragraph of `docs/running-koed.md` says. What holds is
  `LeftToTheLivingAtFirst`, proved: as long as nothing was killed or failed to
  clean up, a `stop` that leaves records leaves them to a living holder of that lock.
- `handoff_resume`. `docs/adr/0016-exclusive-execution-handoff-and-fork-lineage.md:97-98`
  says that a failure before the transfer leaves the source authoritative and
  allows to resume there. A quiesce that loses its lease, or fails three times, sets the
  execution failed, and nothing takes that or the handoff back. One lost
  answer suffices: once `prepareManagedConversationHandoff` has committed, each retry of
  the command conflicts with it. ADR 0065 has superseded the handoff requirements of
  ADR 0016 since, which "remain historical records": handoffs are outside the
  present scope of the product. It says as well that existing code may still implement
  them, and this is the code that does.

Six more observations from modelling the handoff, which no run states because
no document promises the contrary in so many words:

- A worker that dies after the lease transfer, before it completes
  `verify_target`, leaves that command dispatching in a generation nobody
  claims from; every later request finds an unsettled command and is refused.
- A restoration that fails for good, in a worker that dies before it sets the
  execution failed, leaves the execution reconciling without a runner: no
  restoration is due, and no stop is claimed without a runner. The ADR
  (lines 98-99) calls a failure after the transfer recoverable as restoring or failed.
- A Conversation that is handed back to a device it was on before is not restored
  there: Codex keeps the thread's rollout at one path, the restoration creates that file
  with the flag `wx`, and only a binding of the new generation would let it pass.
  Every attempt fails, and the execution with the third.
- A stop that is interrupted leaves the execution stopping.
- A prompt whose turn is over comes back for its checkpoint as often as capturing
  that fails: unlike a restoration it has no limit of attempts, and every later
  command of its generation waits for it.
- A certificate that expires, ten minutes after the source was sealed, leaves the
  execution quiesced and the handoff active.

## 7. Inventory of the rest, and the plan

`PROJECT.json` lists all components. Those not modelled yet, with what makes
them correct:

| Component | State and operations | Hard part, and properties worth stating |
| --- | --- | --- |
| Memory Answer runtime delivery (coordinator, runtime, routes) | subscriptions, streams, waits for settlement | reconnects; a settled task reaches each waiting client once, a lost event is made up by a read |
| Embedding priority scheduler | one slot, priorities, arrival numbers | order, no lost wake-up on abort and close |
| Embedding workflow, capacity; job workflows | enqueue, debounce, reconcile | a client of the queue: work lost by a coalesced enqueue is found by reconciliation |
| Durable realtime client | cursor, epoch, reconnect | no gap and no repetition; refinement of an ordered log |
| Managed conversations, the rest: forks, checkpoints, terminals, settings | commands, turns, checkpoints | a checkpoint of a prompt is captured once; a fork starts from a point that exists |
| High-risk action grants | request, approval, grant, consumption | used once, never after expiry or revocation, bound to its content |
| Remote MCP OAuth | codes, access and refresh tokens | rotation; reuse of an old token revokes the family |
| Personal device sync | relay mailboxes, devices, custody | sequences, acknowledgement, removal of a device during a delivery |
| Personal membership history | causal history, merge | pure: commutative, associative, idempotent on bounded histories |
| Conversation source journal, replication, Cross-Identity Sync | append, sequence, checkpoints | idempotent append, no gap after a crash |
| Shared Memory, pending shares | proposals, reviews, materialization | no share after revocation; the rest is SQL policy |
| Curated Memory, retention, collaboration | transition tables, holds, cursors | holds win over purges; cursors are monotone |
| Encrypted state transactions | journal, two files | crash at each write recovers to old or new |
| Component store, generation staging | payload directories, store lock | cleaning never removes the active or pinned generation |
| Transcript watchers, historical import | offsets of growing files | each line once across truncation and restart |
| Identity, secrets, encrypted payloads; privacy service; local edge; retrieval and graph queries; API shell; desktop; command line, evaluations, UI; schema and migrations | | not planned: cryptography, external processes, reads, presentation, declarations. Constraints and unique indexes of the schema are used where a model rests on them |

Order of the work:

1. Done: the answer tasks and their scheduler, admission, the work queue, the
   notification drain, runtime ownership, the transfer of Conversations; proofs
   for all of them.
2. `StateTransaction`: the encrypted state's journal and two files, with a crash at each
   write, refining an atomic commit; `SourceJournal`, which the sealed source of
   a handoff rests on.
3. `AnswerDelivery` on top of `MemoryAnswerScheduler`'s settled tasks; its
   abstract specification is that each waiting client gets the settled state of its task.
4. `EmbeddingPriorityScheduler`, small and complete; `JobReconciliation`,
   which composes `LocalWorkQueue` with the schedulers that enqueue into it.
5. `DurableRealtime`, refining an ordered log; `ActionGrants` and `OAuthTokens`,
   with single use as theorems.
6. `DeviceRelay`, `MembershipHistory` (a pure algorithm against a reference definition).
7. Proofs for the modules above that have a refinement.
