-------------------------- MODULE ConversationHandoff --------------------------
(***************************************************************************)
(* Handing a managed Conversation from one device to another.              *)
(*                                                                         *)
(* The database keeps the execution (who may write, in which generation),  *)
(* its commands, its handoffs and the authority log; every repository      *)
(* method is one transaction and one action here.  Each device runs one    *)
(* worker process with three lanes: the command lane (processOnce), the    *)
(* control lane (stop) and startup recovery, and a heartbeat that closes a *)
(* provider session whose lease it cannot renew.  What a worker read       *)
(* before an await is remembered in its record and may be stale when used. *)
(*                                                                         *)
(* Abstracted: keys, certificates and digests (the hash of the authority   *)
(* log is determined by its sequence), workspace snapshots and transcripts *)
(* (they verify or throw), clocks (a lease or a certificate is live until  *)
(* an action lets it lapse).  The provider is Codex.                       *)
(***************************************************************************)
EXTENDS Naturals, Sequences

CONSTANTS Devices,       \* the User's devices
          Home,          \* where the Conversation starts
          MaxHandoffs,   \* bound on requests
          Route,         \* bound: Route[h] holds the devices the h-th handoff may go to
          MaxAsks,       \* bound on prompts and stops
          MaxFaults,     \* bound on crashes, errors, lost answers, stalls and expiries
          None

ASSUME HandoffAssumption ==
  /\ Home \in Devices /\ None \notin Devices /\ None \notin Devices \X Nat
  /\ Route \in [1..MaxHandoffs -> SUBSET Devices]
  /\ MaxHandoffs \in Nat /\ MaxAsks \in Nat /\ MaxFaults \in Nat

VARIABLES
  exec,      \* the execution row
  log,       \* the authority log: its head, and the highest generation (0: no log)
  handoffs,  \* handoff rows, oldest first
  cmds,      \* command rows by sequence
  life,      \* life[d]: which process of the device this is
  up,        \* up[d]: it runs
  session,   \* session[d]: generation of the provider session it keeps, 0 if none
  work,      \* work[d]: the command lane
  stopper,   \* stopper[d]: the control lane
  recovery,  \* recovery[d]: startup recovery
  copy,      \* copy[g]: the transcript generation g restores from
  asks, faults

rows == <<exec, log, handoffs, cmds>>
lanes == <<work, stopper, recovery>>
vars == <<rows, life, up, session, lanes, copy, asks, faults>>

Gens == 1..(MaxHandoffs + 1)
Me(d) == <<d, life[d]>>
Settled == {"completed", "failed", "canceled"}
Ended == {"stopped", "failed", "fenced"}
Before == {"quiesce_requested", "source_sealed", "workspace_prepared", "target_verified"}

Idle == [pc |-> "idle", cmd |-> 0, att |-> 0, ver |-> 0, hver |-> 0, gen |-> 0, lost |-> FALSE]

Init ==
  /\ exec = [state |-> "running", gen |-> 1, ver |-> 1, device |-> Home,
             runner |-> <<Home, 1>>, live |-> TRUE]
  /\ log = [head |-> 0, highest |-> 0]
  /\ handoffs = <<>> /\ cmds = <<>>
  /\ life = [d \in Devices |-> 1] /\ up = [d \in Devices |-> TRUE]
  /\ session = [d \in Devices |-> IF d = Home THEN 1 ELSE 0]
  /\ work = [d \in Devices |-> Idle] /\ stopper = [d \in Devices |-> Idle]
  /\ recovery = [d \in Devices |-> [pc |-> "done", gen |-> 0]]
  /\ copy = [g \in Gens |-> "none"]
  /\ asks = 0 /\ faults = 0

------------------------------------------------------------------------------
(* The rows.                                                               *)

Last == handoffs[Len(handoffs)]
Stage == IF handoffs = <<>> THEN "none" ELSE Last.state
Active == Stage \notin {"none", "running"}
SetLast(h) == handoffs' = [handoffs EXCEPT ![Len(handoffs)] = h]

\* The device that owns generation g: where the Conversation began, or the
\* target of the handoff before it.
Owner(g) == IF g = 1 THEN Home ELSE handoffs[g - 1].target

\* turns counts how often the provider was given a prompt, no column of the row:
\* a turn that began may show in the User's conversation items.  pending: of the
\* prompt only its checkpoint is to do (the phase of its result).
Command(kind, gen, device) ==
  [kind |-> kind, gen |-> gen, device |-> device, state |-> "queued",
   attempts |-> 0, live |-> FALSE, turns |-> 0, pending |-> FALSE]

Insert(kind, gen, device) == cmds' = Append(cmds, Command(kind, gen, device))

\* Mutant: the state is set without comparing version and generation.
SetStateBlindly(ver, gen) == TRUE

\* setManagedConversationExecutionState, whose condition is SetStateOK.
SetStateOK(ver, gen) == exec.ver = ver /\ exec.gen = gen
SetState(state) ==
  exec' = IF state \in Ended
          THEN [exec EXCEPT !.state = state, !.ver = @ + 1, !.runner = None, !.live = FALSE]
          ELSE [exec EXCEPT !.state = state, !.ver = @ + 1]

\* The runner of the execution may be replaced by this worker.
Free(d) == exec.runner \in {None, Me(d)} \/ ~exec.live

\* Every command of the execution, of whatever generation.
Unsettled == \E c \in DOMAIN cmds : cmds[c].state \in {"queued", "dispatching", "indeterminate"}

------------------------------------------------------------------------------
(* What the User asks for.                                                 *)

\* Mutant: the target may be the device that owns the Conversation.
RequestAnywhere(target) ==
  /\ Len(handoffs) < MaxHandoffs /\ target \in Route[Len(handoffs) + 1]
  /\ exec.state = "running"
  /\ ~Unsettled /\ ~Active
  /\ log' = IF log.highest = 0 THEN [log EXCEPT !.highest = exec.gen] ELSE log
  /\ handoffs' = Append(handoffs,
       [state |-> "quiesce_requested", ver |-> 1, source |-> exec.device, target |-> target,
        gen |-> exec.gen, seq |-> 0, expired |-> FALSE, ready |-> "none",
        owner |-> None, live |-> FALSE])
  /\ Insert("quiesce", exec.gen, None)
  /\ exec' = [exec EXCEPT !.state = "quiesce_requested", !.ver = @ + 1]
  /\ UNCHANGED <<life, up, session, lanes, copy, asks, faults>>

Request(target) ==
  /\ Len(handoffs) < MaxHandoffs /\ target \in Route[Len(handoffs) + 1]
  /\ exec.state = "running" /\ target # exec.device
  /\ ~Unsettled /\ ~Active
  /\ log' = IF log.highest = 0 THEN [log EXCEPT !.highest = exec.gen] ELSE log
  /\ handoffs' = Append(handoffs,
       [state |-> "quiesce_requested", ver |-> 1, source |-> exec.device, target |-> target,
        gen |-> exec.gen, seq |-> 0, expired |-> FALSE, ready |-> "none",
        owner |-> None, live |-> FALSE])
  /\ Insert("quiesce", exec.gen, None)
  /\ exec' = [exec EXCEPT !.state = "quiesce_requested", !.ver = @ + 1]
  /\ UNCHANGED <<life, up, session, lanes, copy, asks, faults>>

\* Mutant: a prompt or a stop is accepted in any state that has not ended.
AskWheneverAlive(kind) ==
  /\ asks < MaxAsks /\ asks' = asks + 1
  /\ exec.state \notin Ended
  /\ Insert(kind, exec.gen, None)
  /\ UNCHANGED <<exec, log, handoffs, life, up, session, lanes, copy, faults>>

Ask(kind) ==
  /\ asks < MaxAsks /\ asks' = asks + 1
  /\ exec.state \in (IF kind = "prompt" THEN {"running"} ELSE {"running", "reconciling"})
  /\ Insert(kind, exec.gen, None)
  /\ UNCHANGED <<exec, log, handoffs, life, up, session, lanes, copy, faults>>

------------------------------------------------------------------------------
(* The command lane.                                                       *)

\* Mutant: a command whose worker died is not claimed again.
ClaimableOnce(d, c) ==
  /\ cmds[c].state = "queued"
  /\ cmds[c].kind # "stop" /\ cmds[c].gen = exec.gen
  /\ \A p \in 1..(c - 1) : cmds[p].gen = cmds[c].gen => cmds[p].state \in Settled
  /\ IF cmds[c].device = None THEN exec.device = d ELSE cmds[c].device = d
  /\ exec.state \notin Ended
  /\ cmds[c].kind = "verify_target" \/ Free(d)

Claimable(d, c) ==
  /\ \/ cmds[c].state = "queued"
     \/ cmds[c].state = "dispatching" /\ ~cmds[c].live /\ cmds[c].kind # "prompt"
  /\ cmds[c].kind # "stop" /\ cmds[c].gen = exec.gen
  /\ \A p \in 1..(c - 1) : cmds[p].gen = cmds[c].gen => cmds[p].state \in Settled
  /\ IF cmds[c].device = None THEN exec.device = d ELSE cmds[c].device = d
  /\ exec.state \notin Ended
  /\ cmds[c].kind = "verify_target" \/ Free(d)

\* Mutant: a prompt whose checkpoint is pending is run from its beginning.
EntryAfresh(c) ==
  CASE cmds[c].kind = "quiesce" -> IF exec.state = "quiesced" THEN "handoff" ELSE "open"
    [] cmds[c].kind = "prompt" -> "open"
    [] OTHER -> cmds[c].kind

\* Where runCommand begins: a quiesce that finds the execution quiesced seals
\* nothing, a prompt that has a turn only captures what is left of it.
Entry(c) ==
  CASE cmds[c].kind = "quiesce" -> IF exec.state = "quiesced" THEN "handoff" ELSE "open"
    [] cmds[c].kind = "prompt" -> IF cmds[c].pending THEN "capture" ELSE "open"
    [] OTHER -> cmds[c].kind

Claim(d) ==
  /\ up[d] /\ work[d].pc = "idle"
  /\ \E c \in DOMAIN cmds :
       /\ Claimable(d, c)
       /\ cmds' = [cmds EXCEPT ![c] = [cmds[c] EXCEPT !.state = "dispatching", !.attempts = @ + 1,
                                                !.live = TRUE]]
       /\ exec' = IF cmds[c].kind = "verify_target" THEN exec
                  ELSE [exec EXCEPT !.runner = Me(d), !.live = TRUE]
       /\ work' = [work EXCEPT ![d] = [Idle EXCEPT !.pc = Entry(c), !.cmd = c,
                                         !.att = cmds[c].attempts + 1, !.ver = exec.ver]]
  /\ UNCHANGED <<log, handoffs, life, up, session, stopper, recovery, copy, asks, faults>>

Mine(d) == cmds[work[d].cmd]
Holds(w) == cmds[w.cmd].state = "dispatching" /\ cmds[w.cmd].attempts = w.att

\* Only for its checkpoint is a prompt ever queued again.
Left(c, state) == cmds[c].pending \/ (cmds[c].kind = "prompt" /\ state = "queued")
Fault == faults < MaxFaults /\ faults' = faults + 1

\* The lane goes on with w, or the answer is lost and it takes the error path.
Goes(d, w) ==
  \/ work' = [work EXCEPT ![d] = w] /\ UNCHANGED faults
  \/ work' = [work EXCEPT ![d].pc = "fail"] /\ Fault

To(d, label) == Goes(d, [work[d] EXCEPT !.pc = label])
Raise(d) == work' = [work EXCEPT ![d].pc = "fail"] /\ UNCHANGED faults

LaneOnly == UNCHANGED <<rows, life, up, session, stopper, recovery, copy, asks>>

\* sessionFor, then the provider operation under the command's lease.
Open(d) ==
  /\ work[d].pc = "open" /\ ~work[d].lost
  /\ session' = [session EXCEPT ![d] = Mine(d).gen]
  /\ cmds' = IF Mine(d).kind = "prompt" THEN [cmds EXCEPT ![work[d].cmd].turns = @ + 1] ELSE cmds
  /\ To(d, IF Mine(d).kind = "prompt" THEN "turn"
           ELSE IF Mine(d).kind = "quiesce" THEN "seal" ELSE "complete")
  /\ UNCHANGED <<exec, log, handoffs, life, up, stopper, recovery, copy, asks>>

\* The turn is over: bindManagedConversationSourceGeneration takes the transcript
\* it grew for the execution's, a new version unless an earlier turn did that.
BindSource(d) ==
  /\ work[d].pc = "turn" /\ ~work[d].lost
  /\ IF exec.gen = Mine(d).gen /\ exec.runner = Me(d) /\ exec.state = "running"
     THEN exec' \in {exec, [exec EXCEPT !.ver = @ + 1]} /\ To(d, "mark")
     ELSE Raise(d) /\ UNCHANGED exec
  /\ UNCHANGED <<log, handoffs, cmds, life, up, session, stopper, recovery, copy, asks>>

\* The row says so before the checkpoint is captured.
EndTurn(d) ==
  /\ work[d].pc = "mark"
  /\ IF Holds(work[d]) /\ Mine(d).gen = exec.gen
     THEN cmds' = [cmds EXCEPT ![work[d].cmd].pending = TRUE] /\ To(d, "complete")
     ELSE Raise(d) /\ UNCHANGED cmds
  /\ UNCHANGED <<exec, log, handoffs, life, up, session, stopper, recovery, copy, asks>>

\* The checkpoint of an earlier turn is captured; the provider, when it is asked
\* for the rest of the transcript, under the lease.
Capture(d) ==
  /\ work[d].pc = "capture"
  /\ UNCHANGED session \/ (~work[d].lost /\ session' = [session EXCEPT ![d] = Mine(d).gen])
  /\ To(d, "complete")
  /\ UNCHANGED <<rows, life, up, stopper, recovery, copy, asks>>

\* quiesceAndSealSources ends the provider; the session leaves the map.
Seal(d) ==
  /\ work[d].pc = "seal" /\ ~work[d].lost
  /\ session' = [session EXCEPT ![d] = 0]
  /\ To(d, "quiesce")
  /\ UNCHANGED <<rows, life, up, stopper, recovery, copy, asks>>

Quiesce(d) ==
  /\ work[d].pc = "quiesce"
  /\ IF SetStateOK(work[d].ver, Mine(d).gen)
     THEN SetState("quiesced") /\ To(d, "handoff")
     ELSE Raise(d) /\ UNCHANGED exec
  /\ UNCHANGED <<log, handoffs, cmds, life, up, session, stopper, recovery, copy, asks>>

\* The active handoff is read; the workspace snapshot is taken afterwards.
ReadHandoff(d) ==
  /\ work[d].pc = "handoff"
  /\ IF Active THEN Goes(d, [work[d] EXCEPT !.pc = "prepare", !.hver = Last.ver])
     ELSE To(d, "complete")
  /\ LaneOnly

Prepare(d) ==
  /\ work[d].pc = "prepare"
  /\ IF /\ Last.state = "quiesce_requested" /\ Last.ver = work[d].hver
        /\ exec.state = "quiesced" /\ exec.gen = Last.gen /\ exec.runner = Me(d)
        /\ log.highest = Last.gen
     THEN /\ SetLast([Last EXCEPT !.state = "source_sealed", !.ver = @ + 2, !.seq = log.head + 1])
          /\ Goes(d, [work[d] EXCEPT !.pc = "attest", !.hver = Last.ver + 2])
     ELSE Raise(d) /\ UNCHANGED handoffs
  /\ UNCHANGED <<exec, log, cmds, life, up, session, stopper, recovery, copy, asks>>

Attest(d) ==
  /\ work[d].pc = "attest"
  /\ IF Last.state = "source_sealed" /\ Last.ver = work[d].hver
     THEN /\ SetLast([Last EXCEPT !.state = "workspace_prepared", !.ver = @ + 1])
          /\ Insert("verify_target", Last.gen, Last.target)
          /\ To(d, "complete")
     ELSE Raise(d) /\ UNCHANGED <<handoffs, cmds>>
  /\ UNCHANGED <<exec, log, life, up, session, stopper, recovery, copy, asks>>

\* The exact closure of the source has not reached the authority, or the target.
Block(d) ==
  /\ work[d].pc \in {"prepare", "checkout"} /\ Fault
  /\ Mine(d).state = "dispatching" /\ Mine(d).attempts = work[d].att
  /\ cmds' = [cmds EXCEPT ![work[d].cmd] = [@ EXCEPT !.state = "blocked", !.live = FALSE]]
  /\ work' = [work EXCEPT ![d] = Idle]
  /\ UNCHANGED <<exec, log, handoffs, life, up, session, stopper, recovery, copy, asks>>

Replicated(c) ==
  /\ cmds[c].state = "blocked"
  /\ cmds' = [cmds EXCEPT ![c].state = "queued"]
  /\ UNCHANGED <<exec, log, handoffs, life, up, session, lanes, copy, asks, faults>>

\* verify_target on the target device: evidence that is missing or stale is
\* collected again, then the lease is transferred.
Targeted(d) == Active /\ Last.target = d
Evidence ==
  CASE Last.state = "target_verified" /\ Last.ready = "fresh" -> "sound"
    [] Last.state \in {"workspace_prepared", "target_verified"} -> "wanting"
    [] Last.state \in {"lease_transferred", "restoring"} -> "used"
    [] OTHER -> "absent"

ReadTarget(d) ==
  /\ work[d].pc = "verify_target"
  /\ \/ Targeted(d) /\ Evidence = "wanting" /\ To(d, "checkout")
     \/ /\ Targeted(d) /\ Evidence = "sound"
        /\ Goes(d, [work[d] EXCEPT !.pc = "commit", !.hver = Last.ver])
     \/ Targeted(d) /\ Evidence = "used" /\ To(d, "complete")
     \/ (Targeted(d) => Evidence = "absent") /\ Raise(d)
  /\ LaneOnly

\* checkoutForTarget reads the active handoff again and materializes what it names.
Checkout(d) ==
  /\ work[d].pc = "checkout"
  /\ IF Targeted(d)
     THEN Goes(d, [work[d] EXCEPT !.hver = Last.ver,
                     !.pc = IF Mine(d).kind = "restore" THEN "begin" ELSE "verify"])
     ELSE Raise(d)
  /\ LaneOnly

Verify(d) ==
  /\ work[d].pc = "verify"
  /\ IF /\ Last.state \in {"workspace_prepared", "target_verified"}
        /\ Last.ver = work[d].hver /\ Last.target = d
     THEN /\ SetLast([Last EXCEPT !.state = "target_verified", !.ver = @ + 1, !.ready = "fresh"])
          /\ Goes(d, [work[d] EXCEPT !.pc = "commit", !.hver = Last.ver + 1])
     ELSE Raise(d) /\ UNCHANGED handoffs
  /\ UNCHANGED <<exec, log, cmds, life, up, session, stopper, recovery, copy, asks>>

MayCommit(ver) ==
  /\ Last.state = "target_verified" /\ Last.ver = ver
  /\ Last.ready = "fresh" /\ ~Last.expired
  /\ log.head + 1 = Last.seq /\ log.highest = Last.gen
  /\ exec.gen = Last.gen /\ exec.state = "quiesced"

\* Mutant: the transfer is not appended to the authority log.
CommitUnlogged(d) ==
  /\ work[d].pc = "commit"
  /\ IF MayCommit(work[d].hver)
     THEN /\ exec' = [state |-> "reconciling", gen |-> Last.gen + 1, ver |-> exec.ver + 1,
                      device |-> Last.target, runner |-> None, live |-> FALSE]
          /\ SetLast([Last EXCEPT !.state = "lease_transferred", !.ver = @ + 1])
          /\ Insert("restore", Last.gen + 1, Last.target)
          /\ To(d, "complete")
     ELSE Raise(d) /\ UNCHANGED <<exec, handoffs, cmds>>
  /\ UNCHANGED <<log, life, up, session, stopper, recovery, copy, asks>>

\* One transaction moves the log, the execution and the handoff, and asks the
\* target to restore.
Commit(d) ==
  /\ work[d].pc = "commit"
  /\ IF MayCommit(work[d].hver)
     THEN /\ log' = [head |-> Last.seq, highest |-> Last.gen + 1]
          /\ exec' = [state |-> "reconciling", gen |-> Last.gen + 1, ver |-> exec.ver + 1,
                      device |-> Last.target, runner |-> None, live |-> FALSE]
          /\ SetLast([Last EXCEPT !.state = "lease_transferred", !.ver = @ + 1])
          /\ Insert("restore", Last.gen + 1, Last.target)
          /\ To(d, "complete")
     ELSE Raise(d) /\ UNCHANGED <<log, exec, handoffs, cmds>>
  /\ UNCHANGED <<life, up, session, stopper, recovery, copy, asks>>

\* restore: the latest handoff; one that is running has only lost its command.
ReadLatest(d) ==
  /\ work[d].pc = "restore"
  /\ IF Last.target # d \/ (Last.state = "running" /\ copy[Mine(d).gen] # "bound")
     THEN Raise(d)
     ELSE To(d, IF Last.state = "running" THEN "open" ELSE "checkout")
  /\ LaneOnly

Begin(d) ==
  /\ work[d].pc = "begin"
  /\ IF /\ Last.ver = work[d].hver /\ Last.target = d
        /\ \/ Last.state = "lease_transferred"
           \/ Last.state = "restoring" /\ (Last.owner = Me(d) \/ ~Last.live)
     THEN LET ver == IF Last.state = "restoring" THEN Last.ver ELSE Last.ver + 1 IN
          /\ SetLast([Last EXCEPT !.state = "restoring", !.ver = ver,
                                  !.owner = Me(d), !.live = TRUE])
          /\ Goes(d, [work[d] EXCEPT !.pc = "write", !.hver = ver])
     ELSE Raise(d) /\ UNCHANGED handoffs
  /\ UNCHANGED <<exec, log, cmds, life, up, session, stopper, recovery, copy, asks>>

\* The thread's rollout has one path in the Codex home of a device: the first
\* owner has it from the beginning, a later one since an attempt wrote it there.
HasRollout(d) ==
  d = Home \/ \E g \in Gens : copy[g] # "none" /\ Owner(g) = d

\* Mutant: a transcript left by an attempt that died is taken for restored.
WriteOver(d) ==
  LET g == Mine(d).gen IN
  /\ work[d].pc = "write"
  /\ copy' = [copy EXCEPT ![g] = IF @ = "bound" THEN "bound" ELSE "written"]
  /\ To(d, IF copy[g] = "none" THEN "bind" ELSE "land")
  /\ UNCHANGED <<rows, life, up, session, stopper, recovery, asks>>

\* The transcript is created with the flag wx unless a binding of this generation
\* names it: what an attempt that died left, or a generation that the device
\* owned before, is never written over, and the restoration fails.
Write(d) ==
  LET g == Mine(d).gen IN
  /\ work[d].pc = "write"
  /\ IF copy[g] # "bound" /\ HasRollout(d) THEN Raise(d) /\ UNCHANGED copy
     ELSE /\ copy' = [copy EXCEPT ![g] = IF @ = "bound" THEN "bound" ELSE "written"]
          /\ To(d, "bind")
  /\ UNCHANGED <<rows, life, up, session, stopper, recovery, asks>>

\* The provider resumed under the lease; its identity is bound on the device.
Bind(d) ==
  /\ work[d].pc = "bind" /\ ~work[d].lost
  /\ copy' = [copy EXCEPT ![Mine(d).gen] = "bound"]
  /\ To(d, "land")
  /\ UNCHANGED <<rows, life, up, session, stopper, recovery, asks>>

Land(d) ==
  /\ work[d].pc = "land"
  /\ IF /\ Last.state = "restoring" /\ Last.ver = work[d].hver /\ Last.target = d
        /\ Last.owner = Me(d) /\ Last.live
        /\ exec.gen = Last.gen + 1 /\ exec.state = "reconciling"
     THEN /\ exec' = [exec EXCEPT !.state = "running", !.ver = @ + 1, !.runner = Me(d), !.live = TRUE]
          /\ SetLast([Last EXCEPT !.state = "running", !.ver = @ + 2, !.owner = None, !.live = FALSE])
          /\ To(d, "enlist")
     ELSE Raise(d) /\ UNCHANGED <<exec, handoffs>>
  /\ UNCHANGED <<log, cmds, life, up, session, stopper, recovery, copy, asks>>

\* The answer has arrived: the restored session enters the map.
Enlist(d) ==
  /\ work[d].pc = "enlist"
  /\ session' = [session EXCEPT ![d] = Mine(d).gen]
  /\ work' = [work EXCEPT ![d].pc = "complete"]
  /\ UNCHANGED <<rows, life, up, stopper, recovery, copy, asks, faults>>

Finish(w, state) ==
  cmds' = IF Holds(w)
          THEN [cmds EXCEPT ![w.cmd] = [@ EXCEPT !.state = state, !.live = FALSE,
                                                   !.pending = Left(w.cmd, state)]]
          ELSE cmds

\* completeManagedConversationCommand; a heartbeat that failed meanwhile throws here.
Complete(d) ==
  /\ work[d].pc = "complete"
  /\ Finish(work[d], "completed")
  /\ IF work[d].lost THEN Raise(d)
     ELSE Goes(d, Idle)
  /\ UNCHANGED <<exec, log, handoffs, life, up, session, stopper, recovery, copy, asks>>

\* A prompt is never retried: it is indeterminate, or what was captured of its turn
\* settles it or queues its checkpoint, or no provider operation ran at all.
OnePrompt(d) == Mine(d).kind = "prompt"
Terminal(d) == OnePrompt(d) \/ work[d].lost \/ work[d].att >= 3

\* The state of the failed command, and whether the failure ends the session.
Failures(d) ==
  IF ~OnePrompt(d)
  THEN {<<IF Terminal(d) THEN "failed" ELSE "queued", Terminal(d) /\ Mine(d).kind # "verify_target">>}
  ELSE IF Holds(work[d]) /\ Mine(d).pending THEN {<<"queued", FALSE>>}
  ELSE {<<"indeterminate", TRUE>>} \cup
       (IF ~Holds(work[d]) THEN {}
        ELSE IF Mine(d).turns = 0 THEN {<<"failed", FALSE>>}
        ELSE {<<"completed", FALSE>>, <<"completed", TRUE>>, <<"queued", FALSE>>})

\* failManagedConversationCommand.  When its own answer is lost, before or after
\* its commit, the lane goes on as if it had changed nothing.
FailCommand(d) ==
  /\ work[d].pc = "fail"
  /\ \E r \in Failures(d), heard \in BOOLEAN :
       /\ IF heard THEN UNCHANGED faults ELSE Fault
       /\ Finish(work[d], r[1]) \/ (~heard /\ UNCHANGED cmds)
       /\ LET closes == IF heard \/ ~OnePrompt(d) THEN r[2] ELSE r[1] # "failed" IN
          work' = [work EXCEPT ![d] = IF closes THEN [@ EXCEPT !.pc = "close"] ELSE Idle]
  /\ UNCHANGED <<exec, log, handoffs, life, up, session, stopper, recovery, copy, asks>>

\* The session is closed, then the execution is read.
Close(d) ==
  /\ work[d].pc = "close"
  /\ session' = [session EXCEPT ![d] = 0]
  /\ work' = [work EXCEPT ![d] =
       IF exec.gen = Mine(d).gen /\ exec.state \notin Ended \cup {"stopping"}
       THEN [@ EXCEPT !.pc = "set", !.ver = exec.ver] ELSE Idle]
  /\ UNCHANGED <<rows, life, up, stopper, recovery, copy, asks, faults>>

Demote(d) ==
  /\ work[d].pc = "set"
  /\ IF SetStateOK(work[d].ver, Mine(d).gen)
     THEN SetState(IF OnePrompt(d) THEN "reconciling" ELSE "failed")
     ELSE UNCHANGED exec
  /\ work' = [work EXCEPT ![d] = Idle]
  /\ UNCHANGED <<log, handoffs, cmds, life, up, session, stopper, recovery, copy, asks, faults>>

\* Anything a lane awaits may throw; under a lost lease the provider is closed.
Busy(d) == work[d].pc \notin {"idle", "fail", "close", "set", "enlist"}
Throw(d) ==
  /\ Busy(d) /\ work' = [work EXCEPT ![d].pc = "fail"]
  /\ IF work[d].lost THEN UNCHANGED faults ELSE Fault
  /\ LaneOnly

\* The heartbeat renews the command with the lease of the execution, and the
\* restoration with its own.
Renewable(d) ==
  /\ Holds(work[d]) /\ Mine(d).live
  /\ Mine(d).kind # "verify_target" => exec.runner = Me(d) /\ exec.live
  /\ work[d].pc \in {"write", "bind", "land"} => Last.owner = Me(d) /\ Last.live
LoseLease(d) ==
  /\ Busy(d) /\ ~work[d].lost /\ ~Renewable(d)
  /\ work' = [work EXCEPT ![d].lost = TRUE] /\ UNCHANGED faults
  /\ LaneOnly

------------------------------------------------------------------------------
(* Reconciling a prompt whose worker died, before the next claim.          *)

Reconcile(d) ==
  /\ up[d] /\ work[d].pc = "idle" /\ exec.device = d
  /\ \E c \in DOMAIN cmds, state \in {"completed", "queued", "indeterminate"} :
       /\ cmds[c].kind = "prompt" /\ cmds[c].state = "dispatching" /\ ~cmds[c].live
       /\ state # "indeterminate" => cmds[c].turns > 0
       /\ cmds' = [cmds EXCEPT ![c] = [cmds[c] EXCEPT !.state = state, !.pending = Left(c, state)]]
  /\ UNCHANGED <<exec, log, handoffs, life, up, session, lanes, copy, asks, faults>>

------------------------------------------------------------------------------
(* The control lane: stop.                                                 *)

ToStop(d, label) == stopper' = [stopper EXCEPT ![d].pc = label]
StopGen(d) == cmds[stopper[d].cmd].gen
StopOnly == UNCHANGED <<log, handoffs, life, up, work, recovery, copy, asks, faults>>

ClaimStop(d) ==
  /\ up[d] /\ stopper[d].pc = "idle"
  /\ exec.device = d /\ exec.runner = Me(d) /\ exec.live /\ exec.state \notin Ended
  /\ \E c \in DOMAIN cmds :
       /\ cmds[c].kind = "stop" /\ cmds[c].state = "queued" /\ cmds[c].gen = exec.gen
       /\ cmds' = [cmds EXCEPT ![c] = [cmds[c] EXCEPT !.state = "dispatching", !.attempts = @ + 1,
                                                !.live = TRUE]]
       /\ stopper' = [stopper EXCEPT ![d] = [Idle EXCEPT !.pc = "read", !.cmd = c,
                                              !.att = cmds[c].attempts + 1]]
  /\ UNCHANGED <<exec, session>> /\ StopOnly

ReadToStop(d) ==
  /\ stopper[d].pc \in {"read", "reread"}
  /\ LET first == stopper[d].pc = "read" IN
     stopper' = [stopper EXCEPT ![d] = [@ EXCEPT !.ver = exec.ver, !.gen = exec.gen, !.pc =
       CASE first /\ exec.gen # StopGen(d) -> "fail"
         [] first /\ exec.gen = StopGen(d) -> IF exec.state = "stopping" THEN "close" ELSE "stopping"
         [] ~first -> IF exec.state = "stopped" THEN "complete" ELSE "stopped"]]
  /\ UNCHANGED <<exec, cmds, session>> /\ StopOnly

SetStop(d) ==
  /\ stopper[d].pc \in {"stopping", "stopped"}
  /\ IF SetStateOK(stopper[d].ver, stopper[d].gen)
     THEN /\ SetState(stopper[d].pc)
          /\ ToStop(d, IF stopper[d].pc = "stopping" THEN "close" ELSE "complete")
     ELSE ToStop(d, "fail") /\ UNCHANGED exec
  /\ UNCHANGED <<cmds, session>> /\ StopOnly

CloseToStop(d) ==
  /\ stopper[d].pc = "close"
  /\ session' = [session EXCEPT ![d] = 0] /\ ToStop(d, "reread")
  /\ UNCHANGED <<exec, cmds>> /\ StopOnly

\* Whatever a step awaits may throw.
StopThrows(d) ==
  /\ stopper[d].pc \notin {"idle", "fail"} /\ Fault /\ ToStop(d, "fail")
  /\ UNCHANGED <<rows, life, up, session, work, recovery, copy, asks>>

EndStop(d) ==
  /\ stopper[d].pc \in {"complete", "fail"}
  /\ Finish(stopper[d], IF stopper[d].pc = "fail" THEN "failed" ELSE "completed")
  /\ stopper' = [stopper EXCEPT ![d] = Idle]
  /\ UNCHANGED <<exec, session>> /\ StopOnly

------------------------------------------------------------------------------
(* Startup recovery, the heartbeat of open sessions, and the process.      *)

RecoveryOnly == UNCHANGED <<log, handoffs, cmds, life, up, work, stopper, copy, asks>>
Recover(d, label) == recovery' = [recovery EXCEPT ![d].pc = label]

List(d) ==
  /\ up[d] /\ recovery[d].pc = "due"
  /\ recovery' = [recovery EXCEPT ![d] =
       IF exec.device = d /\ exec.state = "running" /\ session[d] # exec.gen
       THEN [pc |-> "acquire", gen |-> exec.gen] ELSE [pc |-> "done", gen |-> 0]]
  /\ UNCHANGED <<exec, session, faults>> /\ RecoveryOnly

\* A lease that is still live is waited for; anything else is not tried again.
Acquire(d) ==
  /\ recovery[d].pc = "acquire"
  /\ IF exec.gen = recovery[d].gen /\ exec.device = d /\ exec.state = "running" /\ Free(d)
     THEN exec' = [exec EXCEPT !.runner = Me(d), !.live = TRUE] /\ Recover(d, "start")
     ELSE UNCHANGED exec /\ Recover(d, IF exec.live THEN "due" ELSE "done")
  /\ UNCHANGED <<session, faults>> /\ RecoveryOnly

\* releaseManagedConversationRunner.
Released(gen, d) ==
  IF /\ exec.gen = gen /\ exec.runner = Me(d)
     /\ \A c \in DOMAIN cmds : cmds[c].state # "dispatching"
  THEN [exec EXCEPT !.runner = None, !.live = FALSE] ELSE exec

Recovered(d) ==
  /\ recovery[d].pc = "start"
  /\ \/ /\ session' = [session EXCEPT ![d] = recovery[d].gen] /\ Recover(d, "done")
        /\ UNCHANGED <<exec, faults>>
     \/ exec' = Released(recovery[d].gen, d) /\ Recover(d, "due") /\ Fault /\ UNCHANGED session
  /\ RecoveryOnly

\* Mutant: the lease of any execution that has not ended is renewed.
OwnsWhileAlive(d) == exec.state \notin Ended

\* renewOwnedRuntimes closes the session whose lease it cannot renew.
Owns(d) ==
  /\ exec.gen = session[d] /\ exec.runner = Me(d) /\ exec.live /\ exec.state \notin Ended
RenewFails(d) ==
  /\ up[d] /\ session[d] # 0 /\ ~Owns(d)
  /\ session' = [session EXCEPT ![d] = 0]
  /\ UNCHANGED <<rows, life, up, lanes, copy, asks, faults>>

\* The process dies, or stop() waits for the lanes, closes and releases.
Dies(d) ==
  /\ Fault /\ up' = [up EXCEPT ![d] = FALSE] /\ session' = [session EXCEPT ![d] = 0]
  /\ work' = [work EXCEPT ![d] = Idle] /\ stopper' = [stopper EXCEPT ![d] = Idle]
  /\ recovery' = [recovery EXCEPT ![d] = [pc |-> "done", gen |-> 0]]
  /\ UNCHANGED <<log, handoffs, cmds, life, copy, asks>>
Crash(d) == up[d] /\ Dies(d) /\ UNCHANGED exec
Stop(d) ==
  /\ up[d] /\ Dies(d)
  /\ work[d].pc = "idle" /\ stopper[d].pc = "idle" /\ recovery[d].pc \in {"due", "done"}
  /\ exec' = IF session[d] # 0 THEN Released(session[d], d) ELSE exec

\* Mutant: the worker is started although it runs.
StartAgain(d) ==
  /\ up' = [up EXCEPT ![d] = TRUE] /\ life' = [life EXCEPT ![d] = @ + 1]
  /\ recovery' = [recovery EXCEPT ![d].pc = "due"]
  /\ UNCHANGED <<rows, session, work, stopper, copy, asks, faults>>

Start(d) ==
  /\ ~up[d]
  /\ up' = [up EXCEPT ![d] = TRUE] /\ life' = [life EXCEPT ![d] = @ + 1]
  /\ recovery' = [recovery EXCEPT ![d].pc = "due"]
  /\ UNCHANGED <<rows, session, work, stopper, copy, asks, faults>>

------------------------------------------------------------------------------
(* Time.  A lease nobody renews lapses; one that is renewed lapses only    *)
(* when its worker is stalled or its renewal fails, which is a fault.      *)

Alive(owner) == owner # None /\ up[owner[1]] /\ life[owner[1]] = owner[2]
Working(c) ==
  \E d \in Devices : \E w \in {work[d], stopper[d]} : w.pc # "idle" /\ w.cmd = c /\ Holds(w)
Unless(renewed) == IF renewed THEN Fault ELSE UNCHANGED faults
TimeOnly == UNCHANGED <<log, life, up, session, lanes, copy, asks>>

CommandLapses(c) ==
  /\ cmds[c].live /\ cmds' = [cmds EXCEPT ![c].live = FALSE]
  /\ Unless(Working(c)) /\ UNCHANGED <<exec, handoffs>> /\ TimeOnly
ExecutionLapses ==
  /\ exec.live /\ exec' = [exec EXCEPT !.live = FALSE]
  /\ Unless(Alive(exec.runner)) /\ UNCHANGED <<cmds, handoffs>> /\ TimeOnly
RestorationLapses ==
  /\ Active /\ Last.live /\ SetLast([Last EXCEPT !.live = FALSE])
  /\ Unless(Alive(Last.owner) /\ work[Last.owner[1]].pc \in {"write", "bind", "land"})
  /\ UNCHANGED <<cmds, exec>> /\ TimeOnly
Expires ==
  /\ Active /\ Last.state \in Before \ {"quiesce_requested"} /\ Fault
  /\ \/ ~Last.expired /\ SetLast([Last EXCEPT !.expired = TRUE])
     \/ Last.ready = "fresh" /\ SetLast([Last EXCEPT !.ready = "stale"])
  /\ UNCHANGED <<cmds, exec>> /\ TimeOnly

------------------------------------------------------------------------------
UserStep == (\E t \in Devices : Request(t)) \/ Ask("prompt") \/ Ask("stop")

LaneStep(d) ==
  \/ Open(d) \/ BindSource(d) \/ EndTurn(d) \/ Capture(d)
  \/ Seal(d) \/ Quiesce(d) \/ ReadHandoff(d) \/ Prepare(d) \/ Attest(d)
  \/ ReadTarget(d) \/ Checkout(d) \/ Verify(d) \/ Commit(d)
  \/ ReadLatest(d) \/ Begin(d) \/ Write(d) \/ Bind(d) \/ Land(d) \/ Enlist(d)
  \/ Complete(d) \/ FailCommand(d) \/ Close(d) \/ Demote(d)
  \/ Throw(d)
StopStep(d) == ClaimStop(d) \/ ReadToStop(d) \/ SetStop(d) \/ CloseToStop(d) \/ EndStop(d)
RecoveryStep(d) == List(d) \/ Acquire(d) \/ Recovered(d)
Lapse == (\E c \in DOMAIN cmds : CommandLapses(c)) \/ ExecutionLapses \/ RestorationLapses

Next ==
  \/ UserStep \/ Lapse \/ Expires \/ \E c \in DOMAIN cmds : Replicated(c)
  \/ \E d \in Devices : \/ Claim(d) \/ LaneStep(d) \/ Block(d) \/ LoseLease(d) \/ Reconcile(d)
                        \/ StopStep(d) \/ StopThrows(d) \/ RecoveryStep(d) \/ RenewFails(d)
                        \/ Crash(d) \/ Stop(d) \/ Start(d)

Fairness ==
  /\ \A d \in Devices :
       /\ WF_vars(Claim(d)) /\ WF_vars(LaneStep(d)) /\ WF_vars(StopStep(d))
       /\ WF_vars(RecoveryStep(d)) /\ WF_vars(RenewFails(d)) /\ WF_vars(Start(d))
  /\ WF_vars(Lapse) /\ WF_vars(\E c \in DOMAIN cmds : Replicated(c))

Spec == Init /\ [][Next]_vars /\ Fairness

------------------------------------------------------------------------------
Runners == Devices \X (1..(MaxFaults + 1))
Labels == {"idle", "open", "turn", "mark", "capture", "seal", "quiesce", "handoff", "prepare",
           "attest", "verify_target", "checkout", "verify", "commit", "restore", "begin",
           "write", "bind", "land", "enlist", "complete", "fail", "close", "set"}
StopLabels == {"idle", "read", "stopping", "close", "reread", "stopped", "complete", "fail"}
States == {"running", "quiesce_requested", "quiesced", "reconciling", "stopping", "stopped", "failed"}
Lanes(labels) == [pc : labels, cmd : Nat, att : Nat, ver : Nat, hver : Nat, gen : {0} \cup Gens,
                  lost : BOOLEAN]

TypeOK ==
  /\ exec \in [state : States, gen : Gens, ver : Nat, device : Devices,
               runner : Runners \cup {None}, live : BOOLEAN]
  /\ log \in [head : 0..MaxHandoffs, highest : {0} \cup Gens]
  /\ handoffs \in Seq([state : Before \cup {"lease_transferred", "restoring", "running"},
                       ver : Nat, source : Devices, target : Devices, gen : Gens,
                       seq : 0..MaxHandoffs, expired : BOOLEAN,
                       ready : {"none", "fresh", "stale"},
                       owner : Runners \cup {None}, live : BOOLEAN])
  /\ cmds \in Seq([kind : {"quiesce", "verify_target", "restore", "prompt", "stop"},
                   gen : Gens, device : Devices \cup {None},
                   state : {"queued", "dispatching", "blocked", "indeterminate",
                            "completed", "failed"},
                   attempts : Nat, live : BOOLEAN, turns : Nat, pending : BOOLEAN])
  /\ life \in [Devices -> 1..(MaxFaults + 1)] /\ up \in [Devices -> BOOLEAN]
  /\ session \in [Devices -> {0} \cup Gens]
  /\ work \in [Devices -> Lanes(Labels)] /\ stopper \in [Devices -> Lanes(StopLabels)]
  /\ recovery \in [Devices -> [pc : {"done", "due", "acquire", "start"}, gen : {0} \cup Gens]]
  /\ copy \in [Gens -> {"none", "written", "bound"}]
  /\ asks \in 0..MaxAsks /\ faults \in 0..MaxFaults

Transferred(h) == handoffs[h].state \in {"lease_transferred", "restoring", "running"}

\* The execution row, the authority log and the handoffs tell one history: each
\* generation was handed on exactly once, by its owner, to the next.
OwnershipFollowsLog ==
  /\ exec.gen = log.head + 1 /\ log.highest \in {0, exec.gen}
  /\ exec.gen <= Len(handoffs) + 1 /\ exec.device = Owner(exec.gen)
  /\ \A h \in DOMAIN handoffs :
       /\ handoffs[h].gen = h /\ handoffs[h].source = Owner(h)
       /\ Transferred(h) <=> h < exec.gen

\* Execution is exclusive: turns run on the owner alone, whatever leases lapsed
\* meanwhile, no handoff overtakes a turn, and the lineage is only extended.
Exclusive == INSTANCE ExclusiveExecution WITH
  Machines <- Devices, Origin <- Home,
  lineage <- [g \in 1..exec.gen |-> Owner(g)],
  writers <- {d \in Devices : work[d].pc = "turn"}
ExecutionIsExclusive == Exclusive!Spec

\* What the User asked of a generation is settled before the next one begins.
NothingLeftBehind ==
  \A c \in DOMAIN cmds :
    cmds[c].kind \in {"prompt", "stop"} /\ cmds[c].gen < exec.gen => cmds[c].state \in Settled

\* Nobody runs a generation, keeps a provider session of it or takes a turn in
\* it before the device it was handed to has restored and bound its transcript,
\* whichever attempt got how far; and no session is ahead of the execution.
Restored(g) == g = 1 \/ copy[g] = "bound"
RestoredBeforeUse ==
  /\ exec.state = "running" => Restored(exec.gen)
  /\ \A d \in Devices :
       /\ session[d] # 0 => session[d] <= exec.gen /\ Restored(session[d])
       /\ work[d].pc = "turn" => Restored(Mine(d).gen)

\* The provider is given a prompt at most once, whatever dies, lapses or loses its
\* answer: a prompt that may have run is settled or only its checkpoint is tried again.
TurnsAreTakenOnce == \A c \in DOMAIN cmds : cmds[c].turns <= 1

\* An execution fails only at the hands of the device and generation that own it.
FailsOnlyItsOwn ==
  [][exec'.state = "failed" /\ exec.state # "failed" =>
       /\ work[exec.device].pc = "set"
       /\ Mine(exec.device).gen = exec.gen /\ exec'.gen = exec.gen]_vars

\* A device the Conversation has left for good, or whose execution has ended,
\* ends without a provider session.
LeftDevicesFallSilent ==
  \A d \in Devices :
    <>[](exec.device # d \/ exec.state \in Ended) => <>[](session[d] = 0)

\* A handoff past its transfer does not wait for ever on a restoration that
\* is due: it runs on the target, or the restoration failed for good, or the
\* execution was stopped.
Restorable(c) == cmds[c].kind = "restore" /\ cmds[c].gen = exec.gen
TransferSettles ==
  Stage \in {"lease_transferred", "restoring"} ~>
    \/ Stage = "running" \/ exec.state \in Ended \cup {"stopping"}
    \/ \A c \in DOMAIN cmds : Restorable(c) => cmds[c].state = "failed"

\* Failure before the transfer leaves the source authoritative, to be resumed
\* there (docs/adr/0016-exclusive-execution-handoff-and-fork-lineage.md:97, a
\* historical record since docs/adr/0065 took handoffs out of the scope).
SourceStaysAuthoritative ==
  Stage \in Before => exec.state # "failed"
=============================================================================
