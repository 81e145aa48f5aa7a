----------------------- MODULE HandoffRestorationProofs -----------------------
(***************************************************************************)
(* What a Conversation runs on after a handoff: the proof that no device   *)
(* runs a generation, keeps a session of it or takes a turn in it before   *)
(* its transcript is restored, for any devices, handoffs and faults.       *)
(***************************************************************************)
EXTENDS ConversationHandoffProofs

-----------------------------------------------------------------------------
(* The steps of a restoration, and those that need the handoff in transit.   *)
RestoreLabels == {"restore", "checkout", "begin", "write", "bind", "land", "enlist", "open"}
TransitLabels == {"checkout", "begin", "write", "bind", "land"}
InTransit == Stage \in {"lease_transferred", "restoring"}

(* One restore command per generation that was handed on.                    *)
RestoresAreUnique ==
  \A b \in DOMAIN cmds : cmds[b].kind = "restore" =>
    /\ cmds[b].gen > 1
    /\ \A c \in DOMAIN cmds : cmds[c].kind = "restore" /\ cmds[c].gen = cmds[b].gen => c = b

(* A lane that restores holds its command and works for the generation that  *)
(* is: nobody can hand the Conversation on behind its back.                  *)
RestoresAreHeld ==
  \A d \in Devices : work[d].pc \in RestoreLabels /\ Mine(d).kind = "restore" =>
    Mine(d).gen = exec.gen /\ Holds(work[d])

(* The next handoff finds every restoration settled ...                      *)
RestoresAreSettled ==
  Stage \in Before =>
    \A c \in DOMAIN cmds : cmds[c].kind = "restore" => cmds[c].state \in Settled

(* ... because one that waits for its sources keeps its own in transit.      *)
BlockedInTransit ==
  \A c \in DOMAIN cmds : cmds[c].kind = "restore" /\ cmds[c].state = "blocked" =>
    cmds[c].gen = exec.gen /\ InTransit

(* A lane restores while the handoff is in transit, and only a lane that     *)
(* bound the transcript, or found it bound, goes beyond.                     *)
RestorersAreInTime ==
  \A d \in Devices : Mine(d).kind = "restore" =>
    /\ work[d].pc \in TransitLabels => InTransit
    /\ work[d].pc \in {"land", "enlist", "open"} => Restored(Mine(d).gen)

(* What is asked of a generation, and what startup recovery resumes, is of   *)
(* one that runs or ran.                                                     *)
AsksAreRestored ==
  \A c \in DOMAIN cmds : cmds[c].kind \in {"prompt", "quiesce"} => Restored(cmds[c].gen)
RecoveryIsRestored ==
  \A d \in Devices : recovery[d].pc \in {"acquire", "start"} =>
    recovery[d].gen \in Gens /\ recovery[d].gen <= exec.gen /\ Restored(recovery[d].gen)

RInv ==
  /\ RestoresAreUnique /\ RestoresAreHeld /\ RestoresAreSettled /\ BlockedInTransit
  /\ RestorersAreInTime /\ AsksAreRestored /\ RecoveryIsRestored /\ RestoredBeforeUse

-----------------------------------------------------------------------------
(* How one lane, one command and the transcripts move.                       *)

\* A busy lane that stays busy is moved by its own steps alone.
LEMMA LaneMovedBy ==
  ASSUME IInv, Next, NEW d \in Devices, work[d].pc # "idle", work'[d].pc # "idle",
         work'[d].pc # work[d].pc
  PROVE  LaneStep(d) \/ Block(d) \/ LoseLease(d)
<1>0. work \in [Devices -> Lanes(Labels)]
  BY Types
<1>1. ASSUME NEW e \in Devices, LaneStep(e) \/ Block(e) \/ LoseLease(e)
      PROVE  LaneStep(d) \/ Block(d) \/ LoseLease(d)
  <2>1. \E v : work' = [work EXCEPT ![e] = v]
    <3>1. GoesOn(e)
      BY <1>1, LaneMoves
    <3> QED
      BY <3>1, Zenon DEF GoesOn
  <2>2. e = d
    BY <1>0, <2>1
  <2> QED
    BY <1>1, <2>2
<1>2. ASSUME NEW e \in Devices, Claim(e) PROVE FALSE
  <2>1. \E v : work' = [work EXCEPT ![e] = v]
    BY <1>2, Zenon DEF Claim
  <2>2. e = d
    BY <1>0, <2>1
  <2> QED
    BY <1>2, <2>2 DEF Claim
<1>3. ASSUME NEW e \in Devices, Crash(e) \/ Stop(e) PROVE FALSE
  <2>1. work' = [work EXCEPT ![e] = Idle] /\ Idle.pc = "idle"
    BY <1>3 DEF Crash, Stop, Dies, Idle
  <2> QED
    BY <1>0, <2>1
<1>4. CASE UserStep \/ Lapse \/ Expires \/ \E c \in DOMAIN cmds : Replicated(c)
  <2>1. UNCHANGED work
    BY <1>4 DEF UserStep, Request, Ask, Lapse, CommandLapses, ExecutionLapses,
         RestorationLapses, Expires, TimeOnly, Replicated, lanes
  <2> QED
    BY <2>1
<1>5. ASSUME NEW e \in Devices,
             Reconcile(e) \/ StopStep(e) \/ StopThrows(e) \/ RecoveryStep(e) \/ RenewFails(e) \/ Start(e)
      PROVE  UNCHANGED work
  BY <1>5 DEF Reconcile, StopStep, StopThrows, ClaimStop, ReadToStop, SetStop, CloseToStop,
       EndStop, StopOnly, RecoveryStep, List, Acquire, Recovered, RecoveryOnly, RenewFails, Start, lanes
<1> QED
  BY <1>1, <1>2, <1>3, <1>4, <1>5, NextSplits DEF OtherStep

\* A lane that is sent to a step arrives there, or fails.
LEMMA Sent ==
  ASSUME IInv, NEW d \in Devices, NEW w, Goes(d, w)
  PROVE  work'[d].pc \in {w.pc, "fail"}
<1>1. work \in [Devices -> Lanes(Labels)]
  BY Types
<1>2. work[d] \in Lanes(Labels)
  BY <1>1
<1> QED
  BY <1>1, <1>2 DEF Goes, Lanes

\* So does one that is sent on with what it remembers.
LEMMA SentTo ==
  ASSUME IInv, NEW d \in Devices, NEW label, To(d, label)
  PROVE  work'[d].pc \in {label, "fail"}
<1>1. work[d] \in Lanes(Labels)
  BY Types
<1>2. [work[d] EXCEPT !.pc = label].pc = label
  BY <1>1 DEF Lanes
<1> QED
  BY <1>2, Sent DEF To

\* A lane that raises fails.
LEMMA Raised ==
  ASSUME IInv, NEW d \in Devices, work' = [work EXCEPT ![d].pc = "fail"]
  PROVE  work'[d].pc = "fail"
<1>1. work \in [Devices -> Lanes(Labels)] /\ work[d] \in Lanes(Labels)
  BY Types
<1> QED
  BY <1>1 DEF Lanes

\* A lane that settles its command leaves it.
LEMMA Settling ==
  ASSUME IInv, NEW d \in Devices, Complete(d) \/ FailCommand(d)
  PROVE  work'[d].pc \in {"idle", "fail", "close"}
<1>0. work \in [Devices -> Lanes(Labels)] /\ work[d] \in Lanes(Labels)
  BY Types
<1>1. Idle.pc = "idle"
  BY DEF Idle
<1>2. CASE Complete(d)
  BY <1>1, <1>2, Sent, Raised DEF Complete, Raise
<1>3. CASE FailCommand(d)
  <2>1. \E b \in BOOLEAN :
          work' = [work EXCEPT ![d] = IF b THEN [@ EXCEPT !.pc = "close"] ELSE Idle]
    BY <1>3, Zenon DEF FailCommand
  <2> QED
    BY <1>0, <1>1, <2>1 DEF Lanes
<1> QED
  BY <1>2, <1>3

(* The way of a lane through a restoration.                                  *)
RestoreGoes(d) ==
  \/ /\ work[d].pc = "restore" /\ work'[d].pc = "checkout"
     /\ Last.state # "running" /\ UNCHANGED <<exec, handoffs, cmds>>
  \/ work[d].pc = "restore" /\ work'[d].pc = "open" /\ copy[Mine(d).gen] = "bound"
  \/ work[d].pc = "checkout" /\ work'[d].pc = "begin"
  \/ work[d].pc = "begin" /\ work'[d].pc = "write"
  \/ work[d].pc = "write" /\ work'[d].pc = "bind"
  \/ work[d].pc = "bind" /\ work'[d].pc = "land"
       /\ copy' = [copy EXCEPT ![Mine(d).gen] = "bound"]
  \/ work[d].pc = "land" /\ work'[d].pc = "enlist"

\* A lane that is restoring after a step of its own goes this way.
LEMMA RestorePath ==
  ASSUME IInv, NEW d \in Devices, LaneStep(d) \/ Block(d) \/ LoseLease(d),
         Mine(d).kind = "restore", work'[d].pc \in RestoreLabels,
         work'[d].pc # work[d].pc
  PROVE  RestoreGoes(d)
<1>0. work \in [Devices -> Lanes(Labels)] /\ work[d] \in Lanes(Labels)
  BY Types
<1>1. \A label : To(d, label) => work'[d].pc \in {label, "fail"}
  BY SentTo
<1>2. Raise(d) => work'[d].pc = "fail"
  BY Raised DEF Raise
<1>3. "fail" \notin RestoreLabels /\ "complete" \notin RestoreLabels /\ "idle" \notin RestoreLabels
      /\ "close" \notin RestoreLabels /\ "set" \notin RestoreLabels
  BY DEF RestoreLabels
<1>4. work[d].pc # "idle"
  BY LaneMoves
<1>5. /\ work[d].pc \notin {"turn", "mark", "capture"}
      /\ work[d].pc \notin {"seal", "quiesce", "handoff", "prepare", "attest",
                            "verify_target", "verify", "commit"}
  BY <1>4, KindOfLane
<1>6. CASE Open(d)
  BY <1>1, <1>3, <1>6 DEF Open
<1>7. CASE ReadLatest(d)
  <2>1. CASE Last.target # d \/ (Last.state = "running" /\ copy[Mine(d).gen] # "bound")
    BY <1>2, <1>3, <1>7, <2>1 DEF ReadLatest
  <2>2. CASE ~(Last.target # d \/ (Last.state = "running" /\ copy[Mine(d).gen] # "bound"))
    <3>1. /\ work[d].pc = "restore"
          /\ To(d, IF Last.state = "running" THEN "open" ELSE "checkout")
          /\ UNCHANGED <<exec, handoffs, cmds>>
      BY <1>7, <2>2 DEF ReadLatest, LaneOnly, rows
    <3>2. work'[d].pc = IF Last.state = "running" THEN "open" ELSE "checkout"
      BY <1>1, <1>3, <3>1
    <3> QED
      BY <2>2, <3>1, <3>2 DEF RestoreGoes
  <2> QED
    BY <2>1, <2>2
<1>8. CASE Checkout(d)
  <2>1. work[d].pc = "checkout"
    BY <1>8 DEF Checkout
  <2>2. CASE Targeted(d)
    <3> DEFINE w == [work[d] EXCEPT !.hver = Last.ver, !.pc = "begin"]
    <3>1. Goes(d, w)
      BY <1>8, <2>2 DEF Checkout
    <3>2. w.pc = "begin"
      BY <1>0 DEF Lanes
    <3> HIDE DEF w
    <3> QED
      BY <1>3, <2>1, <3>1, <3>2, Sent DEF RestoreGoes
  <2>3. CASE ~Targeted(d)
    BY <1>2, <1>3, <1>8, <2>3 DEF Checkout
  <2> QED
    BY <2>2, <2>3
<1>9. CASE Begin(d)
  <2>1. work[d].pc = "begin"
    BY <1>9 DEF Begin
  <2>2. Raise(d) \/ \E ver : Goes(d, [work[d] EXCEPT !.pc = "write", !.hver = ver])
    BY <1>9 DEF Begin
  <2>3. \A ver : [work[d] EXCEPT !.pc = "write", !.hver = ver].pc = "write"
    BY <1>0 DEF Lanes
  <2>4. work'[d].pc \in {"write", "fail"}
    BY <1>2, <2>2, <2>3, Sent
  <2> QED
    BY <1>3, <2>1, <2>4 DEF RestoreGoes
<1>10. CASE Write(d)
  BY <1>1, <1>2, <1>3, <1>10 DEF Write, RestoreGoes
<1>11. CASE Bind(d)
  BY <1>1, <1>3, <1>11 DEF Bind, RestoreGoes
<1>12. CASE Land(d)
  BY <1>1, <1>2, <1>3, <1>12 DEF Land, RestoreGoes
<1>13. CASE Enlist(d) \/ Throw(d) \/ Demote(d)
  <2>1. work'[d].pc \in {"complete", "fail", "idle"}
    BY <1>0, <1>13 DEF Enlist, Demote, Throw, Lanes, Idle
  <2> QED
    BY <1>3, <2>1
<1>19. CASE Close(d)
  <2>1. \E b \in BOOLEAN :
          work' = [work EXCEPT ![d] = IF b THEN [@ EXCEPT !.pc = "set", !.ver = exec.ver] ELSE Idle]
    BY <1>19, Zenon DEF Close
  <2>2. work'[d].pc \in {"set", "idle"}
    BY <1>0, <2>1 DEF Lanes, Idle
  <2> QED
    BY <1>3, <2>2
<1>14. CASE Complete(d) \/ FailCommand(d)
  BY <1>3, <1>14, Settling
<1>16. CASE Block(d)
  <2>1. work'[d].pc = "idle"
    BY <1>0, <1>16 DEF Block, Idle
  <2> QED
    BY <1>3, <2>1
<1>17. CASE LoseLease(d)
  <2>1. work'[d].pc = work[d].pc
    BY <1>0, <1>17 DEF LoseLease, Lanes
  <2> QED
    BY <2>1
<1>18. ~BindSource(d) /\ ~EndTurn(d) /\ ~Capture(d) /\ ~Seal(d) /\ ~Quiesce(d)
       /\ ~ReadHandoff(d) /\ ~Prepare(d) /\ ~Attest(d) /\ ~ReadTarget(d) /\ ~Verify(d) /\ ~Commit(d)
  BY <1>5 DEF BindSource, EndTurn, Capture, Seal, Quiesce, ReadHandoff, Prepare, Attest,
     ReadTarget, Verify, Commit
<1> QED
  BY <1>6, <1>7, <1>8, <1>9, <1>10, <1>11, <1>12, <1>13, <1>14, <1>16, <1>17, <1>18,
     <1>19 DEF LaneStep

\* So does any lane that is restoring after a step, unless it takes its command.
LEMMA RestoreOn ==
  ASSUME IInv, Next, NEW d \in Devices, LaneOn(d), Mine(d)'.kind = "restore",
         work'[d].pc \in RestoreLabels
  PROVE  /\ work'[d].pc = work[d].pc \/ RestoreGoes(d)
         /\ work[d].pc \in RestoreLabels /\ Mine(d).kind = "restore"
         /\ work[d].cmd \in DOMAIN cmds /\ work'[d].cmd = work[d].cmd
         /\ work'[d].att = work[d].att
         /\ Mine(d)'.gen = Mine(d).gen /\ Mine(d).gen \in Gens
<1>1. /\ work[d].pc # "idle" /\ work'[d].cmd = work[d].cmd /\ work'[d].att = work[d].att
      /\ Mine(d).kind = "restore" /\ work[d].cmd \in DOMAIN cmds
      /\ Mine(d)'.gen = Mine(d).gen /\ Mine(d).gen \in Gens
  BY LaneOnCommand DEF LaneOn, CommandType
<1>2. work'[d].pc # "idle"
  BY DEF RestoreLabels
<1>3. work'[d].pc = work[d].pc \/ RestoreGoes(d)
  BY <1>1, <1>2, LaneMovedBy, RestorePath
<1> QED
  BY <1>1, <1>3 DEF RestoreGoes, RestoreLabels

-----------------------------------------------------------------------------
(* How a restore command, the stages and the sessions move.                  *)

RestoreMoves(c) ==
  LET q == cmds[c]
      r == cmds'[c] IN
  \/ r.state = q.state /\ r.attempts = q.attempts
  \/ \E d \in Devices : work[d].pc = "idle" /\ Claimable(d, c) /\ r.state = "dispatching"
  \/ \E d \in Devices : /\ work[d].cmd = c /\ work[d].pc \in {"complete", "fail"} /\ Holds(work[d])
                        /\ work'[d].pc \notin RestoreLabels /\ r.state # "blocked"
  \/ \E d \in Devices : /\ work[d].cmd = c /\ work[d].pc \in {"prepare", "checkout"} /\ Holds(work[d])
                        /\ work'[d].pc \notin RestoreLabels /\ UNCHANGED <<exec, handoffs>>
  \/ q.state = "blocked" /\ r.state # "blocked"

\* A command whose state is set keeps its attempts, and the others are not touched.
LEMMA StateIsSet ==
  ASSUME IInv, NEW b \in DOMAIN cmds, NEW state,
         state \in {"queued", "dispatching", "blocked", "indeterminate", "completed", "failed"},
         \/ cmds' = [cmds EXCEPT ![b] = [cmds[b] EXCEPT !.state = state, !.live = FALSE]]
         \/ cmds' = [cmds EXCEPT ![b] = [cmds[b] EXCEPT !.state = state, !.live = FALSE,
                                                  !.pending = Left(b, state)]]
  PROVE  /\ cmds'[b].state = state /\ cmds'[b].attempts = cmds[b].attempts
         /\ \A p \in DOMAIN cmds : p # b => cmds'[p] = cmds[p]
<1> DEFINE r == [cmds[b] EXCEPT !.state = state, !.live = FALSE]
           u == [cmds[b] EXCEPT !.state = state, !.live = FALSE, !.pending = Left(b, state)]
<1>0. cmds[b] \in CommandType /\ cmds \in Seq(CommandType)
  BY CommandTyped, Types
<1>1. r \in CommandType /\ r.state = state /\ r.attempts = cmds[b].attempts
  BY <1>0 DEF CommandType
<1>2. u \in CommandType /\ u.state = state /\ u.attempts = cmds[b].attempts
  <2>1. Left(b, state) \in BOOLEAN
    BY <1>0 DEF Left, CommandType
  <2> QED
    BY <1>0, <2>1 DEF CommandType
<1>3. cmds' = [cmds EXCEPT ![b] = r] \/ cmds' = [cmds EXCEPT ![b] = u]
  BY Zenon
<1> HIDE DEF r, u
<1>4. CASE cmds' = [cmds EXCEPT ![b] = r]
  BY <1>0, <1>1, <1>4, CommandChanged
<1>5. CASE cmds' = [cmds EXCEPT ![b] = u]
  BY <1>0, <1>2, <1>5, CommandChanged
<1> QED
  BY <1>3, <1>4, <1>5

\* A restore command moves as its lane, or a lane that takes it, has it.
LEMMA RestoreCommandMoves ==
  ASSUME IInv, Next, NEW c \in DOMAIN cmds, cmds[c].kind = "restore"
  PROVE  RestoreMoves(c)
<1>0. cmds \in Seq(CommandType) /\ exec.gen \in Gens
  BY Types DEF ExecType
<1>1. cmds'[c] = cmds[c] => RestoreMoves(c)
  BY DEF RestoreMoves
<1>2. ASSUME NEW kind \in {"quiesce", "verify_target", "restore", "prompt", "stop"},
             NEW gen \in Gens, NEW device \in Devices \cup {None}, Insert(kind, gen, device)
      PROVE  cmds'[c] = cmds[c]
  BY <1>2, InsertGives
<1>3. CASE Requested \/ Asked \/ Attested \/ Handed
  <2>1. \E kind \in {"quiesce", "verify_target", "restore", "prompt", "stop"} :
          \E gen \in Gens, device \in Devices \cup {None} : Insert(kind, gen, device)
    BY <1>0, <1>3, RequestGives, AskGives, AttestGives, CommitGives
    DEF Requested, Asked, Attested, Handed, HandoffType
  <2> QED
    BY <1>1, <1>2, <2>1
<1>4. ASSUME NEW d \in Devices, Claim(d) PROVE RestoreMoves(c)
  <2> PICK b \in DOMAIN cmds :
        /\ Claimable(d, b)
        /\ cmds' = [cmds EXCEPT ![b] = [cmds[b] EXCEPT !.state = "dispatching", !.attempts = @ + 1, !.live = TRUE]]
    BY <1>4, Zenon DEF Claim
  <2> DEFINE r == [cmds[b] EXCEPT !.state = "dispatching", !.attempts = cmds[b].attempts + 1,
                                  !.live = TRUE]
  <2>1. r \in CommandType /\ r.state = "dispatching"
    BY CommandTyped, LeasedCommand
  <2>2. cmds' = [cmds EXCEPT ![b] = r]
    BY Zenon
  <2> HIDE DEF r
  <2>3. cmds'[b] = r /\ \A p \in DOMAIN cmds : p # b => cmds'[p] = cmds[p]
    BY <1>0, <2>1, <2>2, CommandChanged
  <2>4. work[d].pc = "idle"
    BY <1>4 DEF Claim
  <2>5. CASE b = c
    BY <2>1, <2>3, <2>4, <2>5 DEF RestoreMoves
  <2>6. CASE b # c
    BY <1>1, <2>3, <2>6
  <2> QED
    BY <2>5, <2>6
<1>5. ASSUME NEW d \in Devices, Complete(d) \/ FailCommand(d) PROVE RestoreMoves(c)
  <2>1. work'[d].pc \notin RestoreLabels /\ work[d].pc \in {"complete", "fail"}
    BY <1>5, Settling DEF RestoreLabels, Complete, FailCommand
  <2>2. work[d].cmd \in DOMAIN cmds
    BY <2>1, KindOfLane
  <2>3. UNCHANGED cmds
        \/ \E state \in {"completed", "failed", "queued", "indeterminate"} : Finish(work[d], state)
    <3>1. CASE Complete(d)
      BY <3>1 DEF Complete
    <3>2. CASE FailCommand(d)
      <4>1. \E r \in Failures(d) : Finish(work[d], r[1]) \/ UNCHANGED cmds
        BY <3>2, Zenon DEF FailCommand
      <4> QED
        BY <4>1, FailureStates
    <3> QED
      BY <1>5, <3>1, <3>2
  <2>4. ASSUME NEW state \in {"completed", "failed", "queued", "indeterminate"}, Holds(work[d]),
               Finish(work[d], state)
        PROVE  RestoreMoves(c)
    <3>0. cmds' = [cmds EXCEPT ![work[d].cmd] = [@ EXCEPT !.state = state, !.live = FALSE,
                                                 !.pending = Left(work[d].cmd, state)]]
      BY <2>4, Zenon DEF Finish
    <3>1. /\ cmds'[work[d].cmd].state = state
          /\ \A p \in DOMAIN cmds : p # work[d].cmd => cmds'[p] = cmds[p]
      <4>1. state \in {"queued", "dispatching", "blocked", "indeterminate", "completed", "failed"}
        BY <2>4
      <4> QED
        BY <2>2, <3>0, <4>1, StateIsSet
    <3>2. CASE work[d].cmd = c
      BY <2>1, <2>4, <3>1, <3>2, Zenon DEF RestoreMoves
    <3>3. CASE work[d].cmd # c
      BY <1>1, <3>1, <3>3
    <3> QED
      BY <3>2, <3>3
  <2>5. ASSUME NEW state, Finish(work[d], state), ~Holds(work[d]) PROVE UNCHANGED cmds
    BY <2>5 DEF Finish
  <2> QED
    BY <1>1, <2>3, <2>4, <2>5
<1>6. ASSUME NEW d \in Devices, Block(d) PROVE RestoreMoves(c)
  <2>0. work[d].cmd \in DOMAIN cmds
    BY <1>6, LaneMoves, KindOfLane
  <2>1. /\ work[d].pc \in {"prepare", "checkout"} /\ Holds(work[d]) /\ UNCHANGED <<exec, handoffs>>
        /\ cmds' = [cmds EXCEPT ![work[d].cmd] = [@ EXCEPT !.state = "blocked", !.live = FALSE]]
    BY <1>6 DEF Block, Holds, Mine
  <2>2. \A p \in DOMAIN cmds : p # work[d].cmd => cmds'[p] = cmds[p]
    BY <2>0, <2>1, StateIsSet
  <2>3. work'[d].pc \notin RestoreLabels
    <3>1. work \in [Devices -> Lanes(Labels)] /\ work' = [work EXCEPT ![d] = Idle]
      BY <1>6, Types DEF Block
    <3> QED
      BY <3>1 DEF Idle, RestoreLabels
  <2>4. CASE work[d].cmd = c
    BY <2>1, <2>3, <2>4, Zenon DEF RestoreMoves
  <2>5. CASE work[d].cmd # c
    BY <1>1, <2>2, <2>5
  <2> QED
    BY <2>4, <2>5
<1>7. ASSUME NEW b \in DOMAIN cmds, Replicated(b) PROVE RestoreMoves(c)
  <2> DEFINE r == [cmds[b] EXCEPT !.state = "queued"]
  <2>1. r \in CommandType /\ r.state = "queued" /\ cmds[b].state = "blocked"
    BY <1>7, CommandTyped DEF CommandType, Replicated
  <2>2. cmds' = [cmds EXCEPT ![b] = r]
    BY <1>7 DEF Replicated
  <2> HIDE DEF r
  <2>3. cmds'[b] = r /\ \A p \in DOMAIN cmds : p # b => cmds'[p] = cmds[p]
    BY <1>0, <2>1, <2>2, CommandChanged
  <2>4. CASE b = c
    BY <2>1, <2>3, <2>4 DEF RestoreMoves
  <2>5. CASE b # c
    BY <1>1, <2>3, <2>5
  <2> QED
    BY <2>4, <2>5
<1>8. ASSUME NEW b \in DOMAIN cmds, CommandLapses(b) PROVE RestoreMoves(c)
  <2> DEFINE r == [cmds[b] EXCEPT !.live = FALSE]
  <2>1. r \in CommandType /\ r.state = cmds[b].state /\ r.attempts = cmds[b].attempts
    BY CommandTyped DEF CommandType
  <2>2. cmds' = [cmds EXCEPT ![b] = r]
    BY <1>8 DEF CommandLapses
  <2> HIDE DEF r
  <2>3. cmds'[b] = r /\ \A p \in DOMAIN cmds : p # b => cmds'[p] = cmds[p]
    BY <1>0, <2>1, <2>2, CommandChanged
  <2>4. CASE b = c
    BY <2>1, <2>3, <2>4 DEF RestoreMoves
  <2>5. CASE b # c
    BY <1>1, <2>3, <2>5
  <2> QED
    BY <2>4, <2>5
<1>9. ASSUME NEW d \in Devices, Reconcile(d) \/ ClaimStop(d) \/ EndStop(d) PROVE cmds'[c] = cmds[c]
  <2>1. CASE Reconcile(d)
    <3> PICK b \in DOMAIN cmds, state \in {"completed", "queued", "indeterminate"} :
          /\ cmds[b].kind = "prompt"
          /\ cmds' = [cmds EXCEPT ![b] = [cmds[b] EXCEPT !.state = state, !.pending = Left(b, state)]]
      BY <2>1, Zenon DEF Reconcile
    <3>1. b # c
      OBVIOUS
    <3> QED
      BY <1>0, <3>1, LenProperties
  <2>2. CASE ClaimStop(d)
    <3> PICK b \in DOMAIN cmds :
          /\ cmds[b].kind = "stop"
          /\ cmds' = [cmds EXCEPT ![b] = [cmds[b] EXCEPT !.state = "dispatching", !.attempts = @ + 1, !.live = TRUE]]
      BY <2>2, Zenon DEF ClaimStop
    <3>1. b # c
      OBVIOUS
    <3> QED
      BY <1>0, <3>1, LenProperties
  <2>3. CASE EndStop(d)
    <3>1. stopper[d].pc # "idle" /\ stopper[d].cmd # c
      BY <2>3 DEF EndStop, IInv, LanesHoldCommands
    <3>2. \E state \in {"completed", "failed"} : Finish(stopper[d], state)
      BY <2>3 DEF EndStop
    <3> QED
      BY <1>0, <3>1, <3>2, LenProperties DEF Finish
  <2> QED
    BY <1>9, <2>1, <2>2, <2>3
<1>10. ASSUME NEW d \in Devices, LaneStep(d) \/ LoseLease(d)
       PROVE  Attested \/ Handed \/ cmds'[c] = cmds[c] \/ Complete(d) \/ FailCommand(d)
  <2>1. CASE Open(d)
    <3>1. \/ UNCHANGED cmds
          \/ Mine(d).kind = "prompt" /\ cmds' = [cmds EXCEPT ![work[d].cmd].turns = @ + 1]
      BY <2>1, Zenon DEF Open
    <3> QED
      BY <1>0, <3>1, LenProperties DEF Mine
  <2>2. CASE EndTurn(d)
    <3>1. Mine(d).kind = "prompt"
      BY <2>2, KindOfLane DEF EndTurn
    <3>2. UNCHANGED cmds \/ cmds' = [cmds EXCEPT ![work[d].cmd].pending = TRUE]
      BY <2>2, Zenon DEF EndTurn
    <3> QED
      BY <1>0, <3>1, <3>2, LenProperties DEF Mine
  <2>3. CASE ~Open(d) /\ ~EndTurn(d)
    BY <1>10, <2>3 DEF LaneStep, BindSource, Capture, Seal, Quiesce, ReadHandoff, Prepare, Attest,
       ReadTarget, Checkout, Verify, Commit, ReadLatest, Begin, Write, Bind, Land, Enlist, Close, Demote, Throw,
       LoseLease, LaneOnly, rows, Attested, Handed
  <2> QED
    BY <2>1, <2>2, <2>3
<1>11. ASSUME NEW d \in Devices,
              \/ ReadToStop(d) \/ SetStop(d) \/ CloseToStop(d) \/ StopThrows(d)
              \/ RecoveryStep(d) \/ RenewFails(d) \/ Crash(d) \/ Stop(d) \/ Start(d)
       PROVE  UNCHANGED cmds
  BY <1>11 DEF ReadToStop, SetStop, CloseToStop, StopThrows, RecoveryStep, List, Acquire, Recovered,
     RecoveryOnly, RenewFails, Crash, Stop, Dies, Start, rows
<1>12. CASE ExecutionLapses \/ RestorationLapses \/ Expires
  BY <1>1, <1>12 DEF ExecutionLapses, RestorationLapses, Expires
<1>13. UserStep => Requested \/ Asked
  BY DEF UserStep, Requested, Asked
<1> QED
  BY <1>1, <1>3, <1>4, <1>5, <1>6, <1>7, <1>8, <1>9, <1>10, <1>11, <1>12, <1>13, NextSplits
  DEF OtherStep, StopStep, Lapse

\* The handoff runs once the restoration has landed.
LEMMA Landed ==
  ASSUME IInv, Next, Stage = "restoring", Stage' = "running"
  PROVE  \E d \in Devices : /\ work[d].pc = "land" /\ work[d].cmd \in DOMAIN cmds
                           /\ Mine(d).kind = "restore" /\ work'[d].pc \in {"enlist", "fail"}
<1>0. handoffs # <<>>
  BY DEF Stage
<1>1. \A h \in HandoffType : SetLast(h) => Stage' = h.state
  <2> SUFFICES ASSUME NEW h \in HandoffType, SetLast(h) PROVE Stage' = h.state
    OBVIOUS
  <2>1. /\ handoffs' # <<>> /\ Len(handoffs') = Len(handoffs) /\ handoffs'[Len(handoffs)] = h
    <3>1. handoffs \in Seq(HandoffType)
      BY Types
    <3>2. /\ handoffs' \in Seq(HandoffType) /\ Len(handoffs') = Len(handoffs)
          /\ Len(handoffs) \in Nat \ {0} /\ handoffs'[Len(handoffs)] = h
      BY <1>0, <3>1, LastChanged
    <3> QED
      BY <3>2, EmptySeq
  <2> QED
    BY <2>1 DEF Stage, Last
<1>2. Last \in HandoffType /\ Last.state = "restoring"
  BY <1>0, LastHandoff
<1>3. UNCHANGED handoffs => FALSE
  BY DEF Stage, Last
<1>4. ASSUME NEW d \in Devices, Land(d)
      PROVE  /\ work[d].pc = "land" /\ work[d].cmd \in DOMAIN cmds
             /\ Mine(d).kind = "restore" /\ work'[d].pc \in {"enlist", "fail"}
  <2>1. work[d].pc = "land"
    BY <1>4 DEF Land
  <2>2. work'[d].pc \in {"enlist", "fail"}
    BY <1>4, SentTo, Raised DEF Land, Raise
  <2> QED
    BY <2>1, <2>2, KindOfLane
<1>5. ASSUME NEW d \in Devices, Begin(d) PROVE FALSE
  <2>1. ASSUME NEW ver \in {Last.ver, Last.ver + 1},
               SetLast([Last EXCEPT !.state = "restoring", !.ver = ver, !.owner = Me(d), !.live = TRUE])
        PROVE  FALSE
    <3> DEFINE h == [Last EXCEPT !.state = "restoring", !.ver = ver, !.owner = Me(d), !.live = TRUE]
    <3>1. ver \in Nat /\ Me(d) \in Runners
      BY <1>2, MeIsRunner DEF HandoffType
    <3>2. h \in HandoffType /\ h.state = "restoring"
      BY <1>2, <3>1 DEF HandoffType
    <3>3. SetLast(h)
      BY <2>1
    <3> HIDE DEF h
    <3> QED
      BY <1>1, <3>2, <3>3
  <2> QED
    BY <1>3, <1>5, <2>1 DEF Begin
<1>6. ASSUME NEW h \in HandoffType, SetLast(h), h.state = "restoring" PROVE FALSE
  BY <1>1, <1>6
<1>7. CASE RestorationLapses
  <2> DEFINE h == [Last EXCEPT !.live = FALSE]
  <2>1. h \in HandoffType /\ h.state = "restoring"
    BY <1>2 DEF HandoffType
  <2>2. SetLast(h)
    BY <1>7 DEF RestorationLapses
  <2> HIDE DEF h
  <2> QED
    BY <1>6, <2>1, <2>2
<1>8. ~Expires
  BY <1>2 DEF Expires, Before
<1>9. ~Requested /\ ~Attested /\ ~Handed
  <2>1. Requested => FALSE
    BY <1>2, RequestGives DEF Requested, Active, Stage
  <2>2. Attested => FALSE
    BY <1>2 DEF Attested
  <2>3. Handed => FALSE
    BY <1>2 DEF Handed, MayCommit
  <2> QED
    BY <2>1, <2>2, <2>3
<1>10. ASSUME NEW d \in Devices, LaneStep(d) \/ Block(d) \/ LoseLease(d)
       PROVE  Land(d) \/ Begin(d) \/ UNCHANGED handoffs
  <2>1. Attest(d) \/ Commit(d) \/ Prepare(d) \/ Verify(d) => UNCHANGED handoffs
    BY <1>2, <1>9 DEF Attest, Attested, Commit, Handed, Prepare, Verify
  <2> QED
    BY <1>10, <2>1 DEF LaneStep, Open, BindSource, EndTurn, Capture, Seal, Quiesce, ReadHandoff, ReadTarget,
       Checkout, ReadLatest, Write, Bind, Enlist, Complete, FailCommand, Close, Demote, Throw,
       LoseLease, Block, LaneOnly, rows
<1>11. ASSUME NEW d \in Devices,
              \/ Claim(d) \/ Reconcile(d) \/ StopStep(d) \/ StopThrows(d)
              \/ RecoveryStep(d) \/ RenewFails(d) \/ Crash(d) \/ Stop(d) \/ Start(d)
       PROVE  UNCHANGED handoffs
  BY <1>11 DEF Claim, Reconcile, StopStep, StopThrows, ClaimStop, ReadToStop, SetStop, CloseToStop,
     EndStop, StopOnly, RecoveryStep, List, Acquire, Recovered, RecoveryOnly, RenewFails,
     Crash, Stop, Dies, Start, rows
<1>12. ASSUME UserStep \/ Lapse \/ \E c \in DOMAIN cmds : Replicated(c)
       PROVE  Requested \/ RestorationLapses \/ UNCHANGED handoffs
  BY <1>12 DEF UserStep, Requested, Ask, Lapse, CommandLapses, ExecutionLapses, Replicated
<1> QED
  BY <1>3, <1>4, <1>5, <1>7, <1>8, <1>9, <1>10, <1>11, <1>12, NextSplits DEF OtherStep

\* A transcript that is bound stays bound.
LEMMA RestoredStays ==
  ASSUME IInv, Next, NEW g \in Gens, Restored(g)
  PROVE  Restored(g)'
<1>0. copy \in [Gens -> {"none", "written", "bound"}]
  BY Types
<1>1. UNCHANGED copy => Restored(g)'
  BY DEF Restored
<1>2. ASSUME NEW d \in Devices, LaneStep(d) \/ Block(d) \/ LoseLease(d) PROVE Restored(g)'
  <2>1. CASE Write(d)
    <3>1. UNCHANGED copy
          \/ \E k : copy' = [copy EXCEPT ![k] = IF @ = "bound" THEN "bound" ELSE "written"]
      BY <2>1, Zenon DEF Write
    <3> QED
      BY <1>0, <3>1 DEF Restored
  <2>2. CASE Bind(d)
    <3>1. \E k : copy' = [copy EXCEPT ![k] = "bound"]
      BY <2>2, Zenon DEF Bind
    <3> QED
      BY <1>0, <3>1 DEF Restored
  <2>3. ~Write(d) /\ ~Bind(d) => UNCHANGED copy
    BY <1>2 DEF LaneStep, Open, BindSource, EndTurn, Capture, Seal, Quiesce, ReadHandoff, Prepare,
       Attest, ReadTarget, Checkout, Verify, Commit, ReadLatest, Begin, Land, Enlist, Complete, FailCommand, Close,
       Demote, Throw, LoseLease, Block, LaneOnly
  <2> QED
    BY <1>1, <2>1, <2>2, <2>3
<1>3. CASE UserStep \/ Lapse \/ Expires \/ \E c \in DOMAIN cmds : Replicated(c)
  BY <1>1, <1>3 DEF UserStep, Request, Ask, Lapse, CommandLapses, ExecutionLapses,
     RestorationLapses, Expires, TimeOnly, Replicated
<1>4. ASSUME NEW d \in Devices,
             \/ Claim(d) \/ Reconcile(d) \/ StopStep(d) \/ StopThrows(d)
             \/ RecoveryStep(d) \/ RenewFails(d) \/ Crash(d) \/ Stop(d) \/ Start(d)
      PROVE  UNCHANGED copy
  BY <1>4 DEF Claim, Reconcile, StopStep, StopThrows, ClaimStop, ReadToStop, SetStop, CloseToStop,
     EndStop, StopOnly, RecoveryStep, List, Acquire, Recovered, RecoveryOnly, RenewFails,
     Crash, Stop, Dies, Start
<1> QED
  BY <1>1, <1>2, <1>3, <1>4, NextSplits DEF OtherStep

\* A device gains a session as its lane opens or enlists it, or as startup
\* recovery resumes it.
LEMMA SessionsGive ==
  ASSUME IInv, Next, NEW d \in Devices
  PROVE  \/ session'[d] \in {0, session[d]}
         \/ work[d].pc \in {"open", "capture", "enlist"} /\ session'[d] = Mine(d).gen
         \/ recovery[d].pc = "start" /\ session'[d] = recovery[d].gen
<1>0. session \in [Devices -> {0} \cup Gens]
  BY Types
<1>1. ASSUME NEW e \in Devices,
             UNCHANGED session \/ session' = [session EXCEPT ![e] = 0]
      PROVE  session'[d] \in {0, session[d]}
  BY <1>0, <1>1
<1>2. ASSUME NEW e \in Devices, LaneStep(e) \/ Block(e) \/ LoseLease(e)
      PROVE  \/ UNCHANGED session \/ session' = [session EXCEPT ![e] = 0]
             \/ work[e].pc \in {"open", "capture", "enlist"} /\ session' = [session EXCEPT ![e] = Mine(e).gen]
  BY <1>2 DEF LaneStep, Open, BindSource, EndTurn, Capture, Seal, Quiesce, ReadHandoff, Prepare,
       Attest, ReadTarget, Checkout, Verify, Commit, ReadLatest, Begin, Write, Bind, Land, Enlist, Complete,
       FailCommand, Close, Demote, Throw, LoseLease, Block, LaneOnly
<1>3. UserStep \/ Lapse \/ Expires \/ (\E c \in DOMAIN cmds : Replicated(c)) => UNCHANGED session
  BY DEF UserStep, Request, Ask, Lapse, CommandLapses, ExecutionLapses,
     RestorationLapses, Expires, TimeOnly, Replicated
<1>4. ASSUME NEW e \in Devices,
             \/ Claim(e) \/ Reconcile(e) \/ StopStep(e) \/ StopThrows(e)
             \/ RenewFails(e) \/ Crash(e) \/ Stop(e) \/ Start(e) \/ List(e) \/ Acquire(e)
      PROVE  UNCHANGED session \/ session' = [session EXCEPT ![e] = 0]
  BY <1>4 DEF Claim, Reconcile, StopStep, StopThrows, ClaimStop, ReadToStop, SetStop,
     CloseToStop, EndStop, List, Acquire, RenewFails, Crash, Stop, Dies, Start
<1>5. ASSUME NEW e \in Devices, Recovered(e)
      PROVE  \/ UNCHANGED session
             \/ recovery[e].pc = "start" /\ session' = [session EXCEPT ![e] = recovery[e].gen]
  BY <1>5 DEF Recovered
<1>6. ASSUME NEW e \in Devices, LaneStep(e) \/ Block(e) \/ LoseLease(e) \/ Recovered(e)
      PROVE  \/ session'[d] \in {0, session[d]}
             \/ work[d].pc \in {"open", "capture", "enlist"} /\ session'[d] = Mine(d).gen
             \/ recovery[d].pc = "start" /\ session'[d] = recovery[d].gen
  <2>1. CASE d # e
    BY <1>0, <1>2, <1>5, <1>6, <2>1
  <2>2. CASE d = e
    BY <1>0, <1>2, <1>5, <1>6, <2>2
  <2> QED
    BY <2>1, <2>2
<1> QED
  BY <1>1, <1>3, <1>4, <1>6, NextSplits DEF OtherStep, RecoveryStep

\* Startup recovery tries what it listed: an execution that runs.
LEMMA RecoveryGives ==
  ASSUME IInv, Next, NEW d \in Devices, recovery'[d].pc \in {"acquire", "start"}
  PROVE  \/ recovery[d].pc \in {"acquire", "start"} /\ recovery'[d].gen = recovery[d].gen
         \/ exec.state = "running" /\ recovery'[d].gen = exec.gen
<1> DEFINE Good == \/ recovery[d].pc \in {"acquire", "start"} /\ recovery'[d].gen = recovery[d].gen
                   \/ exec.state = "running" /\ recovery'[d].gen = exec.gen
<1>0. recovery \in [Devices -> [pc : {"done", "due", "acquire", "start"}, gen : {0} \cup Gens]]
  BY DEF IInv, TypeOK
<1>1. UNCHANGED recovery => Good
  OBVIOUS
<1>2. ASSUME NEW e \in Devices, List(e) PROVE Good
  <2>1. CASE d # e
    BY <1>0, <1>2, <2>1 DEF List
  <2>2. CASE d = e
    BY <1>0, <1>2, <2>2 DEF List
  <2> QED
    BY <2>1, <2>2
<1>3. ASSUME NEW e \in Devices, NEW label, Recover(e, label),
             recovery[e].pc \in {"acquire", "start"} \/ label \notin {"acquire", "start"}
      PROVE  Good
  <2>1. CASE d # e
    BY <1>0, <1>3, <2>1 DEF Recover
  <2>2. CASE d = e
    BY <1>0, <1>3, <2>2 DEF Recover
  <2> QED
    BY <2>1, <2>2
<1>4. ASSUME NEW e \in Devices, Acquire(e) \/ Recovered(e) PROVE Good
  <2>1. recovery[e].pc \in {"acquire", "start"} /\ \E label : Recover(e, label)
    BY <1>4 DEF Acquire, Recovered
  <2> QED
    BY <1>3, <2>1
<1>5. ASSUME NEW e \in Devices, Crash(e) \/ Stop(e) PROVE Good
  <2>1. recovery' = [recovery EXCEPT ![e] = [pc |-> "done", gen |-> 0]]
    BY <1>5 DEF Crash, Stop, Dies
  <2> QED
    BY <1>0, <2>1
<1>6. ASSUME NEW e \in Devices, Start(e) PROVE Good
  BY <1>3, <1>6 DEF Start, Recover
<1>7. UserStep \/ Lapse \/ Expires \/ (\E c \in DOMAIN cmds : Replicated(c)) => UNCHANGED recovery
  BY DEF UserStep, Request, Ask, Lapse, CommandLapses, ExecutionLapses,
     RestorationLapses, Expires, TimeOnly, Replicated, lanes
<1>8. ASSUME NEW e \in Devices,
             \/ LaneStep(e) \/ Block(e) \/ LoseLease(e) \/ Claim(e) \/ Reconcile(e)
             \/ StopStep(e) \/ StopThrows(e) \/ RenewFails(e)
      PROVE  UNCHANGED recovery
  <2>1. LaneStep(e) \/ Block(e) \/ LoseLease(e) => UNCHANGED recovery
    BY LaneMoves
  <2> QED
    BY <1>8, <2>1 DEF Claim, Reconcile, StopStep, StopThrows, ClaimStop, ReadToStop, SetStop,
       CloseToStop, EndStop, StopOnly, RenewFails, lanes
<1> QED
  BY <1>1, <1>2, <1>4, <1>5, <1>6, <1>7, <1>8, NextSplits DEF OtherStep, RecoveryStep

-----------------------------------------------------------------------------
(* The parts of the invariant.                                               *)

\* Each generation that is handed on is restored by one command.
LEMMA RestoresStayUnique ==
  ASSUME IInv, RInv, Next
  PROVE  RestoresAreUnique'
<1>1. \A c \in DOMAIN cmds : cmds'[c].kind = cmds[c].kind /\ cmds'[c].gen = cmds[c].gen
  BY CommandsMove DEF CommandMoves
<1>2. \A b \in DOMAIN cmds : cmds[b].kind = "restore" =>
        /\ cmds[b].gen > 1
        /\ \A c \in DOMAIN cmds : cmds[c].kind = "restore" /\ cmds[c].gen = cmds[b].gen => c = b
  BY DEF RInv, RestoresAreUnique
<1>3. CASE ~Handed
  <2>1. \A c \in DOMAIN cmds' \ DOMAIN cmds : cmds'[c].kind # "restore"
    BY <1>3, CommandsMove DEF CommandComes
  <2> QED
    BY <1>1, <1>2, <2>1 DEF RestoresAreUnique
<1>4. CASE Handed
  <2> PICK d \in Devices : Commit(d) /\ MayCommit(work[d].hver)
    BY <1>4 DEF Handed
  <2> DEFINE n == Len(cmds) + 1
  <2>1. Insert("restore", exec.gen + 1, Last.target) /\ exec.gen + 1 \in Gens
        /\ Last.target \in Devices
    BY CommitGives DEF HandoffType
  <2>2. /\ DOMAIN cmds' = DOMAIN cmds \cup {n} /\ n \notin DOMAIN cmds
        /\ cmds'[n].kind = "restore" /\ cmds'[n].gen = exec.gen + 1
    BY <2>1, InsertGives
  <2>3. exec.gen \in Nat \ {0}
    BY Types, HandoffAssumption DEF ExecType, Gens
  <2>4. \A c \in DOMAIN cmds : cmds[c].gen \in Nat /\ cmds[c].gen <= exec.gen
    BY CommandTyped
  <2> HIDE DEF n
  <2>5. \A c \in DOMAIN cmds : cmds[c].gen # exec.gen + 1
    BY <2>3, <2>4
  <2>6. exec.gen + 1 > 1
    BY <2>3
  <2> QED
    BY <1>1, <1>2, <2>2, <2>5, <2>6 DEF RestoresAreUnique
<1> QED
  BY <1>3, <1>4

\* While a lane restores, the handoff is not handed on.
LEMMA RestoringIsNotHanded ==
  ASSUME IInv, RInv, Next, NEW d \in Devices, work[d].pc \in RestoreLabels,
         Mine(d).kind = "restore", work[d].cmd \in DOMAIN cmds
  PROVE  /\ ~Handed /\ Stage \notin Before /\ exec'.gen = exec.gen /\ exec.device = d
         /\ Mine(d).gen = exec.gen /\ Holds(work[d])
<1>1. Mine(d).gen = exec.gen /\ Holds(work[d])
  BY DEF RInv, RestoresAreHeld
<1>2. Stage \notin Before
  BY <1>1 DEF RInv, RestoresAreSettled, Holds, Mine, Settled
<1>3. ~Handed
  BY <1>2, HandedBy DEF Before
<1>4. exec'.gen = exec.gen
  BY <1>3, ExecMoves
<1>5. exec.device = d
  BY <1>1 DEF IInv, LanesAreCurrent, RestoreLabels
<1> QED
  BY <1>1, <1>2, <1>3, <1>4, <1>5

\* A lane that restores holds its command, for the present generation.
LEMMA RestoresStayHeld ==
  ASSUME IInv, RInv, Next
  PROVE  RestoresAreHeld'
<1> SUFFICES ASSUME NEW d \in Devices, work'[d].pc \in RestoreLabels, Mine(d)'.kind = "restore"
             PROVE  Mine(d)'.gen = exec'.gen /\ Mine(d)'.state = "dispatching"
                    /\ Mine(d)'.attempts = work'[d].att
  BY DEF RestoresAreHeld, Holds, Mine
<1>1. CASE LaneOn(d)
  <2> DEFINE c == work[d].cmd
  <2>1. /\ work[d].pc \in RestoreLabels /\ Mine(d).kind = "restore" /\ c \in DOMAIN cmds
        /\ work'[d].cmd = c /\ work'[d].att = work[d].att /\ Mine(d)'.gen = Mine(d).gen
    BY <1>1, RestoreOn
  <2>2. /\ Mine(d).gen = exec.gen /\ exec'.gen = exec.gen /\ exec.device = d /\ Holds(work[d])
    BY <2>1, RestoringIsNotHanded
  <2>3. cmds[c].state = "dispatching" /\ cmds[c].attempts = work[d].att /\ cmds[c].kind = "restore"
        /\ cmds[c].gen = exec.gen
    BY <2>1, <2>2 DEF Holds, Mine
  <2>4. RestoreMoves(c)
    BY <2>1, <2>3, RestoreCommandMoves
  <2>5. ASSUME NEW e \in Devices, work[e].pc = "idle", Claimable(e, c) PROVE FALSE
    <3>1. cmds[c].device = exec.device /\ exec.device # None
      BY <2>1, <2>3, HandoffAssumption, Types DEF IInv, CommandsFit, ExecType
    <3>2. e = d
      BY <2>2, <2>5, <3>1 DEF Claimable
    <3> QED
      BY <2>1, <2>5, <3>2 DEF RestoreLabels
  <2>6. ASSUME NEW e \in Devices, work[e].cmd = c, Holds(work[e]), work[e].pc # "idle",
               work'[e].pc \notin RestoreLabels
        PROVE  FALSE
    <3>1. Mine(e).kind # "verify_target" /\ Mine(e).gen = exec.gen
      BY <2>3, <2>6 DEF Mine
    <3>2. e = d
      BY <2>2, <2>6, <3>1 DEF IInv, LanesAreCurrent
    <3> QED
      BY <2>6, <3>2
  <2>7. cmds'[c].state = cmds[c].state /\ cmds'[c].attempts = cmds[c].attempts
    BY <2>3, <2>4, <2>5, <2>6 DEF RestoreMoves
  <2> QED
    BY <2>1, <2>2, <2>3, <2>7 DEF Mine
<1>2. CASE LaneTakes(d)
  BY <1>2, LaneTakesCommand
<1> QED
  BY <1>1, <1>2, LaneWorks DEF RestoreLabels

\* The next handoff is asked for when every restoration is settled.
LEMMA RestoresStaySettled ==
  ASSUME IInv, RInv, Next
  PROVE  RestoresAreSettled'
<1> SUFFICES ASSUME Stage' \in Before, NEW c \in DOMAIN cmds', cmds'[c].kind = "restore"
             PROVE  cmds'[c].state \in Settled
  BY DEF RestoresAreSettled
<1>1. ~Handed
  BY HandedStage DEF Before
<1>2. c \in DOMAIN cmds
  BY <1>1, CommandsMove DEF CommandComes
<1>3. /\ cmds[c].kind = "restore" /\ cmds[c] \in CommandType
      /\ cmds[c].state \in Settled => cmds'[c].state \in Settled
  BY <1>2, CommandsMove, CommandTyped DEF CommandMoves
<1>4. CASE ~Active /\ ~Unsettled
  <2>1. cmds[c].state # "blocked"
    BY <1>2, <1>3, <1>4 DEF RInv, BlockedInTransit, InTransit, Active
  <2> QED
    BY <1>2, <1>3, <1>4, <2>1 DEF Unsettled, CommandType, Settled
<1>5. CASE Stage \in Before
  BY <1>2, <1>3, <1>5 DEF RInv, RestoresAreSettled
<1> QED
  BY <1>1, <1>4, <1>5, StagesMove DEF Before, Seals

\* A handoff in transit stays there until its restoration has landed.
LEMMA TransitEnds ==
  ASSUME IInv, RInv, Next, InTransit
  PROVE  \/ InTransit'
         \/ \E d \in Devices : /\ work[d].pc = "land" /\ work[d].cmd \in DOMAIN cmds
                               /\ Mine(d).kind = "restore" /\ Holds(work[d])
                               /\ Mine(d).gen = exec.gen /\ exec.device = d
                               /\ work'[d].pc \in {"enlist", "fail"}
<1>1. Active /\ Stage \notin Before \cup {"target_verified"}
  BY DEF InTransit, Active, Before
<1>2. InTransit' \/ (Stage = "restoring" /\ Stage' = "running")
  BY <1>1, StagesMove DEF InTransit, Before, Seals
<1>3. CASE Stage = "restoring" /\ Stage' = "running"
  <2> PICK d \in Devices : /\ work[d].pc = "land" /\ work[d].cmd \in DOMAIN cmds
                           /\ Mine(d).kind = "restore" /\ work'[d].pc \in {"enlist", "fail"}
    BY <1>3, Landed
  <2> QED
    BY RestoringIsNotHanded DEF RestoreLabels
<1> QED
  BY <1>2, <1>3

\* A restoration that waits for its sources keeps its handoff in transit.
LEMMA BlockedStaysInTransit ==
  ASSUME IInv, RInv, Next
  PROVE  BlockedInTransit'
<1> SUFFICES ASSUME NEW c \in DOMAIN cmds', cmds'[c].kind = "restore", cmds'[c].state = "blocked"
             PROVE  cmds'[c].gen = exec'.gen /\ InTransit'
  BY DEF BlockedInTransit
<1>1. c \in DOMAIN cmds
  BY CommandsMove DEF CommandComes
<1>2. cmds[c].kind = "restore" /\ cmds'[c].gen = cmds[c].gen
  BY <1>1, CommandsMove DEF CommandMoves
<1>3. CASE cmds[c].state = "blocked"
  <2>1. cmds[c].gen = exec.gen /\ InTransit
    BY <1>1, <1>2, <1>3 DEF RInv, BlockedInTransit
  <2>2. exec'.gen = exec.gen
    BY <2>1, HandedBy, ExecMoves DEF InTransit
  <2>3. ASSUME NEW d \in Devices, work[d].cmd \in DOMAIN cmds, Mine(d).kind = "restore",
               Holds(work[d]), Mine(d).gen = exec.gen
        PROVE  FALSE
    <3>1. work[d].cmd = c
      BY <1>1, <1>2, <2>1, <2>3 DEF RInv, RestoresAreUnique, Mine
    <3> QED
      BY <1>3, <2>3, <3>1 DEF Holds
  <2>4. InTransit'
    BY <2>1, <2>3, TransitEnds
  <2> QED
    BY <1>2, <2>1, <2>2, <2>4
<1>4. CASE cmds[c].state # "blocked"
  <2>1. \E d \in Devices : /\ work[d].cmd = c /\ work[d].pc \in {"prepare", "checkout"}
                           /\ UNCHANGED <<exec, handoffs>>
    BY <1>1, <1>2, <1>4, RestoreCommandMoves DEF RestoreMoves
  <2> PICK d \in Devices : /\ work[d].cmd = c /\ work[d].pc \in {"prepare", "checkout"}
                           /\ UNCHANGED <<exec, handoffs>>
    BY <2>1
  <2>2. Mine(d).kind = "restore" /\ work[d].pc = "checkout"
    BY <1>2, KindOfLane DEF Mine
  <2>3. InTransit /\ Mine(d).gen = exec.gen
    BY <2>2 DEF RInv, RestorersAreInTime, RestoresAreHeld, RestoreLabels, TransitLabels
  <2> QED
    BY <1>2, <2>3 DEF InTransit, Stage, Last, Mine
<1> QED
  BY <1>3, <1>4

\* A lane begins to restore a handoff in transit.
LEMMA RestoringInTransit ==
  ASSUME IInv, RInv, Next, NEW d \in Devices, work[d].pc = "restore", Mine(d).kind = "restore",
         work[d].cmd \in DOMAIN cmds, Last.state # "running"
  PROVE  InTransit
<1>1. Stage \notin Before /\ Mine(d).gen = exec.gen
  BY RestoringIsNotHanded DEF RestoreLabels
<1>2. handoffs # <<>>
  <2>1. exec.gen > 1 /\ exec.gen <= Len(handoffs) + 1
    BY <1>1 DEF RInv, RestoresAreUnique, Mine, IInv, OwnershipFollowsLog
  <2>2. handoffs = <<>> => Len(handoffs) = 0
    OBVIOUS
  <2>3. exec.gen \in Nat
    BY Types, HandoffAssumption DEF ExecType, Gens
  <2> QED
    BY <2>1, <2>2, <2>3
<1>3. Last \in HandoffType /\ Stage = Last.state
  BY <1>2, LastHandoff
<1> QED
  BY <1>1, <1>3 DEF InTransit, HandoffType

\* A lane restores in time, and goes beyond once the transcript is bound.
LEMMA RestorersStayInTime ==
  ASSUME IInv, RInv, Next
  PROVE  RestorersAreInTime'
<1> SUFFICES ASSUME NEW d \in Devices, Mine(d)'.kind = "restore"
             PROVE  /\ work'[d].pc \in TransitLabels => InTransit'
                    /\ work'[d].pc \in {"land", "enlist", "open"} => Restored(Mine(d).gen)'
  BY DEF RestorersAreInTime
<1>1. ASSUME work'[d].pc \in RestoreLabels, LaneOn(d)
      PROVE  /\ work'[d].pc \in TransitLabels => InTransit'
             /\ work'[d].pc \in {"land", "enlist", "open"} => Restored(Mine(d).gen)'
  <2>1. /\ work'[d].pc = work[d].pc \/ RestoreGoes(d)
        /\ work[d].pc \in RestoreLabels /\ Mine(d).kind = "restore" /\ work[d].cmd \in DOMAIN cmds
        /\ Mine(d)'.gen = Mine(d).gen /\ Mine(d).gen \in Gens
    BY <1>1, RestoreOn
  <2>2. /\ work[d].pc \in TransitLabels => InTransit
        /\ work[d].pc \in {"land", "enlist", "open"} => Restored(Mine(d).gen)
    BY <2>1 DEF RInv, RestorersAreInTime
  <2>3. exec.device = d
    BY <2>1, RestoringIsNotHanded
  <2>4. ASSUME work'[d].pc \in TransitLabels PROVE InTransit'
    <3>1. CASE work[d].pc \in TransitLabels
      <4>1. work'[d].pc \notin {"enlist", "fail"}
        BY <2>4 DEF TransitLabels
      <4> QED
        BY <2>2, <2>3, <3>1, <4>1, TransitEnds
    <3>2. CASE work[d].pc \notin TransitLabels
      <4>1. work[d].pc = "restore" /\ Last.state # "running" /\ UNCHANGED handoffs
        BY <2>1, <2>4, <3>2 DEF RestoreGoes, TransitLabels
      <4>2. InTransit
        BY <2>1, <4>1, RestoringInTransit
      <4> QED
        BY <4>1, <4>2 DEF InTransit, Stage, Last
    <3> QED
      BY <3>1, <3>2
  <2>5. ASSUME work'[d].pc \in {"land", "enlist", "open"} PROVE Restored(Mine(d).gen)'
    <3>1. CASE work[d].pc \in {"land", "enlist", "open"} \/ copy[Mine(d).gen] = "bound"
      <4>1. Restored(Mine(d).gen)
        BY <2>2, <3>1 DEF Restored
      <4>2. \A g \in Gens : Restored(g) => Restored(g)'
        BY RestoredStays
      <4> QED
        BY <2>1, <4>1, <4>2 DEF Restored
    <3>2. CASE copy' = [copy EXCEPT ![Mine(d).gen] = "bound"]
      <4>1. copy \in [Gens -> {"none", "written", "bound"}]
        BY Types
      <4> QED
        BY <2>1, <3>2, <4>1 DEF Restored
    <3> QED
      BY <2>1, <2>5, <3>1, <3>2 DEF RestoreGoes
  <2> QED
    BY <2>4, <2>5
<1>2. ASSUME LaneTakes(d) PROVE work'[d].pc \notin TransitLabels \cup {"land", "enlist", "open"}
  <2> PICK c \in DOMAIN cmds : /\ work'[d].pc = Entry(c) /\ Mine(d)'.kind = cmds[c].kind
    BY <1>2, LaneTakesCommand
  <2> QED
    BY DEF Entry, TransitLabels
<1>3. TransitLabels \cup {"land", "enlist", "open"} \subseteq RestoreLabels
      /\ "idle" \notin RestoreLabels
  BY DEF TransitLabels, RestoreLabels
<1> QED
  BY <1>1, <1>2, <1>3, LaneWorks

\* The Conversation runs from a transcript that is restored.
LEMMA RunsRestored ==
  ASSUME IInv, RInv, Next, exec'.state = "running"
  PROVE  Restored(exec.gen)' /\ exec'.gen = exec.gen
<1>1. ~Handed
  <2> SUFFICES ASSUME Handed PROVE FALSE
    OBVIOUS
  <2> PICK d \in Devices : Commit(d) /\ MayCommit(work[d].hver)
    BY DEF Handed
  <2> QED
    BY CommitGives
<1>2. exec'.gen = exec.gen /\ exec.gen \in Gens
  BY <1>1, ExecMoves, Types DEF ExecType
<1>3. CASE exec.state = "running"
  BY <1>2, <1>3, RestoredStays DEF RInv, RestoredBeforeUse, Restored
<1>4. CASE Stage = "restoring" /\ Stage' = "running"
  <2>1. \E d \in Devices : /\ work[d].pc = "land" /\ Mine(d).kind = "restore"
                           /\ Mine(d).gen = exec.gen
    BY <1>4, Landed, RestoringIsNotHanded DEF RestoreLabels
  <2>2. Restored(exec.gen)
    BY <2>1 DEF RInv, RestorersAreInTime
  <2> QED
    BY <1>2, <2>2, RestoredStays DEF Restored
<1> QED
  BY <1>1, <1>3, <1>4, ExecMoves

\* Prompts and quiesces are asked of a generation that runs.
LEMMA AsksStayRestored ==
  ASSUME IInv, RInv, Next
  PROVE  AsksAreRestored'
<1> SUFFICES ASSUME NEW c \in DOMAIN cmds', cmds'[c].kind \in {"prompt", "quiesce"}
             PROVE  Restored(cmds[c].gen)'
  BY DEF AsksAreRestored
<1>1. \A g \in Gens : Restored(g) => (g = 1 \/ copy'[g] = "bound")
  BY RestoredStays DEF Restored
<1>2. CASE c \in DOMAIN cmds
  <2>1. /\ cmds'[c].kind = cmds[c].kind /\ cmds'[c].gen = cmds[c].gen
        /\ cmds[c].gen \in Gens
    BY <1>2, CommandsMove, CommandTyped DEF CommandMoves, CommandType
  <2> QED
    BY <1>1, <1>2, <2>1 DEF RInv, AsksAreRestored, Restored
<1>3. CASE c \notin DOMAIN cmds
  <2>1. cmds'[c].gen = exec.gen /\ (Requested \/ exec.state = "running")
    BY <1>3, CommandsMove DEF CommandComes
  <2>2. exec.state = "running" /\ exec.gen \in Gens
    BY <2>1, Types DEF Requested, Request, ExecType
  <2> QED
    BY <1>1, <2>1, <2>2 DEF RInv, RestoredBeforeUse, Restored
<1> QED
  BY <1>2, <1>3

\* Generations only grow.
LEMMA GenerationsGrow ==
  ASSUME IInv, Next
  PROVE  exec.gen \in Gens /\ exec.gen \in Nat /\ exec'.gen \in Nat /\ exec.gen <= exec'.gen
<1>1. exec.gen \in Gens /\ exec.gen \in Nat
  BY Types, HandoffAssumption DEF ExecType, Gens
<1> QED
  BY <1>1, HandedBy, ExecMoves

\* Startup recovery resumes a generation that runs or ran.
LEMMA RecoveryStaysRestored ==
  ASSUME IInv, RInv, Next
  PROVE  RecoveryIsRestored'
<1> SUFFICES ASSUME NEW d \in Devices, recovery'[d].pc \in {"acquire", "start"}
             PROVE  /\ recovery'[d].gen \in Gens /\ recovery'[d].gen <= exec'.gen
                    /\ Restored(recovery[d].gen)'
  BY DEF RecoveryIsRestored
<1>0. recovery[d].gen \in {0} \cup Gens /\ recovery[d].gen \in Nat
  BY HandoffAssumption DEF IInv, TypeOK, Gens
<1>1. exec.gen \in Gens /\ exec.gen \in Nat /\ exec'.gen \in Nat /\ exec.gen <= exec'.gen
  BY GenerationsGrow
<1>2. \A g \in Gens : Restored(g) => (g = 1 \/ copy'[g] = "bound")
  BY RestoredStays DEF Restored
<1>3. CASE recovery[d].pc \in {"acquire", "start"} /\ recovery'[d].gen = recovery[d].gen
  <2>1. recovery[d].gen \in Gens /\ recovery[d].gen <= exec.gen /\ Restored(recovery[d].gen)
    BY <1>3 DEF RInv, RecoveryIsRestored
  <2> QED
    BY <1>0, <1>1, <1>2, <1>3, <2>1 DEF Restored
<1>4. CASE exec.state = "running" /\ recovery'[d].gen = exec.gen
  BY <1>1, <1>2, <1>4 DEF RInv, RestoredBeforeUse, Restored
<1> QED
  BY <1>3, <1>4, RecoveryGives

\* No device runs, keeps or takes a turn in a generation before it is restored.
LEMMA StaysRestoredBeforeUse ==
  ASSUME IInv, RInv, Next
  PROVE  RestoredBeforeUse'
<1>0. \A g \in Gens : Restored(g) => (g = 1 \/ copy'[g] = "bound")
  BY RestoredStays DEF Restored
<1>1. exec'.state = "running" => Restored(exec.gen)'
  BY RunsRestored
<1>2. ASSUME NEW d \in Devices, session'[d] # 0
      PROVE  session'[d] <= exec'.gen /\ (session'[d] = 1 \/ copy'[session'[d]] = "bound")
  <2>0. session' \in [Devices -> {0} \cup Gens]
    BY SessionsMove
  <2>1. session'[d] \in Gens /\ session'[d] \in Nat
    BY <1>2, <2>0, HandoffAssumption DEF Gens
  <2>2. session'[d] <= exec.gen /\ Restored(session'[d])
    <3>1. CASE session'[d] = session[d]
      BY <1>2, <3>1 DEF RInv, RestoredBeforeUse
    <3>2. CASE work[d].pc \in {"open", "capture", "enlist"} /\ session'[d] = Mine(d).gen
      <4>1. /\ work[d].cmd \in DOMAIN cmds /\ Mine(d).kind \in {"prompt", "quiesce", "restore"}
            /\ work[d].pc = "capture" => Mine(d).kind = "prompt"
        BY <3>2, KindOfLane
      <4>2. Mine(d).gen <= exec.gen
        BY <4>1, CommandTyped DEF Mine
      <4>3. Restored(Mine(d).gen)
        BY <3>2, <4>1 DEF RInv, AsksAreRestored, RestorersAreInTime, Mine
      <4> QED
        BY <3>2, <4>2, <4>3
    <3>3. CASE recovery[d].pc = "start" /\ session'[d] = recovery[d].gen
      BY <3>3 DEF RInv, RecoveryIsRestored
    <3> QED
      BY <1>2, <3>1, <3>2, <3>3, SessionsGive
  <2>3. session'[d] <= exec'.gen
    BY <2>1, <2>2, GenerationsGrow
  <2> QED
    BY <1>0, <2>1, <2>2, <2>3
<1>3. ASSUME NEW d \in Devices, work'[d].pc = "turn" PROVE Restored(Mine(d).gen)'
  <2>1. work'[d].cmd \in DOMAIN cmds' /\ work'[d].pc \in LabelsOf(Mine(d)'.kind)
    BY <1>3, LanesHold DEF LanesHoldCommands
  <2>2. Mine(d)'.kind = "prompt"
    BY <1>3, <2>1 DEF LabelsOf
  <2> QED
    BY <2>1, <2>2, AsksStayRestored DEF AsksAreRestored, Mine
<1> QED
  BY <1>1, <1>2, <1>3 DEF RestoredBeforeUse, Restored

-----------------------------------------------------------------------------
(* The invariant and the theorem.                                            *)

\* At first nothing is restored and nothing has to be.
LEMMA InitRestored ==
  ASSUME Init
  PROVE  RInv
<1>1. cmds = <<>> /\ DOMAIN cmds = {} /\ Stage = "none" /\ exec.gen = 1
  BY DEF Init, Stage
<1>2. \A d \in Devices : work[d].pc = "idle" /\ recovery[d].pc = "done"
  BY DEF Init, Idle
<1>3. \A d \in Devices : session[d] \in {0, 1}
  BY DEF Init
<1>4. RestoresAreUnique /\ RestoresAreSettled /\ BlockedInTransit /\ AsksAreRestored
  BY <1>1 DEF RestoresAreUnique, RestoresAreSettled, BlockedInTransit, AsksAreRestored
<1>5. RestoresAreHeld /\ RestorersAreInTime /\ RecoveryIsRestored
  BY <1>2 DEF RestoresAreHeld, RestorersAreInTime, RecoveryIsRestored, RestoreLabels, TransitLabels
<1>6. RestoredBeforeUse
  BY <1>1, <1>2, <1>3 DEF RestoredBeforeUse, Restored
<1> QED
  BY <1>4, <1>5, <1>6 DEF RInv

\* The invariant is inductive.
LEMMA RestorationInvariance ==
  IInv /\ RInv /\ [Next]_vars => RInv'
<1> SUFFICES ASSUME IInv, RInv, [Next]_vars
             PROVE  RInv'
  OBVIOUS
<1>1. CASE Next
  BY <1>1, RestoresStayUnique, RestoresStayHeld, RestoresStaySettled, BlockedStaysInTransit,
     RestorersStayInTime, AsksStayRestored, RecoveryStaysRestored, StaysRestoredBeforeUse
  DEF RInv
<1>2. CASE UNCHANGED vars
  <2>1. /\ UNCHANGED <<exec, log, handoffs, cmds>> /\ UNCHANGED <<work, stopper, recovery>>
        /\ UNCHANGED <<session, copy>>
    BY <1>2 DEF vars, rows, lanes
  <2>2. RestoresAreUnique' /\ RestoresAreHeld' /\ RestoresAreSettled' /\ BlockedInTransit'
    BY <2>1 DEF RInv, RestoresAreUnique, RestoresAreHeld, RestoresAreSettled, BlockedInTransit,
       InTransit, Stage, Last, Mine, Holds
  <2>3. RestorersAreInTime' /\ AsksAreRestored' /\ RecoveryIsRestored' /\ RestoredBeforeUse'
    BY <2>1 DEF RInv, RestorersAreInTime, AsksAreRestored, RecoveryIsRestored, RestoredBeforeUse,
       Restored, InTransit, Stage, Last, Mine
  <2> QED
    BY <2>2, <2>3 DEF RInv
<1> QED
  BY <1>1, <1>2

(* Nobody runs a generation, keeps a provider session of it or takes a turn  *)
(* in it before the device it was handed to has restored and bound its       *)
(* transcript; and no session is ahead of the execution.                     *)
THEOREM RestoredFirst == Spec => []RestoredBeforeUse
<1>1. Init => RInv
  BY InitRestored
<1>2. RInv => RestoredBeforeUse
  BY DEF RInv
<1> QED
  BY <1>1, <1>2, RestorationInvariance, Always, PTL DEF Spec

=============================================================================
