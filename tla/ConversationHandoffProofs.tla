----------------------- MODULE ConversationHandoffProofs -----------------------
(***************************************************************************)
(* Proofs about ConversationHandoff, for any devices, handoffs, prompts,   *)
(* stops and faults.                                                       *)
(***************************************************************************)
EXTENDS ConversationHandoff, SequenceTheorems, TLAPS

ExecType == [state : States, gen : Gens, ver : Nat, device : Devices,
             runner : Runners \cup {None}, live : BOOLEAN]
HandoffType ==
  [state : Before \cup {"lease_transferred", "restoring", "running"},
   ver : Nat, source : Devices, target : Devices, gen : Gens,
   seq : 0..MaxHandoffs, expired : BOOLEAN, ready : {"none", "fresh", "stale"},
   owner : Runners \cup {None}, live : BOOLEAN]
CommandType ==
  [kind : {"quiesce", "verify_target", "restore", "prompt", "stop"},
   gen : Gens, device : Devices \cup {None},
   state : {"queued", "dispatching", "blocked", "indeterminate", "completed", "failed"},
   attempts : Nat, live : BOOLEAN, turns : Nat, pending : BOOLEAN]

-----------------------------------------------------------------------------
(* A process that starts again has died before.                              *)
LivesAreFaults == \A d \in Devices : life[d] + (IF up[d] THEN 0 ELSE 1) <= faults + 1

(* All handoffs but the last are past their transfer, and each goes from one *)
(* device to another.                                                        *)
HandoffsFollow ==
  /\ Len(handoffs) <= MaxHandoffs /\ Len(handoffs) <= exec.gen
  /\ \A h \in DOMAIN handoffs : handoffs[h].target # handoffs[h].source

(* The steps of the command lane that each kind of command takes.            *)
LabelsOf(kind) ==
  CASE kind = "prompt" -> {"open", "turn", "mark", "capture", "complete", "fail", "close", "set"}
    [] kind = "quiesce" -> {"open", "seal", "quiesce", "handoff", "prepare", "attest",
                            "complete", "fail", "close", "set"}
    [] kind = "verify_target" -> {"verify_target", "checkout", "verify", "commit",
                                  "complete", "fail"}
    [] kind = "restore" -> {"restore", "checkout", "begin", "write", "bind", "land", "enlist",
                            "open", "complete", "fail", "close", "set"}
    [] OTHER -> {}

(* A lane that is busy works on a command of its kind, in one of the         *)
(* attempts counted there; the steps that move a handoff have one to move.   *)
LanesHoldCommands ==
  \A d \in Devices :
    /\ work[d].pc # "idle" =>
         /\ work[d].cmd \in DOMAIN cmds
         /\ work[d].pc \in LabelsOf(Mine(d).kind)
         /\ work[d].att <= Mine(d).attempts
    /\ stopper[d].pc # "idle" =>
         stopper[d].cmd \in DOMAIN cmds /\ cmds[stopper[d].cmd].kind = "stop"
    /\ work[d].pc \in {"prepare", "attest", "verify", "commit", "begin", "write", "bind", "land"} =>
         handoffs # <<>>

(* No two lanes work in the same attempt of a command.                       *)
AttemptsDiffer ==
  \A d, e \in Devices :
    d # e /\ work[d].pc # "idle" /\ work[e].pc # "idle" /\ work[d].cmd = work[e].cmd =>
      work[d].att # work[e].att

(* What a command is asked of: the owner, or the target of the handoff that  *)
(* is not transferred yet.                                                   *)
Verifying == {"workspace_prepared", "target_verified"}
CommandsFit ==
  \A c \in DOMAIN cmds :
    LET k == cmds[c].kind IN
    /\ cmds[c].gen <= exec.gen
    /\ k \in {"prompt", "stop"} => cmds[c].state # "blocked"
    /\ k \in {"prompt", "stop", "quiesce"} => cmds[c].device = None
    /\ k = "restore" /\ cmds[c].gen = exec.gen => cmds[c].device = exec.device
    /\ k = "verify_target" /\ cmds[c].gen = exec.gen =>
         Stage \in Verifying /\ cmds[c].device = Last.target

(* The execution is leased to its owner or to nobody.                        *)
RunnerIsOwner == exec.runner # None => exec.runner[1] = exec.device

(* A lane that works for the present generation is the owner's, or verifies  *)
(* on the target; one that still verifies works for the present generation.  *)
LanesAreCurrent ==
  \A d \in Devices : work[d].pc # "idle" =>
    /\ Mine(d).kind # "verify_target" /\ Mine(d).gen = exec.gen => exec.device = d
    /\ Mine(d).kind = "verify_target" /\ work[d].pc \notin {"complete", "fail"} =>
         Mine(d).gen = exec.gen /\ Last.target = d

(* A lane that is about to run a turn, or runs one, holds its prompt and     *)
(* belongs to the owner.                                                     *)
PromptsAreHeld ==
  \A d \in Devices :
    work[d].pc \in {"open", "turn"} /\ Mine(d).kind = "prompt" =>
      exec.device = d /\ Holds(work[d])

(* A prompt that waits has not been given to the provider, or only its       *)
(* checkpoint is to do; a lane that is about to give it is the first to.     *)
TurnsComeOnce ==
  /\ \A c \in DOMAIN cmds :
       cmds[c].kind = "prompt" /\ cmds[c].state = "queued" => cmds[c].turns = 0 \/ cmds[c].pending
  /\ \A d \in Devices :
       work[d].pc = "open" /\ Mine(d).kind = "prompt" => Mine(d).turns = 0

(* From the request to the transfer the execution does not run, and every    *)
(* prompt is settled.                                                        *)
PromptsAreSettled ==
  Stage \in Before =>
    /\ exec.state # "running"
    /\ \A c \in DOMAIN cmds : cmds[c].kind = "prompt" => cmds[c].state \in Settled

(* Once the source is sealed no lane can demote the execution to a state in  *)
(* which a stop is accepted, and there is none.                              *)
SealedIsClosed ==
  Stage \in Before \ {"quiesce_requested"} =>
    /\ exec.state \notin {"running", "reconciling"}
    /\ \A d \in Devices :
         work[d].pc # "idle" /\ Mine(d).kind = "prompt" => Mine(d).gen # exec.gen

(* Stops precede the verification that is queued behind them, so a lane that *)
(* verifies has found them settled.                                          *)
StopsComeFirst ==
  \A v, s \in DOMAIN cmds :
    cmds[v].kind = "verify_target" /\ cmds[s].kind = "stop"
      /\ cmds[v].gen = exec.gen /\ cmds[s].gen = exec.gen => s < v
VerifierFoundThemSettled ==
  \A d \in Devices : \A s \in DOMAIN cmds :
    work[d].pc # "idle" /\ Mine(d).kind = "verify_target" /\ Mine(d).gen = exec.gen
      /\ cmds[s].kind = "stop" /\ cmds[s].gen = exec.gen => cmds[s].state \in Settled

IInv ==
  /\ TypeOK /\ OwnershipFollowsLog
  /\ LivesAreFaults /\ HandoffsFollow /\ LanesHoldCommands /\ AttemptsDiffer
  /\ CommandsFit /\ RunnerIsOwner /\ LanesAreCurrent /\ PromptsAreHeld /\ PromptsAreSettled
  /\ SealedIsClosed /\ StopsComeFirst /\ VerifierFoundThemSettled /\ NothingLeftBehind
  /\ TurnsComeOnce /\ TurnsAreTakenOnce

-----------------------------------------------------------------------------
(* Sequences of rows.                                                        *)

(* Changing a command leaves the others as they are.                         *)
LEMMA CommandChanged ==
  ASSUME cmds \in Seq(CommandType), NEW c \in DOMAIN cmds, NEW r \in CommandType,
         cmds' = [cmds EXCEPT ![c] = r]
  PROVE  /\ cmds' \in Seq(CommandType) /\ DOMAIN cmds' = DOMAIN cmds
         /\ cmds'[c] = r /\ \A p \in DOMAIN cmds : p # c => cmds'[p] = cmds[p]
<1>1. c \in 1..Len(cmds) /\ DOMAIN cmds = 1..Len(cmds)
  BY LenProperties
<1>2. cmds' \in Seq(CommandType) /\ Len(cmds') = Len(cmds)
      /\ \A p \in 1..Len(cmds) : cmds'[p] = IF p = c THEN r ELSE cmds[p]
  BY <1>1, ExceptSeq
<1>3. DOMAIN cmds' = 1..Len(cmds')
  BY <1>2, LenProperties
<1> QED
  BY <1>1, <1>2, <1>3

(* A command that is inserted comes last.                                    *)
LEMMA CommandAdded ==
  ASSUME cmds \in Seq(CommandType), NEW r \in CommandType, cmds' = Append(cmds, r)
  PROVE  /\ cmds' \in Seq(CommandType) /\ DOMAIN cmds' = DOMAIN cmds \cup {Len(cmds) + 1}
         /\ DOMAIN cmds = 1..Len(cmds) /\ Len(cmds) \in Nat
         /\ cmds'[Len(cmds) + 1] = r /\ \A p \in DOMAIN cmds : cmds'[p] = cmds[p]
<1>1. DOMAIN cmds = 1..Len(cmds) /\ Len(cmds) \in Nat
  BY LenProperties
<1>2. cmds' \in Seq(CommandType) /\ Len(cmds') = Len(cmds) + 1
      /\ cmds'[Len(cmds) + 1] = r /\ \A p \in 1..Len(cmds) : cmds'[p] = cmds[p]
  BY AppendProperties
<1>3. DOMAIN cmds' = 1..Len(cmds')
  BY <1>2, LenProperties
<1> QED
  BY <1>1, <1>2, <1>3

(* Changing the last handoff leaves the others as they are.                  *)
LEMMA LastChanged ==
  ASSUME handoffs \in Seq(HandoffType), handoffs # <<>>, NEW h \in HandoffType, SetLast(h)
  PROVE  /\ handoffs' \in Seq(HandoffType) /\ Len(handoffs') = Len(handoffs)
         /\ Len(handoffs) \in Nat \ {0} /\ DOMAIN handoffs = 1..Len(handoffs)
         /\ DOMAIN handoffs' = DOMAIN handoffs
         /\ handoffs'[Len(handoffs)] = h
         /\ \A g \in DOMAIN handoffs : g # Len(handoffs) => handoffs'[g] = handoffs[g]
<1>1. Len(handoffs) \in Nat \ {0} /\ DOMAIN handoffs = 1..Len(handoffs)
  BY LenProperties, EmptySeq
<1>2. handoffs' = [handoffs EXCEPT ![Len(handoffs)] = h]
  BY DEF SetLast
<1>3. handoffs' \in Seq(HandoffType) /\ Len(handoffs') = Len(handoffs)
      /\ \A g \in 1..Len(handoffs) :
           handoffs'[g] = IF g = Len(handoffs) THEN h ELSE handoffs[g]
  BY <1>1, <1>2, ExceptSeq
<1>4. DOMAIN handoffs' = 1..Len(handoffs')
  BY <1>3, LenProperties
<1>5. Len(handoffs) \in 1..Len(handoffs)
  BY <1>1
<1>6. DOMAIN handoffs' = DOMAIN handoffs
  BY <1>1, <1>3, <1>4
<1>7. handoffs'[Len(handoffs)] = h
      /\ \A g \in DOMAIN handoffs : g # Len(handoffs) => handoffs'[g] = handoffs[g]
  BY <1>1, <1>3, <1>5
<1> QED
  BY <1>1, <1>3, <1>6, <1>7

(* A handoff that is requested comes last.                                   *)
LEMMA HandoffAdded ==
  ASSUME handoffs \in Seq(HandoffType), NEW h \in HandoffType, handoffs' = Append(handoffs, h)
  PROVE  /\ handoffs' \in Seq(HandoffType) /\ Len(handoffs') = Len(handoffs) + 1
         /\ handoffs' # <<>> /\ Len(handoffs) \in Nat
         /\ DOMAIN handoffs = 1..Len(handoffs) /\ DOMAIN handoffs' = 1..(Len(handoffs) + 1)
         /\ handoffs'[Len(handoffs) + 1] = h
         /\ \A g \in DOMAIN handoffs : handoffs'[g] = handoffs[g]
<1>1. DOMAIN handoffs = 1..Len(handoffs) /\ Len(handoffs) \in Nat
  BY LenProperties
<1>2. handoffs' \in Seq(HandoffType) /\ Len(handoffs') = Len(handoffs) + 1 /\ handoffs' # <<>>
      /\ handoffs'[Len(handoffs) + 1] = h /\ \A g \in 1..Len(handoffs) : handoffs'[g] = handoffs[g]
  BY AppendProperties
<1>3. DOMAIN handoffs' = 1..Len(handoffs')
  BY <1>2, LenProperties
<1> QED
  BY <1>1, <1>2, <1>3

(* The types, by variable.                                                   *)
LEMMA Types ==
  ASSUME IInv
  PROVE  /\ exec \in ExecType /\ log \in [head : 0..MaxHandoffs, highest : {0} \cup Gens]
         /\ handoffs \in Seq(HandoffType) /\ cmds \in Seq(CommandType)
         /\ life \in [Devices -> 1..(MaxFaults + 1)] /\ up \in [Devices -> BOOLEAN]
         /\ session \in [Devices -> {0} \cup Gens]
         /\ work \in [Devices -> Lanes(Labels)] /\ stopper \in [Devices -> Lanes(StopLabels)]
         /\ copy \in [Gens -> {"none", "written", "bound"}]
         /\ asks \in 0..MaxAsks /\ faults \in 0..MaxFaults
BY DEF IInv, TypeOK, ExecType, HandoffType, CommandType

(* The last handoff, where there is one.                                     *)
LEMMA LastHandoff ==
  ASSUME IInv, handoffs # <<>>
  PROVE  /\ Len(handoffs) \in DOMAIN handoffs /\ Last \in HandoffType
         /\ Stage = Last.state /\ Last.gen = Len(handoffs) /\ Len(handoffs) \in Nat \ {0}
         /\ DOMAIN handoffs = 1..Len(handoffs)
<1>1. handoffs \in Seq(HandoffType)
  BY Types
<1>2. Len(handoffs) \in Nat \ {0} /\ DOMAIN handoffs = 1..Len(handoffs)
  BY <1>1, LenProperties, EmptySeq
<1>3. handoffs[Len(handoffs)] \in HandoffType
  BY <1>1, <1>2, ElementOfSeq
<1> QED
  BY <1>2, <1>3 DEF Last, Stage, IInv, OwnershipFollowsLog

-----------------------------------------------------------------------------
(* What a step of a lane does to the lane: it ends, or it goes on with the   *)
(* same attempt at a step that fits the command.                             *)
Fits(d, label) ==
  /\ label \in LabelsOf(Mine(d).kind)
  /\ label \in {"prepare", "attest", "verify", "commit", "begin", "write", "bind", "land"} => handoffs # <<>>
  /\ label \in {"open", "turn"} /\ Mine(d).kind = "prompt" => work[d].pc \in {"open", label}
  /\ Mine(d).kind = "verify_target" /\ label \notin {"complete", "fail"} =>
       work[d].pc \notin {"complete", "fail"}

GoesOn(d) ==
  /\ faults' \in 0..MaxFaults /\ faults' >= faults
  /\ \E v \in Lanes(Labels) :
       /\ work' = [work EXCEPT ![d] = v]
       /\ v.pc # "idle" => v.cmd = work[d].cmd /\ v.att = work[d].att /\ Fits(d, v.pc)

\* A lane that goes to a step remembers what it knew.
LEMMA LaneAt ==
  ASSUME IInv, NEW d \in Devices, NEW label \in Labels
  PROVE  LET v == [work[d] EXCEPT !.pc = label] IN
         v \in Lanes(Labels) /\ v.cmd = work[d].cmd /\ v.att = work[d].att /\ v.pc = label
<1>1. work[d] \in Lanes(Labels)
  BY Types
<1> QED
  BY <1>1 DEF Lanes

\* A lane goes on as Goes says, with the record it is given or as a failure.
LEMMA Going ==
  ASSUME IInv, NEW d \in Devices, work[d].pc # "idle", NEW w \in Lanes(Labels),
         w.pc # "idle" => w.cmd = work[d].cmd /\ w.att = work[d].att /\ Fits(d, w.pc),
         Goes(d, w)
  PROVE  GoesOn(d)
<1>0. work \in [Devices -> Lanes(Labels)] /\ faults \in 0..MaxFaults /\ MaxFaults \in Nat
  BY Types, HandoffAssumption
<1>1. CASE work' = [work EXCEPT ![d] = w] /\ UNCHANGED faults
  <2>1. faults' \in 0..MaxFaults /\ faults' >= faults
    BY <1>0, <1>1
  <2> QED
    BY <1>1, <2>1, Zenon DEF GoesOn
<1>2. CASE work' = [work EXCEPT ![d].pc = "fail"] /\ Fault
  <2> DEFINE v == [work[d] EXCEPT !.pc = "fail"]
  <2>1. v \in Lanes(Labels) /\ v.cmd = work[d].cmd /\ v.att = work[d].att /\ v.pc = "fail"
    BY LaneAt DEF Labels
  <2>2. Fits(d, "fail")
    BY DEF Fits, LabelsOf, IInv, LanesHoldCommands
  <2>3. work' = [work EXCEPT ![d] = v]
    BY <1>2
  <2>4. faults' \in 0..MaxFaults /\ faults' >= faults
    BY <1>0, <1>2 DEF Fault
  <2> HIDE DEF v
  <2> QED
    BY <2>1, <2>2, <2>3, <2>4 DEF GoesOn
<1> QED
  BY <1>1, <1>2 DEF Goes

(* The lane goes to a step with what it remembers.                           *)
LEMMA GoingTo ==
  ASSUME IInv, NEW d \in Devices, work[d].pc # "idle", NEW label \in Labels \ {"idle"},
         Fits(d, label), To(d, label)
  PROVE  GoesOn(d)
<1> DEFINE w == [work[d] EXCEPT !.pc = label]
<1>1. w \in Lanes(Labels) /\ w.cmd = work[d].cmd /\ w.att = work[d].att /\ w.pc = label
  BY LaneAt
<1>2. Goes(d, w)
  BY DEF To
<1> HIDE DEF w
<1> QED
  BY <1>1, <1>2, Going

(* The lane fails.                                                           *)
LEMMA Raising ==
  ASSUME IInv, NEW d \in Devices, work[d].pc # "idle",
         work' = [work EXCEPT ![d].pc = "fail"], faults' \in 0..MaxFaults, faults' >= faults
  PROVE  GoesOn(d)
<1> DEFINE v == [work[d] EXCEPT !.pc = "fail"]
<1>1. v \in Lanes(Labels) /\ v.cmd = work[d].cmd /\ v.att = work[d].att /\ v.pc = "fail"
  BY LaneAt DEF Labels
<1>2. Fits(d, "fail")
  BY DEF Fits, LabelsOf, IInv, LanesHoldCommands
<1>3. work' = [work EXCEPT ![d] = v]
  OBVIOUS
<1> HIDE DEF v
<1> QED
  BY <1>1, <1>2, <1>3 DEF GoesOn

\* It raises.
LEMMA RaisingNow ==
  ASSUME IInv, NEW d \in Devices, work[d].pc # "idle", Raise(d)
  PROVE  GoesOn(d)
<1>1. work' = [work EXCEPT ![d].pc = "fail"] /\ faults' = faults
  BY DEF Raise
<1>2. faults' \in 0..MaxFaults /\ faults' >= faults
  BY <1>1, Types, HandoffAssumption
<1> QED
  BY <1>1, <1>2, Raising

(* A lane goes on, or ends, with the record it is given.                     *)
LEMMA GoingWith ==
  ASSUME NEW d \in Devices, NEW v \in Lanes(Labels), work' = [work EXCEPT ![d] = v],
         v.pc # "idle" => v.cmd = work[d].cmd /\ v.att = work[d].att /\ Fits(d, v.pc),
         faults' \in 0..MaxFaults, faults' >= faults
  PROVE  GoesOn(d)
BY Zenon DEF GoesOn

(* The step of a lane tells the kind of its command.                         *)
LEMMA KindOfLane ==
  ASSUME IInv, NEW d \in Devices, work[d].pc # "idle"
  PROVE  /\ work[d].cmd \in DOMAIN cmds /\ Mine(d) \in CommandType
         /\ Mine(d).kind \in {"prompt", "quiesce", "verify_target", "restore"}
         /\ work[d].pc \in {"turn", "mark", "capture"} => Mine(d).kind = "prompt"
         /\ work[d].pc \in {"seal", "quiesce", "handoff", "prepare", "attest"} =>
              Mine(d).kind = "quiesce"
         /\ work[d].pc \in {"verify_target", "verify", "commit"} => Mine(d).kind = "verify_target"
         /\ work[d].pc = "checkout" => Mine(d).kind \in {"verify_target", "restore"}
         /\ work[d].pc \in {"restore", "begin", "write", "bind", "land", "enlist"} =>
              Mine(d).kind = "restore"
         /\ work[d].pc \in {"close", "set", "open"} => Mine(d).kind # "verify_target"
<1>1. work[d].cmd \in DOMAIN cmds /\ work[d].pc \in LabelsOf(Mine(d).kind)
  BY DEF IInv, LanesHoldCommands
<1>2. Mine(d) \in CommandType
  BY <1>1, Types, ElementOfSeq, LenProperties DEF Mine
<1>3. Mine(d).kind \in {"quiesce", "verify_target", "restore", "prompt", "stop"}
  BY <1>2 DEF CommandType
<1> HIDE DEF Mine
<1> QED
  BY <1>1, <1>2, <1>3 DEF LabelsOf

\* Every step of the command lane moves it on, and touches nothing of the process.
LEMMA LaneMoves ==
  ASSUME IInv, NEW d \in Devices, LaneStep(d) \/ Block(d) \/ LoseLease(d)
  PROVE  /\ GoesOn(d) /\ work[d].pc # "idle"
         /\ UNCHANGED <<life, up, stopper, recovery, asks>>
<1> USE DEF Labels
<1>0. MaxFaults \in Nat /\ faults \in 0..MaxFaults
  BY Types, HandoffAssumption
<1>1. CASE Open(d)
  <2>1. work[d].pc = "open"
    BY <1>1 DEF Open
  <2> DEFINE label == IF Mine(d).kind = "prompt" THEN "turn"
                      ELSE IF Mine(d).kind = "quiesce" THEN "seal" ELSE "complete"
  <2>2. Fits(d, label) /\ label \in Labels \ {"idle"}
    BY <2>1, KindOfLane DEF Fits, LabelsOf
  <2>3. To(d, label)
    BY <1>1 DEF Open
  <2> HIDE DEF label
  <2>4. GoesOn(d)
    BY <2>1, <2>2, <2>3, GoingTo
  <2> QED
    BY <1>1, <2>1, <2>4 DEF Open
<1>2. CASE EndTurn(d)
  <2>1. work[d].pc = "mark" /\ (To(d, "complete") \/ Raise(d))
    BY <1>2 DEF EndTurn
  <2>2. Fits(d, "complete")
    BY <2>1, KindOfLane DEF Fits, LabelsOf
  <2>3. GoesOn(d)
    BY <2>1, <2>2, GoingTo, RaisingNow
  <2> QED
    BY <1>2, <2>1, <2>3 DEF EndTurn
<1>29. CASE BindSource(d)
  <2>1. work[d].pc = "turn" /\ (To(d, "mark") \/ Raise(d))
    BY <1>29 DEF BindSource
  <2>2. Fits(d, "mark")
    BY <2>1, KindOfLane DEF Fits, LabelsOf
  <2>3. GoesOn(d)
    BY <2>1, <2>2, GoingTo, RaisingNow
  <2> QED
    BY <1>29, <2>1, <2>3 DEF BindSource
<1>3. CASE Seal(d)
  <2>1. work[d].pc = "seal" /\ To(d, "quiesce")
    BY <1>3 DEF Seal
  <2>2. Fits(d, "quiesce")
    BY <2>1, KindOfLane DEF Fits, LabelsOf
  <2>3. GoesOn(d)
    BY <2>1, <2>2, GoingTo
  <2> QED
    BY <1>3, <2>1, <2>3 DEF Seal
<1>4. CASE Quiesce(d)
  <2>1. work[d].pc = "quiesce" /\ (To(d, "handoff") \/ Raise(d))
    BY <1>4 DEF Quiesce
  <2>2. Fits(d, "handoff")
    BY <2>1, KindOfLane DEF Fits, LabelsOf
  <2>3. GoesOn(d)
    BY <2>1, <2>2, GoingTo, RaisingNow
  <2> QED
    BY <1>4, <2>1, <2>3 DEF Quiesce
<1>5. CASE ReadHandoff(d)
  <2>1. work[d].pc = "handoff"
    BY <1>5 DEF ReadHandoff
  <2>2. CASE Active
    <3> DEFINE w == [work[d] EXCEPT !.pc = "prepare", !.hver = Last.ver]
    <3>1. handoffs # <<>>
      BY <2>2 DEF Active, Stage
    <3>2. Last.ver \in Nat
      BY <3>1, LastHandoff DEF HandoffType
    <3>3. work[d] \in Lanes(Labels)
      BY Types
    <3>4. w \in Lanes(Labels) /\ w.pc = "prepare" /\ w.cmd = work[d].cmd /\ w.att = work[d].att
      BY <3>2, <3>3 DEF Lanes
    <3>5. Fits(d, "prepare")
      BY <2>1, <3>1, KindOfLane DEF Fits, LabelsOf
    <3>6. Goes(d, w)
      BY <1>5, <2>2 DEF ReadHandoff
    <3> HIDE DEF w
    <3> QED
      BY <1>5, <2>1, <3>4, <3>5, <3>6, Going DEF ReadHandoff, LaneOnly
  <2>3. CASE ~Active
    <3>1. To(d, "complete")
      BY <1>5, <2>3 DEF ReadHandoff
    <3>2. Fits(d, "complete")
      BY <2>1, KindOfLane DEF Fits, LabelsOf
    <3>3. GoesOn(d)
      BY <2>1, <3>1, <3>2, GoingTo
    <3> QED
      BY <1>5, <2>1, <3>3 DEF ReadHandoff, LaneOnly
  <2> QED
    BY <2>2, <2>3
<1>6. CASE Prepare(d)
  <2>1. work[d].pc = "prepare" /\ handoffs # <<>>
    BY <1>6 DEF Prepare, IInv, LanesHoldCommands
  <2>2. CASE Goes(d, [work[d] EXCEPT !.pc = "attest", !.hver = Last.ver + 2])
    <3> DEFINE w == [work[d] EXCEPT !.pc = "attest", !.hver = Last.ver + 2]
    <3>1. Last.ver + 2 \in Nat
      BY <2>1, LastHandoff DEF HandoffType
    <3>2. work[d] \in Lanes(Labels)
      BY Types
    <3>3. w \in Lanes(Labels) /\ w.pc = "attest" /\ w.cmd = work[d].cmd /\ w.att = work[d].att
      BY <3>1, <3>2 DEF Lanes
    <3>4. Fits(d, "attest")
      BY <2>1, KindOfLane DEF Fits, LabelsOf
    <3>5. Goes(d, w)
      BY <2>2
    <3> HIDE DEF w
    <3> QED
      BY <1>6, <2>1, <3>3, <3>4, <3>5, Going DEF Prepare
  <2>3. CASE Raise(d)
    <3>1. GoesOn(d)
      BY <2>1, <2>3, RaisingNow
    <3> QED
      BY <1>6, <2>1, <3>1 DEF Prepare
  <2> QED
    BY <1>6, <2>2, <2>3 DEF Prepare
<1>7. CASE Attest(d)
  <2>1. work[d].pc = "attest" /\ (To(d, "complete") \/ Raise(d))
    BY <1>7 DEF Attest
  <2>2. Fits(d, "complete")
    BY <2>1, KindOfLane DEF Fits, LabelsOf
  <2>3. GoesOn(d)
    BY <2>1, <2>2, GoingTo, RaisingNow
  <2> QED
    BY <1>7, <2>1, <2>3 DEF Attest
<1>8. CASE Block(d)
  <2>1. work[d].pc # "idle" /\ work' = [work EXCEPT ![d] = Idle]
        /\ faults' \in 0..MaxFaults /\ faults' >= faults
    BY <1>0, <1>8 DEF Block, Fault
  <2>2. Idle \in Lanes(Labels) /\ Idle.pc = "idle"
    BY DEF Idle, Lanes
  <2>3. GoesOn(d)
    BY <2>1, <2>2, GoingWith
  <2> QED
    BY <1>8, <2>1, <2>3 DEF Block
<1>9. CASE ReadTarget(d)
  <2>1. work[d].pc = "verify_target"
    BY <1>9 DEF ReadTarget
  <2>2. ASSUME NEW label \in {"checkout", "complete"}, To(d, label) PROVE GoesOn(d)
    <3>1. Fits(d, label)
      BY <2>1, KindOfLane DEF Fits, LabelsOf
    <3> QED
      BY <2>1, <2>2, <3>1, GoingTo
  <2>3. ASSUME Targeted(d), Goes(d, [work[d] EXCEPT !.pc = "commit", !.hver = Last.ver])
        PROVE  GoesOn(d)
    <3> DEFINE w == [work[d] EXCEPT !.pc = "commit", !.hver = Last.ver]
    <3>1. handoffs # <<>>
      BY <2>3 DEF Targeted, Active, Stage
    <3>2. Last.ver \in Nat
      BY <3>1, LastHandoff DEF HandoffType
    <3>3. work[d] \in Lanes(Labels)
      BY Types
    <3>4. w \in Lanes(Labels) /\ w.pc = "commit" /\ w.cmd = work[d].cmd /\ w.att = work[d].att
      BY <3>2, <3>3 DEF Lanes
    <3>5. Fits(d, "commit")
      BY <2>1, <3>1, KindOfLane DEF Fits, LabelsOf
    <3>6. Goes(d, w)
      BY <2>3
    <3> HIDE DEF w
    <3> QED
      BY <2>1, <3>4, <3>5, <3>6, Going
  <2>4. ASSUME Raise(d) PROVE GoesOn(d)
    BY <2>1, <2>4, RaisingNow
  <2>5. GoesOn(d)
    BY <1>9, <2>2, <2>3, <2>4 DEF ReadTarget
  <2> QED
    BY <1>9, <2>1, <2>5 DEF ReadTarget, LaneOnly
<1>10. CASE Checkout(d)
  <2>1. work[d].pc = "checkout"
    BY <1>10 DEF Checkout
  <2>2. CASE Targeted(d)
    <3> DEFINE label == IF Mine(d).kind = "restore" THEN "begin" ELSE "verify"
               w == [work[d] EXCEPT !.hver = Last.ver, !.pc = label]
    <3>1. handoffs # <<>>
      BY <2>2 DEF Targeted, Active, Stage
    <3>2. Last.ver \in Nat
      BY <3>1, LastHandoff DEF HandoffType
    <3>3. work[d] \in Lanes(Labels) /\ label \in Labels \ {"idle"}
      BY Types
    <3>4. Fits(d, label)
      BY <2>1, <3>1, KindOfLane DEF Fits, LabelsOf
    <3>5. Goes(d, w)
      BY <1>10, <2>2 DEF Checkout
    <3> HIDE DEF label
    <3>6. w \in Lanes(Labels) /\ w.pc = label /\ w.cmd = work[d].cmd /\ w.att = work[d].att
      BY <3>2, <3>3 DEF Lanes
    <3> HIDE DEF w
    <3> QED
      BY <1>10, <2>1, <3>4, <3>5, <3>6, Going DEF Checkout, LaneOnly
  <2>3. CASE ~Targeted(d)
    <3>1. GoesOn(d)
      BY <1>10, <2>1, <2>3, RaisingNow DEF Checkout
    <3> QED
      BY <1>10, <2>1, <3>1 DEF Checkout, LaneOnly
  <2> QED
    BY <2>2, <2>3
<1>11. CASE Verify(d)
  <2>1. work[d].pc = "verify" /\ handoffs # <<>>
    BY <1>11 DEF Verify, IInv, LanesHoldCommands
  <2>2. CASE Goes(d, [work[d] EXCEPT !.pc = "commit", !.hver = Last.ver + 1])
    <3> DEFINE w == [work[d] EXCEPT !.pc = "commit", !.hver = Last.ver + 1]
    <3>1. Last.ver + 1 \in Nat
      BY <2>1, LastHandoff DEF HandoffType
    <3>2. work[d] \in Lanes(Labels)
      BY Types
    <3>3. w \in Lanes(Labels) /\ w.pc = "commit" /\ w.cmd = work[d].cmd /\ w.att = work[d].att
      BY <3>1, <3>2 DEF Lanes
    <3>4. Fits(d, "commit")
      BY <2>1, KindOfLane DEF Fits, LabelsOf
    <3>5. Goes(d, w)
      BY <2>2
    <3> HIDE DEF w
    <3> QED
      BY <1>11, <2>1, <3>3, <3>4, <3>5, Going DEF Verify
  <2>3. CASE Raise(d)
    <3>1. GoesOn(d)
      BY <2>1, <2>3, RaisingNow
    <3> QED
      BY <1>11, <2>1, <3>1 DEF Verify
  <2> QED
    BY <1>11, <2>2, <2>3 DEF Verify
<1>12. CASE Commit(d)
  <2>1. work[d].pc = "commit" /\ (To(d, "complete") \/ Raise(d))
    BY <1>12 DEF Commit
  <2>2. Fits(d, "complete")
    BY <2>1, KindOfLane DEF Fits, LabelsOf
  <2>3. GoesOn(d)
    BY <2>1, <2>2, GoingTo, RaisingNow
  <2> QED
    BY <1>12, <2>1, <2>3 DEF Commit
<1>13. CASE ReadLatest(d)
  <2>1. work[d].pc = "restore" /\ (To(d, "open") \/ To(d, "checkout") \/ Raise(d))
    BY <1>13 DEF ReadLatest
  <2>2. Fits(d, "open") /\ Fits(d, "checkout")
    BY <2>1, KindOfLane DEF Fits, LabelsOf
  <2>3. GoesOn(d)
    BY <2>1, <2>2, GoingTo, RaisingNow
  <2> QED
    BY <1>13, <2>1, <2>3 DEF ReadLatest, LaneOnly
<1>14. CASE Begin(d)
  <2>1. work[d].pc = "begin" /\ handoffs # <<>>
    BY <1>14 DEF Begin, IInv, LanesHoldCommands
  <2>2. ASSUME NEW ver \in {Last.ver, Last.ver + 1},
               Goes(d, [work[d] EXCEPT !.pc = "write", !.hver = ver])
        PROVE  GoesOn(d)
    <3> DEFINE w == [work[d] EXCEPT !.pc = "write", !.hver = ver]
    <3>1. ver \in Nat
      BY <2>1, LastHandoff DEF HandoffType
    <3>2. work[d] \in Lanes(Labels)
      BY Types
    <3>3. w \in Lanes(Labels) /\ w.pc = "write" /\ w.cmd = work[d].cmd /\ w.att = work[d].att
      BY <3>1, <3>2 DEF Lanes
    <3>4. Fits(d, "write")
      BY <2>1, KindOfLane DEF Fits, LabelsOf
    <3>5. Goes(d, w)
      BY <2>2
    <3> HIDE DEF w
    <3> QED
      BY <2>1, <3>3, <3>4, <3>5, Going
  <2>3. ASSUME Raise(d) PROVE GoesOn(d)
    BY <2>1, <2>3, RaisingNow
  <2>4. GoesOn(d)
    BY <1>14, <2>2, <2>3 DEF Begin
  <2> QED
    BY <1>14, <2>1, <2>4 DEF Begin
<1>15. CASE Write(d)
  <2>1. work[d].pc = "write" /\ (To(d, "bind") \/ Raise(d))
    BY <1>15 DEF Write
  <2>2. handoffs # <<>>
    BY <2>1 DEF IInv, LanesHoldCommands
  <2>3. Fits(d, "bind")
    BY <2>1, <2>2, KindOfLane DEF Fits, LabelsOf
  <2>4. GoesOn(d)
    BY <2>1, <2>3, GoingTo, RaisingNow
  <2> QED
    BY <1>15, <2>1, <2>4 DEF Write
<1>16. CASE Bind(d)
  <2>1. work[d].pc = "bind" /\ To(d, "land")
    BY <1>16 DEF Bind
  <2>2. handoffs # <<>>
    BY <2>1 DEF IInv, LanesHoldCommands
  <2>3. Fits(d, "land")
    BY <2>1, <2>2, KindOfLane DEF Fits, LabelsOf
  <2>4. GoesOn(d)
    BY <2>1, <2>3, GoingTo
  <2> QED
    BY <1>16, <2>1, <2>4 DEF Bind
<1>17. CASE Land(d)
  <2>1. work[d].pc = "land" /\ (To(d, "enlist") \/ Raise(d))
    BY <1>17 DEF Land
  <2>2. Fits(d, "enlist")
    BY <2>1, KindOfLane DEF Fits, LabelsOf
  <2>3. GoesOn(d)
    BY <2>1, <2>2, GoingTo, RaisingNow
  <2> QED
    BY <1>17, <2>1, <2>3 DEF Land
<1>18. ASSUME NEW label \in {"complete", "set"}, work[d].pc # "idle",
              work' = [work EXCEPT ![d].pc = label], UNCHANGED faults, Fits(d, label)
       PROVE  GoesOn(d)
  <2>1. To(d, label)
    BY <1>18 DEF To, Goes
  <2> QED
    BY <1>18, <2>1, GoingTo
<1>19. CASE Enlist(d)
  <2>1. work[d].pc = "enlist" /\ work' = [work EXCEPT ![d].pc = "complete"] /\ UNCHANGED faults
    BY <1>19 DEF Enlist
  <2>2. Fits(d, "complete")
    BY <2>1, KindOfLane DEF Fits, LabelsOf
  <2>3. GoesOn(d)
    BY <1>18, <2>1, <2>2
  <2> QED
    BY <1>19, <2>1, <2>3 DEF Enlist
<1>20. Idle \in Lanes(Labels) /\ Idle.pc = "idle"
  BY DEF Idle, Lanes
<1>21. CASE Complete(d)
  <2>1. work[d].pc = "complete" /\ (Goes(d, Idle) \/ Raise(d))
    BY <1>21 DEF Complete
  <2>2. GoesOn(d)
    BY <1>20, <2>1, Going, RaisingNow
  <2> QED
    BY <1>21, <2>1, <2>2 DEF Complete
<1>22. ASSUME work[d].pc # "idle", work' = [work EXCEPT ![d] = Idle],
              faults' \in 0..MaxFaults, faults' >= faults
       PROVE  GoesOn(d)
  BY <1>20, <1>22, GoingWith
<1>23. CASE FailCommand(d)
  <2>1. work[d].pc = "fail" /\ faults' \in 0..MaxFaults /\ faults' >= faults
    BY <1>0, <1>23 DEF FailCommand, Fault
  <2>2. \/ work' = [work EXCEPT ![d] = Idle]
        \/ work' = [work EXCEPT ![d] = [work[d] EXCEPT !.pc = "close"]]
             /\ Mine(d).kind # "verify_target"
    <3> PICK r \in Failures(d), heard \in BOOLEAN :
           work' = [work EXCEPT ![d] =
             IF IF heard \/ ~OnePrompt(d) THEN r[2] ELSE r[1] # "failed"
             THEN [@ EXCEPT !.pc = "close"] ELSE Idle]
      BY <1>23, Zenon DEF FailCommand
    <3>1. CASE OnePrompt(d)
      BY <3>1 DEF OnePrompt
    <3>2. CASE ~OnePrompt(d)
      <4>1. r = <<IF Terminal(d) THEN "failed" ELSE "queued",
                  Terminal(d) /\ Mine(d).kind # "verify_target">>
        BY <3>2, Zenon DEF Failures
      <4>2. r[2] => Mine(d).kind # "verify_target"
        BY <4>1
      <4> QED
        BY <3>2, <4>2
    <3> QED
      BY <3>1, <3>2
  <2>3. ASSUME work' = [work EXCEPT ![d] = [work[d] EXCEPT !.pc = "close"]],
               Mine(d).kind # "verify_target"
        PROVE  GoesOn(d)
    <3> DEFINE v == [work[d] EXCEPT !.pc = "close"]
    <3>1. v \in Lanes(Labels) /\ v.cmd = work[d].cmd /\ v.att = work[d].att /\ v.pc = "close"
      BY LaneAt
    <3>2. Fits(d, "close")
      BY <2>1, <2>3, KindOfLane DEF Fits, LabelsOf
    <3>3. work' = [work EXCEPT ![d] = v]
      BY <2>3
    <3> HIDE DEF v
    <3> QED
      BY <2>1, <3>1, <3>2, <3>3, GoingWith
  <2>4. GoesOn(d)
    BY <1>22, <2>1, <2>2, <2>3
  <2> QED
    BY <1>23, <2>1, <2>4 DEF FailCommand
<1>24. CASE Close(d)
  <2>1. work[d].pc = "close" /\ UNCHANGED faults
    BY <1>24 DEF Close
  <2>2. ASSUME work' = [work EXCEPT ![d] = [work[d] EXCEPT !.pc = "set", !.ver = exec.ver]]
        PROVE  GoesOn(d)
    <3> DEFINE v == [work[d] EXCEPT !.pc = "set", !.ver = exec.ver]
    <3>1. work[d] \in Lanes(Labels) /\ exec.ver \in Nat
      BY Types DEF ExecType
    <3>2. v \in Lanes(Labels) /\ v.cmd = work[d].cmd /\ v.att = work[d].att /\ v.pc = "set"
      BY <3>1 DEF Lanes
    <3>3. Fits(d, "set")
      BY <2>1, KindOfLane DEF Fits, LabelsOf
    <3>4. work' = [work EXCEPT ![d] = v]
      BY <2>2
    <3> HIDE DEF v
    <3>5. faults' \in 0..MaxFaults /\ faults' >= faults
      BY <1>0, <2>1
    <3> QED
      BY <3>2, <3>3, <3>4, <3>5, GoingWith
  <2>3. ASSUME work' = [work EXCEPT ![d] = Idle] PROVE GoesOn(d)
    BY <1>0, <1>22, <2>1, <2>3
  <2>4. GoesOn(d)
    BY <1>24, <2>2, <2>3 DEF Close
  <2> QED
    BY <1>24, <2>1, <2>4 DEF Close
<1>25. CASE Demote(d)
  <2>1. work[d].pc = "set" /\ UNCHANGED faults /\ work' = [work EXCEPT ![d] = Idle]
    BY <1>25 DEF Demote
  <2>2. GoesOn(d)
    BY <1>0, <1>22, <2>1
  <2> QED
    BY <1>25, <2>1, <2>2 DEF Demote
<1>26. CASE Throw(d)
  <2>1. work[d].pc # "idle" /\ work' = [work EXCEPT ![d].pc = "fail"]
        /\ faults' \in 0..MaxFaults /\ faults' >= faults
    BY <1>0, <1>26 DEF Throw, Busy, Fault
  <2>2. GoesOn(d)
    BY <2>1, Raising
  <2> QED
    BY <1>26, <2>1, <2>2 DEF Throw, LaneOnly
<1>27. CASE LoseLease(d)
  <2> DEFINE v == [work[d] EXCEPT !.lost = TRUE]
  <2>1. work[d].pc # "idle" /\ UNCHANGED faults /\ work' = [work EXCEPT ![d] = v]
    BY <1>27 DEF LoseLease, Busy
  <2>2. work[d] \in Lanes(Labels)
    BY Types
  <2>3. v \in Lanes(Labels) /\ v.cmd = work[d].cmd /\ v.att = work[d].att /\ v.pc = work[d].pc
    BY <2>2 DEF Lanes
  <2>4. Fits(d, work[d].pc)
    BY <2>1 DEF Fits, IInv, LanesHoldCommands
  <2>5. faults' \in 0..MaxFaults /\ faults' >= faults
    BY <1>0, <2>1
  <2>6. work' = [work EXCEPT ![d] = v]
    BY <2>1
  <2> HIDE DEF v
  <2>7. GoesOn(d)
    BY <2>3, <2>4, <2>5, <2>6, GoingWith
  <2> QED
    BY <1>27, <2>1, <2>7 DEF LoseLease, LaneOnly
<1>28. CASE Capture(d)
  <2>1. work[d].pc = "capture" /\ To(d, "complete")
    BY <1>28 DEF Capture
  <2>2. Fits(d, "complete")
    BY <2>1, KindOfLane DEF Fits, LabelsOf
  <2>3. GoesOn(d)
    BY <2>1, <2>2, GoingTo
  <2> QED
    BY <1>28, <2>1, <2>3 DEF Capture
<1> QED
  BY <1>1, <1>2, <1>3, <1>4, <1>5, <1>6, <1>7, <1>8, <1>9, <1>10, <1>11, <1>12, <1>13, <1>14,
     <1>15, <1>16, <1>17, <1>19, <1>21, <1>23, <1>24, <1>25, <1>26, <1>27, <1>28,
     <1>29 DEF LaneStep

-----------------------------------------------------------------------------
(* The processes: faults, lives, lanes and sessions.                         *)

(* A step that is not the command lane's own.                                *)
OtherStep ==
  \/ UserStep \/ Lapse \/ Expires \/ \E c \in DOMAIN cmds : Replicated(c)
  \/ \E d \in Devices : \/ Claim(d) \/ Reconcile(d) \/ StopStep(d) \/ StopThrows(d)
                        \/ RecoveryStep(d) \/ RenewFails(d)
                        \/ Crash(d) \/ Stop(d) \/ Start(d)

\* A step is the command lane's own or not.
LEMMA NextSplits ==
  Next <=> OtherStep \/ \E d \in Devices : LaneStep(d) \/ Block(d) \/ LoseLease(d)
BY Zenon DEF Next, OtherStep

(* Faults are counted and bounded.                                           *)
LEMMA FaultsCount ==
  ASSUME IInv, Next
  PROVE  faults' \in 0..MaxFaults /\ faults' >= faults
<1>0. faults \in 0..MaxFaults /\ MaxFaults \in Nat
  BY Types, HandoffAssumption
<1>1. Fault \/ UNCHANGED faults => faults' \in 0..MaxFaults /\ faults' >= faults
  BY <1>0 DEF Fault
<1>2. ASSUME NEW d \in Devices, LaneStep(d) \/ Block(d) \/ LoseLease(d)
      PROVE  faults' \in 0..MaxFaults /\ faults' >= faults
  BY <1>2, LaneMoves DEF GoesOn
<1>3. CASE UserStep
  BY <1>1, <1>3 DEF UserStep, Request, Ask
<1>4. CASE Lapse \/ Expires
  <2>1. CASE \E c \in DOMAIN cmds : CommandLapses(c)
    BY <1>1, <2>1 DEF CommandLapses, Unless
  <2>2. CASE ExecutionLapses
    BY <1>1, <2>2 DEF ExecutionLapses, Unless
  <2>3. CASE RestorationLapses
    BY <1>1, <2>3, Zenon DEF RestorationLapses, Unless
  <2>4. CASE Expires
    BY <1>1, <2>4 DEF Expires
  <2> QED
    BY <1>4, <2>1, <2>2, <2>3, <2>4 DEF Lapse
<1>5. CASE \E c \in DOMAIN cmds : Replicated(c)
  BY <1>1, <1>5 DEF Replicated
<1>6. ASSUME NEW d \in Devices, Claim(d) \/ Reconcile(d) \/ RenewFails(d) \/ Start(d)
      PROVE  faults' \in 0..MaxFaults /\ faults' >= faults
  BY <1>1, <1>6 DEF Claim, Reconcile, RenewFails, Start
<1>7. ASSUME NEW d \in Devices, StopStep(d) \/ StopThrows(d)
      PROVE  faults' \in 0..MaxFaults /\ faults' >= faults
  <2>1. Fault \/ UNCHANGED faults
    BY <1>7 DEF StopStep, StopThrows, ClaimStop, ReadToStop, SetStop, CloseToStop, EndStop, StopOnly
  <2> QED
    BY <1>1, <2>1
<1>8. ASSUME NEW d \in Devices, RecoveryStep(d) \/ Crash(d) \/ Stop(d)
      PROVE  faults' \in 0..MaxFaults /\ faults' >= faults
  <2>1. Fault \/ UNCHANGED faults
    BY <1>8 DEF RecoveryStep, List, Acquire, Recovered, Crash, Stop, Dies
  <2> QED
    BY <1>1, <2>1
<1> QED
  BY <1>2, <1>3, <1>4, <1>5, <1>6, <1>7, <1>8, NextSplits DEF OtherStep

\* A device's life counts its restarts, each of which follows a fault.
LEMMA LivesHold ==
  ASSUME IInv, Next
  PROVE  /\ life' \in [Devices -> 1..(MaxFaults + 1)] /\ up' \in [Devices -> BOOLEAN]
         /\ LivesAreFaults'
<1>0. /\ life \in [Devices -> 1..(MaxFaults + 1)] /\ up \in [Devices -> BOOLEAN]
      /\ faults \in Nat /\ MaxFaults \in Nat /\ LivesAreFaults
  BY Types, HandoffAssumption DEF IInv
<1>1. faults' \in 0..MaxFaults /\ faults' >= faults
  BY FaultsCount
<1>2. CASE UNCHANGED <<life, up>>
  BY <1>0, <1>1, <1>2 DEF LivesAreFaults
<1>3. ASSUME NEW d \in Devices, Crash(d) \/ Stop(d)
      PROVE  /\ life' \in [Devices -> 1..(MaxFaults + 1)] /\ up' \in [Devices -> BOOLEAN]
             /\ LivesAreFaults'
  <2>1. up[d] /\ up' = [up EXCEPT ![d] = FALSE] /\ faults' = faults + 1 /\ UNCHANGED life
    BY <1>3 DEF Crash, Stop, Dies, Fault
  <2> QED
    BY <1>0, <2>1 DEF LivesAreFaults
<1>4. ASSUME NEW d \in Devices, Start(d)
      PROVE  /\ life' \in [Devices -> 1..(MaxFaults + 1)] /\ up' \in [Devices -> BOOLEAN]
             /\ LivesAreFaults'
  <2>1. ~up[d] /\ up' = [up EXCEPT ![d] = TRUE] /\ life' = [life EXCEPT ![d] = life[d] + 1]
        /\ UNCHANGED faults
    BY <1>4 DEF Start
  <2>2. life[d] + 1 <= faults + 1 /\ faults <= MaxFaults /\ life[d] \in Nat
    BY <1>0, <1>1, <2>1 DEF LivesAreFaults
  <2>3. life[d] + 1 \in 1..(MaxFaults + 1)
    BY <1>0, <2>2
  <2>4. life' \in [Devices -> 1..(MaxFaults + 1)] /\ up' \in [Devices -> BOOLEAN]
    BY <1>0, <2>1, <2>3
  <2> QED
    BY <1>0, <2>1, <2>2, <2>4 DEF LivesAreFaults
<1>5. ASSUME NEW d \in Devices, LaneStep(d) \/ Block(d) \/ LoseLease(d) PROVE UNCHANGED <<life, up>>
  BY <1>5, LaneMoves
<1>6. CASE UserStep \/ Lapse \/ Expires \/ \E c \in DOMAIN cmds : Replicated(c)
  BY <1>2, <1>6 DEF UserStep, Request, Ask, Lapse, CommandLapses, ExecutionLapses,
       RestorationLapses, Expires, TimeOnly, Replicated
<1>7. ASSUME NEW d \in Devices,
             Claim(d) \/ Reconcile(d) \/ StopStep(d) \/ StopThrows(d) \/ RecoveryStep(d) \/ RenewFails(d)
      PROVE  UNCHANGED <<life, up>>
  BY <1>7 DEF Claim, Reconcile, StopStep, StopThrows, ClaimStop, ReadToStop, SetStop, CloseToStop,
       EndStop, StopOnly, RecoveryStep, List, Acquire, Recovered, RecoveryOnly, RenewFails
<1> QED
  BY <1>2, <1>3, <1>4, <1>5, <1>6, <1>7, NextSplits DEF OtherStep

(* A lane ends, or works on with the same attempt.                           *)
LaneKept(d) ==
  \/ work'[d].pc = "idle"
  \/ /\ work[d].pc # "idle" /\ work'[d].cmd = work[d].cmd /\ work'[d].att = work[d].att
     /\ Fits(d, work'[d].pc)

\* Lanes that stand still are kept.
LEMMA SameLaneKept ==
  ASSUME IInv, NEW d \in Devices, work'[d] = work[d]
  PROVE  LaneKept(d)
BY DEF LaneKept, Fits, IInv, LanesHoldCommands

(* A claimed command fits its lane.                                          *)
LEMMA ClaimTakes ==
  ASSUME IInv, NEW d \in Devices, NEW c \in DOMAIN cmds, Claimable(d, c)
  PROVE  LET w == [Idle EXCEPT !.pc = Entry(c), !.cmd = c, !.att = cmds[c].attempts + 1,
                               !.ver = exec.ver] IN
         /\ cmds[c] \in CommandType
         /\ w \in Lanes(Labels) /\ w.pc = Entry(c) /\ w.cmd = c /\ w.att = cmds[c].attempts + 1
         /\ Entry(c) \in LabelsOf(cmds[c].kind) \ {"prepare", "attest", "verify", "commit", "begin",
                                                   "write", "bind", "land", "complete", "fail"}
<1>1. cmds[c] \in CommandType /\ c \in Nat /\ exec.ver \in Nat
  BY Types, ElementOfSeq, LenProperties DEF ExecType
<1>2. cmds[c].kind # "stop" /\ cmds[c].attempts + 1 \in Nat
      /\ cmds[c].kind \in {"quiesce", "verify_target", "restore", "prompt", "stop"}
  BY <1>1 DEF Claimable, CommandType
<1>3. Entry(c) \in LabelsOf(cmds[c].kind) \ {"prepare", "attest", "verify", "commit", "begin",
                                             "write", "bind", "land", "complete", "fail"}
  BY <1>2 DEF Entry, LabelsOf
<1>4. Entry(c) \in Labels
  BY <1>2 DEF Entry, Labels
<1> QED
  BY <1>1, <1>2, <1>3, <1>4 DEF Idle, Lanes

\* A step claims a command for one lane, or keeps every lane.
LEMMA LanesMove ==
  ASSUME IInv, Next
  PROVE  /\ work' \in [Devices -> Lanes(Labels)]
         /\ (\E d \in Devices : Claim(d)) \/ \A d \in Devices : LaneKept(d)
<1>0. work \in [Devices -> Lanes(Labels)]
  BY Types
<1>1. ASSUME NEW d \in Devices, LaneStep(d) \/ Block(d) \/ LoseLease(d)
      PROVE  work' \in [Devices -> Lanes(Labels)] /\ \A e \in Devices : LaneKept(e)
  <2>1. GoesOn(d) /\ work[d].pc # "idle"
    BY <1>1, LaneMoves
  <2>2. PICK v \in Lanes(Labels) :
          /\ work' = [work EXCEPT ![d] = v]
          /\ v.pc # "idle" => v.cmd = work[d].cmd /\ v.att = work[d].att /\ Fits(d, v.pc)
    BY <2>1, Zenon DEF GoesOn
  <2>3. work' \in [Devices -> Lanes(Labels)] /\ work'[d] = v
        /\ \A e \in Devices : e # d => work'[e] = work[e]
    BY <1>0, <2>2
  <2>4. LaneKept(d)
    BY <2>1, <2>2, <2>3 DEF LaneKept
  <2> QED
    BY <2>3, <2>4, SameLaneKept
<1>2. ASSUME UNCHANGED work
      PROVE  work' \in [Devices -> Lanes(Labels)] /\ \A e \in Devices : LaneKept(e)
  BY <1>0, <1>2, SameLaneKept
<1>3. ASSUME NEW d \in Devices, Claim(d)
      PROVE  work' \in [Devices -> Lanes(Labels)]
  <2> PICK c \in DOMAIN cmds :
        /\ Claimable(d, c)
        /\ work' = [work EXCEPT ![d] = [Idle EXCEPT !.pc = Entry(c), !.cmd = c,
                                          !.att = cmds[c].attempts + 1, !.ver = exec.ver]]
    BY <1>3, Zenon DEF Claim
  <2> QED
    BY <1>0, ClaimTakes
<1>4. ASSUME NEW d \in Devices, Crash(d) \/ Stop(d)
      PROVE  work' \in [Devices -> Lanes(Labels)] /\ \A e \in Devices : LaneKept(e)
  <2>1. work' = [work EXCEPT ![d] = Idle]
    BY <1>4 DEF Crash, Stop, Dies
  <2>2. Idle \in Lanes(Labels) /\ Idle.pc = "idle"
    BY DEF Idle, Lanes, Labels
  <2>3. work' \in [Devices -> Lanes(Labels)] /\ work'[d].pc = "idle"
        /\ \A e \in Devices : e # d => work'[e] = work[e]
    BY <1>0, <2>1, <2>2
  <2>4. LaneKept(d)
    BY <2>3 DEF LaneKept
  <2> QED
    BY <2>3, <2>4, SameLaneKept
<1>5. CASE UserStep \/ Lapse \/ Expires \/ \E c \in DOMAIN cmds : Replicated(c)
  <2>1. UNCHANGED work
    BY <1>5 DEF UserStep, Request, Ask, Lapse, CommandLapses, ExecutionLapses,
         RestorationLapses, Expires, TimeOnly, Replicated, lanes
  <2> QED
    BY <1>2, <2>1
<1>6. ASSUME NEW d \in Devices,
             Reconcile(d) \/ StopStep(d) \/ StopThrows(d) \/ RecoveryStep(d) \/ RenewFails(d) \/ Start(d)
      PROVE  UNCHANGED work
  BY <1>6 DEF Reconcile, StopStep, StopThrows, ClaimStop, ReadToStop, SetStop, CloseToStop,
       EndStop, StopOnly, RecoveryStep, List, Acquire, Recovered, RecoveryOnly, RenewFails, Start, lanes
<1> QED
  BY <1>1, <1>2, <1>3, <1>4, <1>5, <1>6, NextSplits DEF OtherStep

(* The control lane works on stops.                                          *)
LEMMA StoppersMove ==
  ASSUME IInv, Next
  PROVE  /\ stopper' \in [Devices -> Lanes(StopLabels)]
         /\ \A d \in Devices : stopper'[d].pc # "idle" =>
              stopper'[d].cmd \in DOMAIN cmds /\ cmds[stopper'[d].cmd].kind = "stop"
<1>0. /\ stopper \in [Devices -> Lanes(StopLabels)] /\ exec.ver \in Nat /\ exec.gen \in {0} \cup Gens
      /\ \A d \in Devices : stopper[d].pc # "idle" =>
           stopper[d].cmd \in DOMAIN cmds /\ cmds[stopper[d].cmd].kind = "stop"
  BY Types DEF ExecType, IInv, LanesHoldCommands
<1> DEFINE Goal == /\ stopper' \in [Devices -> Lanes(StopLabels)]
                   /\ \A d \in Devices : stopper'[d].pc # "idle" =>
                        stopper'[d].cmd \in DOMAIN cmds /\ cmds[stopper'[d].cmd].kind = "stop"
<1>1. CASE UNCHANGED stopper
  BY <1>0, <1>1
<1>2. ASSUME NEW d \in Devices, NEW w \in Lanes(StopLabels), stopper' = [stopper EXCEPT ![d] = w],
             w.pc # "idle" => w.cmd \in DOMAIN cmds /\ cmds[w.cmd].kind = "stop"
      PROVE  Goal
  BY <1>0, <1>2
<1> HIDE DEF Goal
<1>3. ASSUME NEW d \in Devices, stopper' = [stopper EXCEPT ![d] = Idle] PROVE Goal
  <2>1. Idle \in Lanes(StopLabels) /\ Idle.pc = "idle"
    BY DEF Idle, Lanes, StopLabels
  <2> QED
    BY <1>2, <1>3, <2>1
<1>4. ASSUME NEW d \in Devices, NEW label \in StopLabels, stopper[d].pc # "idle",
             stopper' = [stopper EXCEPT ![d].pc = label]
      PROVE  Goal
  <2> DEFINE w == [stopper[d] EXCEPT !.pc = label]
  <2>1. stopper[d] \in Lanes(StopLabels)
    BY <1>0
  <2>2. w \in Lanes(StopLabels) /\ w.cmd = stopper[d].cmd
    BY <2>1 DEF Lanes
  <2>3. stopper' = [stopper EXCEPT ![d] = w]
    BY <1>4
  <2> HIDE DEF w
  <2> QED
    BY <1>0, <1>2, <1>4, <2>2, <2>3
<1>5. ASSUME NEW d \in Devices, ClaimStop(d) PROVE Goal
  <2> PICK c \in DOMAIN cmds :
        /\ cmds[c].kind = "stop"
        /\ stopper' = [stopper EXCEPT ![d] = [Idle EXCEPT !.pc = "read", !.cmd = c,
                                                !.att = cmds[c].attempts + 1]]
    BY <1>5, Zenon DEF ClaimStop
  <2> DEFINE w == [Idle EXCEPT !.pc = "read", !.cmd = c, !.att = cmds[c].attempts + 1]
  <2>1. cmds[c] \in CommandType /\ c \in Nat
    BY Types, ElementOfSeq, LenProperties
  <2>2. cmds[c].attempts + 1 \in Nat
    BY <2>1 DEF CommandType
  <2>3. w \in Lanes(StopLabels) /\ w.cmd = c
    BY <2>1, <2>2 DEF Idle, Lanes, StopLabels
  <2>4. stopper' = [stopper EXCEPT ![d] = w]
    OBVIOUS
  <2> HIDE DEF w
  <2> QED
    BY <1>2, <2>3, <2>4
<1>6. ASSUME NEW d \in Devices, ReadToStop(d) PROVE Goal
  <2> PICK label \in StopLabels :
        stopper' = [stopper EXCEPT ![d] = [@ EXCEPT !.ver = exec.ver, !.gen = exec.gen, !.pc = label]]
    <3>1. ASSUME NEW label \in StopLabels,
                 stopper' = [stopper EXCEPT ![d] = [@ EXCEPT !.ver = exec.ver, !.gen = exec.gen, !.pc = label]]
          PROVE  \E l \in StopLabels :
                   stopper' = [stopper EXCEPT ![d] = [@ EXCEPT !.ver = exec.ver, !.gen = exec.gen, !.pc = l]]
      BY <3>1, Zenon
    <3> DEFINE label == CASE stopper[d].pc = "read" /\ exec.gen # StopGen(d) -> "fail"
                          [] stopper[d].pc = "read" /\ exec.gen = StopGen(d) ->
                               IF exec.state = "stopping" THEN "close" ELSE "stopping"
                          [] ~(stopper[d].pc = "read") ->
                               IF exec.state = "stopped" THEN "complete" ELSE "stopped"
    <3>2. label \in StopLabels
      BY DEF StopLabels
    <3>3. stopper' = [stopper EXCEPT ![d] = [@ EXCEPT !.ver = exec.ver, !.gen = exec.gen, !.pc = label]]
      BY <1>6, Zenon DEF ReadToStop
    <3> HIDE DEF label
    <3> QED
      BY <3>1, <3>2, <3>3
  <2> DEFINE w == [stopper[d] EXCEPT !.ver = exec.ver, !.gen = exec.gen, !.pc = label]
  <2>1. stopper[d] \in Lanes(StopLabels) /\ stopper[d].pc # "idle"
    BY <1>0, <1>6 DEF ReadToStop
  <2>2. w \in Lanes(StopLabels) /\ w.cmd = stopper[d].cmd
    BY <1>0, <2>1 DEF Lanes
  <2>3. stopper' = [stopper EXCEPT ![d] = w]
    BY <1>0
  <2> HIDE DEF w
  <2> QED
    BY <1>0, <1>2, <2>1, <2>2, <2>3
<1>7. ASSUME NEW d \in Devices, SetStop(d) \/ CloseToStop(d) \/ EndStop(d) \/ StopThrows(d)
      PROVE  Goal
  <2>1. CASE SetStop(d)
    <3>1. stopper[d].pc # "idle" /\ \E label \in StopLabels : stopper' = [stopper EXCEPT ![d].pc = label]
      BY <2>1 DEF SetStop, ToStop, StopLabels
    <3> QED
      BY <1>4, <3>1
  <2>2. CASE CloseToStop(d) \/ StopThrows(d)
    BY <1>4, <2>2 DEF CloseToStop, StopThrows, ToStop, StopLabels
  <2>3. CASE EndStop(d)
    BY <1>3, <2>3 DEF EndStop
  <2> QED
    BY <1>7, <2>1, <2>2, <2>3
<1>8. ASSUME NEW d \in Devices, Crash(d) \/ Stop(d) PROVE Goal
  BY <1>3, <1>8 DEF Crash, Stop, Dies
<1>9. CASE UserStep \/ Lapse \/ Expires \/ \E c \in DOMAIN cmds : Replicated(c)
  <2>1. UNCHANGED stopper
    BY <1>9 DEF UserStep, Request, Ask, Lapse, CommandLapses, ExecutionLapses,
         RestorationLapses, Expires, TimeOnly, Replicated, lanes
  <2> QED
    BY <1>1, <2>1
<1>10. ASSUME NEW d \in Devices,
              \/ LaneStep(d) \/ Block(d) \/ LoseLease(d) \/ Claim(d) \/ Reconcile(d)
              \/ RecoveryStep(d) \/ RenewFails(d) \/ Start(d)
       PROVE  UNCHANGED stopper
  BY <1>10, LaneMoves DEF Claim, Reconcile, RecoveryStep, List, Acquire, Recovered, RecoveryOnly,
       RenewFails, Start, lanes
<1>11. Goal
  BY <1>1, <1>5, <1>6, <1>7, <1>8, <1>9, <1>10, NextSplits DEF OtherStep, StopStep, Goal
<1> QED
  BY <1>11 DEF Goal

\* Sessions, recovery and transcripts name generations; prompts and stops are counted.
LEMMA SessionsMove ==
  ASSUME IInv, Next
  PROVE  /\ session' \in [Devices -> {0} \cup Gens]
         /\ recovery' \in [Devices -> [pc : {"done", "due", "acquire", "start"}, gen : {0} \cup Gens]]
         /\ copy' \in [Gens -> {"none", "written", "bound"}] /\ asks' \in 0..MaxAsks
<1> DEFINE RecoveryType == [pc : {"done", "due", "acquire", "start"}, gen : {0} \cup Gens]
<1>0. /\ session \in [Devices -> {0} \cup Gens] /\ copy \in [Gens -> {"none", "written", "bound"}]
      /\ asks \in 0..MaxAsks /\ MaxAsks \in Nat
      /\ recovery \in [Devices -> RecoveryType] /\ exec.gen \in Gens
  BY Types, HandoffAssumption DEF IInv, TypeOK, ExecType
<1>1. ASSUME NEW d \in Devices, work[d].pc # "idle" PROVE Mine(d).gen \in Gens
  BY <1>1, KindOfLane DEF CommandType
<1>2. session' \in [Devices -> {0} \cup Gens]
  <2>1. ASSUME NEW d \in Devices, LaneStep(d) \/ Block(d) \/ LoseLease(d)
        PROVE  session' \in [Devices -> {0} \cup Gens]
    <3>1. Mine(d).gen \in Gens
      BY <1>1, <2>1, LaneMoves
    <3>2. \/ UNCHANGED session \/ session' = [session EXCEPT ![d] = 0]
          \/ session' = [session EXCEPT ![d] = Mine(d).gen]
      BY <2>1 DEF LaneStep, Open, BindSource, EndTurn, Capture, Seal, Quiesce, ReadHandoff, Prepare,
           Attest, ReadTarget, Checkout, Verify, Commit, ReadLatest, Begin, Write, Bind, Land, Enlist, Complete,
           FailCommand, Close, Demote, Throw, LoseLease, Block, LaneOnly
    <3> QED
      BY <1>0, <3>1, <3>2
  <2>2. CASE UserStep \/ Lapse \/ Expires \/ \E c \in DOMAIN cmds : Replicated(c)
    <3>1. UNCHANGED session
      BY <2>2 DEF UserStep, Request, Ask, Lapse, CommandLapses, ExecutionLapses,
           RestorationLapses, Expires, TimeOnly, Replicated
    <3> QED
      BY <1>0, <3>1
  <2>3. ASSUME NEW d \in Devices,
               \/ Claim(d) \/ Reconcile(d) \/ StopStep(d) \/ StopThrows(d)
               \/ RenewFails(d) \/ Crash(d) \/ Stop(d) \/ Start(d) \/ List(d) \/ Acquire(d)
        PROVE  session' \in [Devices -> {0} \cup Gens]
    <3>1. UNCHANGED session \/ session' = [session EXCEPT ![d] = 0]
      BY <2>3 DEF Claim, Reconcile, StopStep, StopThrows, ClaimStop, ReadToStop, SetStop,
           CloseToStop, EndStop, List, Acquire, RenewFails, Crash, Stop, Dies, Start
    <3> QED
      BY <1>0, <3>1
  <2>4. ASSUME NEW d \in Devices, Recovered(d) PROVE session' \in [Devices -> {0} \cup Gens]
    <3>1. recovery[d].gen \in {0} \cup Gens
      BY <1>0
    <3> QED
      BY <1>0, <2>4, <3>1 DEF Recovered
  <2> QED
    BY <2>1, <2>2, <2>3, <2>4, NextSplits DEF OtherStep, RecoveryStep
<1>3. recovery' \in [Devices -> RecoveryType]
  <2>1. ASSUME UNCHANGED recovery PROVE recovery' \in [Devices -> RecoveryType]
    BY <1>0, <2>1
  <2>2. ASSUME NEW d \in Devices, NEW r \in RecoveryType, recovery' = [recovery EXCEPT ![d] = r]
        PROVE  recovery' \in [Devices -> RecoveryType]
    BY <1>0, <2>2
  <2>3. ASSUME NEW d \in Devices, NEW label \in {"done", "due", "acquire", "start"},
               recovery' = [recovery EXCEPT ![d].pc = label]
        PROVE  recovery' \in [Devices -> RecoveryType]
    BY <1>0, <2>3
  <2>4. ASSUME NEW d \in Devices, RecoveryStep(d) PROVE recovery' \in [Devices -> RecoveryType]
    <3>1. CASE List(d)
      <4>1. \E r \in RecoveryType : recovery' = [recovery EXCEPT ![d] = r]
        <5>1. [pc |-> "acquire", gen |-> exec.gen] \in RecoveryType
              /\ [pc |-> "done", gen |-> 0] \in RecoveryType
          BY <1>0
        <5> HIDE DEF RecoveryType
        <5> QED
          BY <3>1, <5>1 DEF List
      <4> HIDE DEF RecoveryType
      <4> QED
        BY <2>2, <4>1
    <3>2. CASE Acquire(d) \/ Recovered(d)
      <4>1. \E label \in {"done", "due", "acquire", "start"} :
              recovery' = [recovery EXCEPT ![d].pc = label]
        BY <3>2 DEF Acquire, Recovered, Recover
      <4> QED
        BY <2>3, <4>1
    <3> QED
      BY <2>4, <3>1, <3>2 DEF RecoveryStep
  <2>5. ASSUME NEW d \in Devices, Crash(d) \/ Stop(d) PROVE recovery' \in [Devices -> RecoveryType]
    <3>1. [pc |-> "done", gen |-> 0] \in RecoveryType
      OBVIOUS
    <3>2. recovery' = [recovery EXCEPT ![d] = [pc |-> "done", gen |-> 0]]
      BY <2>5 DEF Crash, Stop, Dies
    <3> QED
      BY <2>2, <3>1, <3>2
  <2>6. ASSUME NEW d \in Devices, Start(d) PROVE recovery' \in [Devices -> RecoveryType]
    BY <2>3, <2>6 DEF Start
  <2>7. ASSUME NEW d \in Devices,
               \/ LaneStep(d) \/ Block(d) \/ LoseLease(d)
        PROVE  UNCHANGED recovery
    BY <2>7 DEF LaneStep, Open, BindSource, EndTurn, Capture, Seal, Quiesce, ReadHandoff, Prepare,
         Attest, ReadTarget, Checkout, Verify, Commit, ReadLatest, Begin, Write, Bind, Land, Enlist, Complete,
         FailCommand, Close, Demote, Throw, LoseLease, Block, LaneOnly
  <2>8. ASSUME NEW d \in Devices,
               Claim(d) \/ Reconcile(d) \/ StopStep(d) \/ StopThrows(d) \/ RenewFails(d)
        PROVE  UNCHANGED recovery
    BY <2>8 DEF Claim, Reconcile, StopStep, StopThrows, ClaimStop, ReadToStop, SetStop, CloseToStop,
         EndStop, StopOnly, RenewFails, lanes
  <2>9. CASE UserStep \/ Lapse \/ Expires \/ \E c \in DOMAIN cmds : Replicated(c)
    <3>1. UNCHANGED recovery
      BY <2>9 DEF UserStep, Request, Ask, Lapse, CommandLapses, ExecutionLapses,
           RestorationLapses, Expires, TimeOnly, Replicated, lanes
    <3> QED
      BY <2>1, <3>1
  <2> HIDE DEF RecoveryType
  <2> QED
    BY <2>1, <2>4, <2>5, <2>6, <2>7, <2>8, <2>9, NextSplits DEF OtherStep
<1>4. copy' \in [Gens -> {"none", "written", "bound"}] /\ asks' \in 0..MaxAsks
  <2>1. CASE UNCHANGED <<copy, asks>>
    BY <1>0, <2>1
  <2>2. ASSUME NEW d \in Devices, Write(d) \/ Bind(d)
        PROVE  copy' \in [Gens -> {"none", "written", "bound"}] /\ asks' \in 0..MaxAsks
    <3>1. Mine(d).gen \in Gens
      BY <1>1, <2>2 DEF Write, Bind
    <3>2. \/ UNCHANGED copy
          \/ \E t \in {"written", "bound"} : copy' = [copy EXCEPT ![Mine(d).gen] = t]
      BY <1>0, <2>2, <3>1 DEF Write, Bind
    <3>3. UNCHANGED asks
      BY <2>2 DEF Write, Bind
    <3> QED
      BY <1>0, <3>1, <3>2, <3>3
  <2>3. ASSUME NEW d \in Devices, LaneStep(d) \/ Block(d) \/ LoseLease(d), ~Write(d), ~Bind(d)
        PROVE  UNCHANGED <<copy, asks>>
    BY <2>3 DEF LaneStep, Open, BindSource, EndTurn, Capture, Seal, Quiesce, ReadHandoff, Prepare,
         Attest, ReadTarget, Checkout, Verify, Commit, ReadLatest, Begin, Land, Enlist, Complete,
         FailCommand, Close, Demote, Throw, LoseLease, Block, LaneOnly
  <2>4. ASSUME NEW d \in Devices,
               \/ Claim(d) \/ Reconcile(d) \/ StopStep(d) \/ StopThrows(d) \/ RecoveryStep(d)
               \/ RenewFails(d) \/ Crash(d) \/ Stop(d) \/ Start(d)
        PROVE  UNCHANGED <<copy, asks>>
    BY <2>4 DEF Claim, Reconcile, StopStep, StopThrows, ClaimStop, ReadToStop, SetStop, CloseToStop,
         EndStop, StopOnly, RecoveryStep, List, Acquire, Recovered, RecoveryOnly, RenewFails,
         Crash, Stop, Dies, Start
  <2>5. CASE UserStep \/ Lapse \/ Expires \/ \E c \in DOMAIN cmds : Replicated(c)
    <3>1. ASSUME NEW kind, Ask(kind) PROVE UNCHANGED copy /\ asks < MaxAsks /\ asks' = asks + 1
      BY <3>1 DEF Ask
    <3>2. ASSUME ~Ask("prompt"), ~Ask("stop") PROVE UNCHANGED <<copy, asks>>
      BY <2>5, <3>2 DEF UserStep, Request, Lapse, CommandLapses, ExecutionLapses,
           RestorationLapses, Expires, TimeOnly, Replicated
    <3> QED
      BY <1>0, <2>1, <3>1, <3>2
  <2> QED
    BY <2>1, <2>2, <2>3, <2>4, <2>5, NextSplits DEF OtherStep
<1> QED
  BY <1>2, <1>3, <1>4

-----------------------------------------------------------------------------
(* The rows: what a step that requests, asks, seals and transfers nothing    *)
(* leaves of them.                                                           *)

(* The execution stays with its device and generation; its state follows     *)
(* one of the ways the code has.                                             *)
ExecKept ==
  /\ exec' \in ExecType /\ exec'.gen = exec.gen /\ exec'.device = exec.device /\ UNCHANGED log
  /\ exec'.runner # None => exec'.runner = exec.runner \/ exec'.runner[1] = exec.device
  /\ \/ exec'.state \in {exec.state, "quiesced", "stopping", "stopped"}
     \/ exec'.state = "running" /\ Stage = "restoring" /\ Stage' = "running"
     \/ /\ exec'.state \in {"failed", "reconciling"}
        /\ \E d \in Devices :
             /\ work[d].pc = "set" /\ Mine(d).gen = exec.gen
             /\ exec'.state = "reconciling" => Mine(d).kind = "prompt"

(* The last handoff goes its way step by step.                               *)
HandoffMoves(h) ==
  \/ h.state = Last.state
  \/ /\ Last.state = "quiesce_requested" /\ h.state = "source_sealed"
     /\ exec.state = "quiesced" /\ UNCHANGED exec
     /\ \E d \in Devices : work[d].pc = "prepare" /\ exec.runner = Me(d)
  \/ Last.state = "workspace_prepared" /\ h.state = "target_verified"
  \/ Last.state = "lease_transferred" /\ h.state = "restoring"
  \/ Last.state = "restoring" /\ h.state = "running"

HandoffsKept ==
  \/ UNCHANGED handoffs
  \/ /\ handoffs # <<>>
     /\ \E h \in HandoffType :
          /\ SetLast(h) /\ HandoffMoves(h)
          /\ h.source = Last.source /\ h.target = Last.target /\ h.gen = Last.gen

(* A command keeps what it asks for; settled it stays settled; a prompt in   *)
(* flight is settled by the lane that holds it, or by the owner when its     *)
(* lane is idle.  It is given to the provider where a lane opens it, and     *)
(* queued again for its checkpoint.                                          *)
CommandMoves(c, r) ==
  LET q == cmds[c] IN
  /\ r.kind = q.kind /\ r.gen = q.gen /\ r.device = q.device /\ r.attempts >= q.attempts
  /\ q.state \in Settled => r.state \in Settled
  /\ q.kind \in {"prompt", "stop"} => r.state # "blocked"
  /\ q.pending => r.pending
  /\ q.kind = "prompt" /\ r.state = "queued" => r.pending \/ q.state = "queued"
  /\ \/ r.turns = q.turns
     \/ /\ r.turns = q.turns + 1 /\ q.kind = "prompt" /\ r.state = q.state
        /\ \E d \in Devices : Open(d) /\ work[d].cmd = c
  /\ q.kind = "prompt" /\ q.state = "dispatching" =>
       \/ r.state = "dispatching" /\ r.attempts = q.attempts
       \/ \E d \in Devices : /\ work[d].pc \in {"complete", "fail"}
                             /\ work[d].cmd = c /\ work[d].att = q.attempts
       \/ work[exec.device].pc = "idle"

CommandsKept ==
  /\ cmds' \in Seq(CommandType) /\ DOMAIN cmds' = DOMAIN cmds
  /\ \A c \in DOMAIN cmds : CommandMoves(c, cmds'[c])

RowsKept == ExecKept /\ HandoffsKept /\ CommandsKept

-----------------------------------------------------------------------------
\* A command that stands still moves as commands do.
LEMMA SameCommand ==
  ASSUME IInv, NEW c \in DOMAIN cmds
  PROVE  cmds[c] \in CommandType /\ CommandMoves(c, cmds[c])
<1>1. cmds[c] \in CommandType
  BY Types, ElementOfSeq, LenProperties
<1>2. cmds[c].attempts >= cmds[c].attempts
  BY <1>1 DEF CommandType
<1>3. cmds[c].kind \in {"prompt", "stop"} => cmds[c].state # "blocked"
  BY DEF IInv, CommandsFit
<1> QED
  BY <1>1, <1>2, <1>3 DEF CommandMoves, CommandType

\* Commands that stand still move as commands do.
LEMMA SameCommands ==
  ASSUME IInv, UNCHANGED cmds
  PROVE  CommandsKept
BY Types, SameCommand DEF CommandsKept

(* One command moves.                                                        *)
LEMMA OneCommand ==
  ASSUME IInv, NEW c \in DOMAIN cmds, NEW r \in CommandType, CommandMoves(c, r),
         cmds' = [cmds EXCEPT ![c] = r]
  PROVE  CommandsKept
<1>1. cmds \in Seq(CommandType)
  BY Types
<1>2. /\ cmds' \in Seq(CommandType) /\ DOMAIN cmds' = DOMAIN cmds
      /\ cmds'[c] = r /\ \A p \in DOMAIN cmds : p # c => cmds'[p] = cmds[p]
  BY <1>1, CommandChanged
<1>3. ASSUME NEW p \in DOMAIN cmds PROVE CommandMoves(p, cmds'[p])
  BY <1>2, SameCommand
<1> QED
  BY <1>2, <1>3 DEF CommandsKept

(* A lane settles, or gives back, the command it holds.                      *)
LEMMA FinishKeeps ==
  ASSUME IInv, NEW w, NEW state \in {"completed", "failed", "queued", "indeterminate"},
         w.cmd \in DOMAIN cmds, Finish(w, state),
         \/ cmds[w.cmd].kind = "stop"
         \/ \E d \in Devices : w = work[d] /\ work[d].pc \in {"complete", "fail"}
  PROVE  CommandsKept
<1> DEFINE c == w.cmd
           r == [cmds[c] EXCEPT !.state = state, !.live = FALSE, !.pending = Left(c, state)]
<1>1. CASE UNCHANGED cmds
  BY <1>1, SameCommands
<1>2. CASE Holds(w) /\ cmds' = [cmds EXCEPT ![w.cmd] = [@ EXCEPT !.state = state, !.live = FALSE,
                                           !.pending = Left(w.cmd, state)]]
  <2>1. cmds[c] \in CommandType
    BY SameCommand
  <2>5. Left(c, state) \in BOOLEAN
    BY DEF Left
  <2>2. /\ r \in CommandType /\ r.kind = cmds[c].kind /\ r.gen = cmds[c].gen
        /\ r.device = cmds[c].device /\ r.attempts = cmds[c].attempts /\ r.state = state
        /\ r.turns = cmds[c].turns /\ r.pending = Left(c, state)
    BY <2>1, <2>5 DEF CommandType
  <2>6. cmds[c].state = "dispatching" /\ cmds[c].attempts = w.att
    BY <1>2 DEF Holds
  <2>7. r.attempts >= cmds[c].attempts
    BY <2>1, <2>2 DEF CommandType
  <2>3. CommandMoves(c, r)
    <3> HIDE DEF r
    <3> QED
      BY <2>2, <2>6, <2>7 DEF CommandMoves, Settled, Left
  <2>4. cmds' = [cmds EXCEPT ![c] = r]
    BY <1>2
  <2> HIDE DEF c, r
  <2> QED
    BY <2>2, <2>3, <2>4, OneCommand DEF c
<1> QED
  BY <1>1, <1>2 DEF Finish

\* The state is set, and nothing else of what the execution is.
LEMMA StateSet ==
  ASSUME IInv, NEW state \in {"quiesced", "reconciling", "failed", "stopping", "stopped"},
         SetState(state)
  PROVE  /\ exec' \in ExecType /\ exec'.gen = exec.gen /\ exec'.device = exec.device
         /\ exec'.state = state /\ exec'.runner \in {None, exec.runner}
<1>1. exec \in ExecType /\ state \in States /\ exec.ver + 1 \in Nat
  BY Types DEF States, ExecType
<1>2. CASE exec' = [exec EXCEPT !.state = state, !.ver = exec.ver + 1]
  BY <1>1, <1>2 DEF ExecType
<1>3. CASE exec' = [exec EXCEPT !.state = state, !.ver = exec.ver + 1, !.runner = None, !.live = FALSE]
  BY <1>1, <1>3 DEF ExecType
<1> QED
  BY <1>2, <1>3 DEF SetState

(* Leaving the state alone keeps the execution.                              *)
LEMMA LeaseSet ==
  ASSUME IInv, UNCHANGED log, NEW r \in Runners \cup {None}, NEW live \in BOOLEAN,
         exec' = [exec EXCEPT !.runner = r, !.live = live],
         r \in {None, exec.runner} \/ r[1] = exec.device
  PROVE  ExecKept
<1>1. exec \in ExecType
  BY Types
<1>2. exec' \in ExecType /\ exec'.gen = exec.gen /\ exec'.device = exec.device
      /\ exec'.state = exec.state /\ exec'.runner = r
  BY <1>1 DEF ExecType
<1> QED
  BY <1>2 DEF ExecKept

\* An execution that stands still is kept.
LEMMA SameExec ==
  ASSUME IInv, UNCHANGED <<exec, log>>
  PROVE  ExecKept
BY Types DEF ExecKept

\* A process is one of the runners.
LEMMA MeIsRunner ==
  ASSUME IInv, NEW d \in Devices
  PROVE  Me(d) \in Runners /\ Me(d)[1] = d /\ Me(d) # None
<1>1. life[d] \in 1..(MaxFaults + 1)
  BY Types
<1> QED
  BY <1>1, HandoffAssumption DEF Me, Runners

\* The last handoff moves.
LEMMA OneHandoff ==
  ASSUME handoffs # <<>>, NEW h \in HandoffType, SetLast(h), HandoffMoves(h),
         h.source = Last.source, h.target = Last.target, h.gen = Last.gen
  PROVE  HandoffsKept
BY Zenon DEF HandoffsKept

(* The steps that insert a command are told apart.                           *)
Requested == \E t \in Devices : Request(t)
Asked == \E kind \in {"prompt", "stop"} : Ask(kind)
Attested == \E d \in Devices : Attest(d) /\ Last.state = "source_sealed" /\ Last.ver = work[d].hver
Handed == \E d \in Devices : Commit(d) /\ MayCommit(work[d].hver)

\* What a lane makes of a command it leases: one delivery more, and nothing else.
LEMMA LeasedCommand ==
  ASSUME NEW q \in CommandType
  PROVE  LET r == [q EXCEPT !.state = "dispatching", !.attempts = q.attempts + 1, !.live = TRUE]
         IN /\ r \in CommandType /\ r.state = "dispatching" /\ r.attempts = q.attempts + 1
            /\ r.kind = q.kind /\ r.gen = q.gen /\ r.device = q.device
            /\ r.turns = q.turns /\ r.pending = q.pending
<1>1. q.attempts + 1 \in Nat
  BY DEF CommandType
<1> QED
  BY <1>1 DEF CommandType

\* A claim leases a command, and with it the execution to its owner.
LEMMA ClaimKeeps ==
  ASSUME IInv, NEW d \in Devices, Claim(d)
  PROVE  /\ RowsKept /\ UNCHANGED handoffs /\ exec'.state = exec.state
         /\ \E c \in DOMAIN cmds :
              /\ Claimable(d, c) /\ cmds'[c].state = "dispatching"
              /\ cmds'[c].attempts = cmds[c].attempts + 1
              /\ work' = [work EXCEPT ![d] = [Idle EXCEPT !.pc = Entry(c), !.cmd = c,
                            !.att = cmds[c].attempts + 1, !.ver = exec.ver]]
<1> PICK c \in DOMAIN cmds :
      /\ Claimable(d, c)
      /\ cmds' = [cmds EXCEPT ![c] = [cmds[c] EXCEPT !.state = "dispatching", !.attempts = @ + 1, !.live = TRUE]]
      /\ exec' = IF cmds[c].kind = "verify_target" THEN exec
                 ELSE [exec EXCEPT !.runner = Me(d), !.live = TRUE]
      /\ work' = [work EXCEPT ![d] = [Idle EXCEPT !.pc = Entry(c), !.cmd = c,
                                        !.att = cmds[c].attempts + 1, !.ver = exec.ver]]
  BY Zenon DEF Claim
<1> DEFINE r == [cmds[c] EXCEPT !.state = "dispatching", !.attempts = cmds[c].attempts + 1,
                                !.live = TRUE]
<1>1. cmds[c] \in CommandType
  BY SameCommand
<1>2. r \in CommandType /\ r.state = "dispatching" /\ r.attempts = cmds[c].attempts + 1
  BY <1>1, LeasedCommand
<1>3. CommandMoves(c, r)
  BY <1>1 DEF CommandMoves, CommandType, Claimable, Settled
<1>4. cmds' = [cmds EXCEPT ![c] = r]
  BY Zenon
<1>5. CommandsKept
  <2> HIDE DEF r
  <2> QED
    BY <1>2, <1>3, <1>4, OneCommand
<1>6. UNCHANGED <<log, handoffs>>
  BY DEF Claim
<1>7. ExecKept /\ exec'.state = exec.state
  <2>1. CASE cmds[c].kind = "verify_target"
    BY <1>6, <2>1, SameExec
  <2>2. CASE cmds[c].kind # "verify_target"
    <3>1. exec.device = d
      BY <1>1, <2>2 DEF Claimable, CommandType, IInv, CommandsFit
    <3>2. exec' = [exec EXCEPT !.runner = Me(d), !.live = TRUE]
      BY <2>2
    <3>3. Me(d) \in Runners \cup {None} /\ Me(d)[1] = exec.device
      BY <3>1, MeIsRunner
    <3>4. ExecKept
      BY <1>6, <3>2, <3>3, LeaseSet
    <3>5. exec \in ExecType
      BY Types
    <3> QED
      BY <3>2, <3>4, <3>5 DEF ExecType
  <2> QED
    BY <2>1, <2>2
<1>8. cmds'[c] = r
  <2> HIDE DEF r
  <2> QED
    BY <1>2, <1>4, Types, CommandChanged
<1> QED
  BY <1>2, <1>5, <1>6, <1>7, <1>8 DEF RowsKept, HandoffsKept

(* What a failed command becomes.                                            *)
LEMMA FailureStates ==
  ASSUME NEW d \in Devices, NEW r \in Failures(d)
  PROVE  r[1] \in {"completed", "failed", "queued", "indeterminate"}
<1> DEFINE first == IF Terminal(d) THEN "failed" ELSE "queued"
           second == Terminal(d) /\ Mine(d).kind # "verify_target"
<1>1. \/ r = <<first, second>>
      \/ r \in {<<"indeterminate", TRUE>>, <<"completed", FALSE>>, <<"completed", TRUE>>,
                <<"queued", FALSE>>, <<"failed", FALSE>>}
  <2>1. CASE OnePrompt(d)
    BY <2>1 DEF Failures
  <2>2. CASE ~OnePrompt(d)
    BY <2>2, Zenon DEF Failures
  <2> QED
    BY <2>1, <2>2
<1>2. first \in {"failed", "queued"}
  OBVIOUS
<1> HIDE DEF first, second
<1>3. CASE r = <<first, second>>
  BY <1>2, <1>3
<1>4. ASSUME NEW x \in {"indeterminate", "completed", "queued", "failed"},
             NEW y \in BOOLEAN, r = <<x, y>>
      PROVE  r[1] \in {"completed", "failed", "queued", "indeterminate"}
  BY <1>4
<1> QED
  BY <1>1, <1>3, <1>4

\* The steps of the command lane that keep the rows.
LEMMA LaneKeepsRows ==
  ASSUME IInv, NEW d \in Devices, LaneStep(d) \/ Block(d) \/ LoseLease(d)
  PROVE  Attested \/ Handed \/ RowsKept
<1>0. /\ exec \in ExecType /\ handoffs \in Seq(HandoffType) /\ cmds \in Seq(CommandType)
      /\ work[d].pc # "idle" /\ work[d].cmd \in DOMAIN cmds
  BY Types, LaneMoves, KindOfLane
<1>1. ASSUME UNCHANGED rows PROVE RowsKept
  BY <1>1, SameExec, SameCommands DEF rows, RowsKept, HandoffsKept
<1>2. ASSUME handoffs # <<>>, UNCHANGED <<exec, log, cmds>>, NEW h \in HandoffType,
             SetLast(h), HandoffMoves(h),
             h.source = Last.source, h.target = Last.target, h.gen = Last.gen
      PROVE  RowsKept
  BY <1>2, OneHandoff, SameExec, SameCommands DEF RowsKept
<1>3. CASE Quiesce(d)
  <2>1. UNCHANGED <<log, handoffs, cmds>>
    BY <1>3 DEF Quiesce
  <2>2. CASE SetState("quiesced")
    BY <2>1, <2>2, StateSet, SameCommands DEF ExecKept, RowsKept, HandoffsKept
  <2>3. CASE UNCHANGED exec
    BY <1>1, <2>1, <2>3 DEF rows
  <2> QED
    BY <1>3, <2>2, <2>3 DEF Quiesce
<1>4. CASE Prepare(d)
  <2>1. UNCHANGED <<exec, log, cmds>> /\ handoffs # <<>> /\ work[d].pc = "prepare"
    BY <1>4 DEF Prepare, IInv, LanesHoldCommands
  <2>2. CASE UNCHANGED handoffs
    BY <1>1, <2>1, <2>2 DEF rows
  <2>3. CASE /\ Last.state = "quiesce_requested" /\ exec.state = "quiesced"
             /\ exec.gen = Last.gen /\ exec.runner = Me(d)
             /\ SetLast([Last EXCEPT !.state = "source_sealed", !.ver = @ + 2, !.seq = log.head + 1])
    <3> DEFINE h == [Last EXCEPT !.state = "source_sealed", !.ver = Last.ver + 2,
                                 !.seq = log.head + 1]
    <3>1. Last \in HandoffType /\ Last.gen = Len(handoffs)
      BY <2>1, LastHandoff
    <3>2. log.head + 1 \in 0..MaxHandoffs /\ Last.ver + 2 \in Nat
      <4>1. log.head + 1 \in 0..MaxHandoffs
        BY <2>3, <3>1, Types, HandoffAssumption DEF IInv, OwnershipFollowsLog, HandoffsFollow
      <4>2. Last.ver + 2 \in Nat
        BY <3>1 DEF HandoffType
      <4> QED
        BY <4>1, <4>2
    <3>3. h \in HandoffType /\ h.source = Last.source /\ h.target = Last.target
          /\ h.gen = Last.gen /\ h.state = "source_sealed"
      BY <3>1, <3>2 DEF HandoffType, Before
    <3>4. SetLast(h)
      BY <2>3
    <3> HIDE DEF h
    <3>5. HandoffMoves(h)
      BY <2>1, <2>3, <3>3 DEF HandoffMoves
    <3> QED
      BY <1>2, <2>1, <3>3, <3>4, <3>5
  <2> QED
    BY <1>4, <2>2, <2>3 DEF Prepare
<1>5. CASE Attest(d)
  <2>1. CASE Last.state = "source_sealed" /\ Last.ver = work[d].hver
    BY <1>5, <2>1 DEF Attested
  <2>2. CASE ~(Last.state = "source_sealed" /\ Last.ver = work[d].hver)
    BY <1>1, <1>5, <2>2 DEF Attest, rows
  <2> QED
    BY <2>1, <2>2
<1>6. CASE Verify(d)
  <2>1. UNCHANGED <<exec, log, cmds>> /\ handoffs # <<>>
    BY <1>6 DEF Verify, IInv, LanesHoldCommands
  <2>2. CASE UNCHANGED handoffs
    BY <1>1, <2>1, <2>2 DEF rows
  <2>3. CASE /\ Last.state \in {"workspace_prepared", "target_verified"}
             /\ SetLast([Last EXCEPT !.state = "target_verified", !.ver = @ + 1, !.ready = "fresh"])
    <3> DEFINE h == [Last EXCEPT !.state = "target_verified", !.ver = Last.ver + 1,
                                 !.ready = "fresh"]
    <3>1. Last \in HandoffType
      BY <2>1, LastHandoff
    <3>11. Last.ver + 1 \in Nat
      BY <3>1 DEF HandoffType
    <3>2. h \in HandoffType /\ h.source = Last.source /\ h.target = Last.target
          /\ h.gen = Last.gen /\ h.state = "target_verified"
      BY <3>1, <3>11 DEF HandoffType, Before
    <3>3. SetLast(h)
      BY <2>3
    <3> HIDE DEF h
    <3>4. HandoffMoves(h)
      BY <2>3, <3>2 DEF HandoffMoves
    <3> QED
      BY <1>2, <2>1, <3>2, <3>3, <3>4
  <2> QED
    BY <1>6, <2>2, <2>3 DEF Verify
<1>7. CASE Commit(d)
  <2>1. CASE MayCommit(work[d].hver)
    BY <1>7, <2>1 DEF Handed
  <2>2. CASE ~MayCommit(work[d].hver)
    BY <1>1, <1>7, <2>2 DEF Commit, rows
  <2> QED
    BY <2>1, <2>2
<1>8. CASE Begin(d)
  <2>1. UNCHANGED <<exec, log, cmds>> /\ handoffs # <<>>
    BY <1>8 DEF Begin, IInv, LanesHoldCommands
  <2>2. CASE UNCHANGED handoffs
    BY <1>1, <2>1, <2>2 DEF rows
  <2>3. ASSUME NEW ver \in {Last.ver, Last.ver + 1},
               Last.state \in {"lease_transferred", "restoring"},
               SetLast([Last EXCEPT !.state = "restoring", !.ver = ver,
                                    !.owner = Me(d), !.live = TRUE])
        PROVE  RowsKept
    <3> DEFINE h == [Last EXCEPT !.state = "restoring", !.ver = ver, !.owner = Me(d), !.live = TRUE]
    <3>1. Last \in HandoffType /\ Me(d) \in Runners
      BY <2>1, LastHandoff, MeIsRunner
    <3>2. ver \in Nat
      BY <3>1 DEF HandoffType
    <3>3. h \in HandoffType /\ h.source = Last.source /\ h.target = Last.target
          /\ h.gen = Last.gen /\ h.state = "restoring"
      BY <3>1, <3>2 DEF HandoffType
    <3>4. SetLast(h)
      BY <2>3
    <3> HIDE DEF h
    <3>5. HandoffMoves(h)
      BY <2>3, <3>3 DEF HandoffMoves
    <3> QED
      BY <1>2, <2>1, <3>3, <3>4, <3>5
  <2> QED
    BY <1>8, <2>2, <2>3 DEF Begin
<1>9. CASE Land(d)
  <2>1. UNCHANGED <<log, cmds>> /\ handoffs # <<>>
    BY <1>9 DEF Land, IInv, LanesHoldCommands
  <2>2. CASE UNCHANGED <<exec, handoffs>>
    BY <1>1, <2>1, <2>2 DEF rows
  <2>3. CASE /\ Last.state = "restoring" /\ Last.target = d /\ exec.gen = Last.gen + 1
             /\ exec' = [exec EXCEPT !.state = "running", !.ver = @ + 1,
                                     !.runner = Me(d), !.live = TRUE]
             /\ SetLast([Last EXCEPT !.state = "running", !.ver = @ + 2,
                                     !.owner = None, !.live = FALSE])
    <3> DEFINE h == [Last EXCEPT !.state = "running", !.ver = Last.ver + 2,
                                 !.owner = None, !.live = FALSE]
    <3>1. Last \in HandoffType /\ Last.gen = Len(handoffs) /\ Len(handoffs) \in Nat \ {0}
          /\ Stage = Last.state
      BY <2>1, LastHandoff
    <3>11. Last.ver + 2 \in Nat /\ None \in Runners \cup {None}
      BY <3>1 DEF HandoffType
    <3>2. h \in HandoffType /\ h.source = Last.source /\ h.target = Last.target
          /\ h.gen = Last.gen /\ h.state = "running"
      BY <3>1, <3>11 DEF HandoffType
    <3>3. SetLast(h)
      BY <2>3
    <3> HIDE DEF h
    <3>4. HandoffMoves(h)
      BY <2>3, <3>2 DEF HandoffMoves
    <3>5. HandoffsKept
      BY <2>1, <3>2, <3>3, <3>4, OneHandoff
    <3>6. exec.device = d
      <4>1. exec.gen = Len(handoffs) + 1 /\ exec.gen # 1 /\ exec.gen - 1 = Len(handoffs)
        BY <2>3, <3>1
      <4>2. exec.device = Owner(exec.gen)
        BY DEF IInv, OwnershipFollowsLog
      <4>3. Owner(exec.gen) = handoffs[Len(handoffs)].target
        BY <4>1 DEF Owner
      <4> QED
        BY <2>3, <4>2, <4>3 DEF Last
    <3>7. exec' \in ExecType /\ exec'.gen = exec.gen /\ exec'.device = exec.device
          /\ exec'.state = "running" /\ exec'.runner = Me(d)
      <4>1. exec.ver + 1 \in Nat /\ "running" \in States /\ Me(d) \in Runners \cup {None}
        BY <1>0, MeIsRunner DEF ExecType, States
      <4> QED
        BY <1>0, <2>3, <4>1 DEF ExecType
    <3>8. Stage' = "running"
      <4>1. Len(handoffs') = Len(handoffs) /\ handoffs'[Len(handoffs)] = h
        BY <1>0, <2>1, <3>2, <3>3, LastChanged
      <4>2. handoffs' # <<>>
        BY <3>1, <4>1, EmptySeq
      <4> QED
        BY <3>2, <4>1, <4>2 DEF Stage, Last
    <3>9. ExecKept
      BY <2>1, <2>3, <3>1, <3>6, <3>7, <3>8, MeIsRunner DEF ExecKept
    <3> QED
      BY <2>1, <3>5, <3>9, SameCommands DEF RowsKept
  <2> QED
    BY <1>9, <2>2, <2>3 DEF Land
<1>10. ASSUME UNCHANGED <<exec, log, handoffs>>, CommandsKept PROVE RowsKept
  BY <1>10, SameExec DEF RowsKept, HandoffsKept
<1>11. CASE Complete(d)
  <2>1. work[d].pc = "complete" /\ Finish(work[d], "completed") /\ UNCHANGED <<exec, log, handoffs>>
    BY <1>11 DEF Complete
  <2>2. CommandsKept
    BY <1>0, <2>1, FinishKeeps
  <2> QED
    BY <1>10, <2>1, <2>2
<1>12. CASE FailCommand(d)
  <2>1. work[d].pc = "fail" /\ UNCHANGED <<exec, log, handoffs>>
    BY <1>12 DEF FailCommand
  <2>3. CommandsKept
    <3>1. (\E r \in Failures(d) : Finish(work[d], r[1])) \/ UNCHANGED cmds
      BY <1>12, Zenon DEF FailCommand
    <3> QED
      BY <1>0, <2>1, <3>1, FailureStates, FinishKeeps, SameCommands
  <2> QED
    BY <1>10, <2>1, <2>3
<1>13. CASE Block(d)
  <2> DEFINE c == work[d].cmd
             r == [cmds[c] EXCEPT !.state = "blocked", !.live = FALSE]
  <2>1. work[d].pc \in {"prepare", "checkout"} /\ cmds[c].state = "dispatching"
        /\ UNCHANGED <<exec, log, handoffs>>
        /\ cmds' = [cmds EXCEPT ![c] = [cmds[c] EXCEPT !.state = "blocked", !.live = FALSE]]
    BY <1>13 DEF Block, Mine
  <2>2. cmds[c] \in CommandType /\ cmds[c].kind \notin {"prompt", "stop"}
    BY <1>0, <2>1, KindOfLane DEF Mine
  <2> HIDE DEF c
  <2>3. r \in CommandType /\ CommandMoves(c, r)
    <3>1. r \in CommandType /\ r.kind = cmds[c].kind /\ r.gen = cmds[c].gen
          /\ r.device = cmds[c].device /\ r.attempts = cmds[c].attempts
          /\ r.turns = cmds[c].turns /\ r.pending = cmds[c].pending
      BY <2>2 DEF CommandType
    <3>2. r.attempts >= cmds[c].attempts
      BY <2>2, <3>1 DEF CommandType
    <3>3. cmds[c].state \notin Settled
      BY <2>1 DEF Settled
    <3> HIDE DEF r
    <3> QED
      BY <2>2, <3>1, <3>2, <3>3 DEF CommandMoves
  <2>4. cmds' = [cmds EXCEPT ![c] = r]
    BY <2>1
  <2> HIDE DEF r
  <2>5. CommandsKept
    <3>1. c \in DOMAIN cmds
      BY <1>0 DEF c
    <3> QED
      BY <2>3, <2>4, <3>1, OneCommand
  <2> QED
    BY <1>10, <2>1, <2>5
<1>14. CASE Demote(d)
  <2>1. UNCHANGED <<log, handoffs, cmds>> /\ work[d].pc = "set"
    BY <1>14 DEF Demote
  <2>2. CASE UNCHANGED exec
    BY <1>1, <2>1, <2>2 DEF rows
  <2>3. CASE exec.gen = Mine(d).gen /\ SetState(IF OnePrompt(d) THEN "reconciling" ELSE "failed")
    <3> DEFINE state == IF OnePrompt(d) THEN "reconciling" ELSE "failed"
    <3>1. exec' \in ExecType /\ exec'.gen = exec.gen /\ exec'.device = exec.device
          /\ exec'.state = state /\ exec'.runner \in {None, exec.runner}
      BY <2>3, StateSet
    <3>2. state = "reconciling" => Mine(d).kind = "prompt"
      BY DEF OnePrompt
    <3>3. ExecKept
      BY <2>1, <2>3, <3>1, <3>2 DEF ExecKept
    <3> QED
      BY <2>1, <3>3, SameCommands DEF RowsKept, HandoffsKept
  <2> QED
    BY <1>14, <2>2, <2>3 DEF Demote, SetStateOK
<1>16. CASE Open(d)
  <2>1. UNCHANGED <<exec, log, handoffs>> /\ work[d].pc = "open"
    BY <1>16 DEF Open
  <2>2. CASE Mine(d).kind # "prompt"
    BY <1>1, <1>16, <2>1, <2>2 DEF Open, rows
  <2>3. CASE Mine(d).kind = "prompt"
    <3> DEFINE c == work[d].cmd
               r == [cmds[c] EXCEPT !.turns = cmds[c].turns + 1]
    <3>1. cmds[c] \in CommandType /\ cmds[c].kind = "prompt"
      BY <1>0, <2>3, SameCommand DEF Mine
    <3>2. cmds[c].turns + 1 \in Nat
      BY <3>1 DEF CommandType
    <3>3. /\ r \in CommandType /\ r.kind = cmds[c].kind /\ r.gen = cmds[c].gen
          /\ r.device = cmds[c].device /\ r.attempts = cmds[c].attempts
          /\ r.state = cmds[c].state /\ r.turns = cmds[c].turns + 1
          /\ r.pending = cmds[c].pending
      BY <3>1, <3>2 DEF CommandType
    <3>4. cmds' = [cmds EXCEPT ![c] = r]
      BY <1>16, <2>3 DEF Open
    <3>5. r.attempts >= cmds[c].attempts /\ cmds[c].state # "blocked"
      BY <1>0, <3>1, <3>3 DEF CommandType, IInv, CommandsFit
    <3>6. c \in DOMAIN cmds /\ work[d].cmd = c
      BY <1>0
    <3> HIDE DEF r, c
    <3>7. CommandMoves(c, r)
      BY <1>16, <3>1, <3>3, <3>5, <3>6 DEF CommandMoves
    <3> QED
      BY <1>10, <2>1, <3>3, <3>4, <3>6, <3>7, OneCommand
  <2> QED
    BY <2>2, <2>3
<1>18. CASE BindSource(d)
  <2>1. UNCHANGED <<log, handoffs, cmds>>
    BY <1>18 DEF BindSource
  <2>2. CASE UNCHANGED exec
    BY <1>1, <2>1, <2>2 DEF rows
  <2>3. CASE exec' = [exec EXCEPT !.ver = @ + 1]
    <3>1. exec' \in ExecType /\ exec'.gen = exec.gen /\ exec'.device = exec.device
          /\ exec'.state = exec.state /\ exec'.runner = exec.runner
      BY <1>0, <2>3 DEF ExecType
    <3>2. ExecKept
      BY <2>1, <3>1 DEF ExecKept
    <3> QED
      BY <2>1, <3>2, SameCommands DEF RowsKept, HandoffsKept
  <2> QED
    BY <1>18, <2>2, <2>3 DEF BindSource
<1>17. CASE EndTurn(d)
  <2>1. UNCHANGED <<exec, log, handoffs>>
    BY <1>17 DEF EndTurn
  <2>2. CASE UNCHANGED cmds
    BY <1>1, <2>1, <2>2 DEF rows
  <2>3. CASE cmds' = [cmds EXCEPT ![work[d].cmd].pending = TRUE]
    <3> DEFINE c == work[d].cmd
               r == [cmds[c] EXCEPT !.pending = TRUE]
    <3>1. cmds[c] \in CommandType /\ CommandMoves(c, cmds[c])
      BY <1>0, SameCommand
    <3>2. /\ r \in CommandType /\ r.kind = cmds[c].kind /\ r.gen = cmds[c].gen
          /\ r.device = cmds[c].device /\ r.attempts = cmds[c].attempts
          /\ r.state = cmds[c].state /\ r.turns = cmds[c].turns /\ r.pending = TRUE
      BY <3>1 DEF CommandType
    <3>3. cmds' = [cmds EXCEPT ![c] = r] /\ c \in DOMAIN cmds
      BY <1>0, <2>3
    <3> HIDE DEF r, c
    <3>4. CommandMoves(c, r)
      BY <3>1, <3>2 DEF CommandMoves
    <3> QED
      BY <1>10, <2>1, <3>2, <3>3, <3>4, OneCommand
  <2> QED
    BY <1>17, <2>2, <2>3 DEF EndTurn
<1>15. ASSUME \/ Capture(d) \/ Seal(d) \/ ReadHandoff(d) \/ ReadTarget(d) \/ Checkout(d)
              \/ ReadLatest(d) \/ Write(d) \/ Bind(d) \/ Enlist(d) \/ Close(d) \/ Throw(d)
              \/ LoseLease(d)
       PROVE  UNCHANGED rows
  BY <1>15 DEF Capture, Seal, ReadHandoff, ReadTarget, Checkout, ReadLatest, Write, Bind,
       Enlist, Close, Throw, LoseLease, LaneOnly
<1> QED
  BY <1>1, <1>3, <1>4, <1>5, <1>6, <1>7, <1>8, <1>9, <1>11, <1>12, <1>13, <1>14, <1>15, <1>16,
     <1>17, <1>18 DEF LaneStep

\* A runner that is released leaves nobody in its place.
LEMMA ReleasedKeeps ==
  ASSUME IInv, NEW d \in Devices, NEW gen, exec' = Released(gen, d), UNCHANGED log
  PROVE  ExecKept
<1>1. CASE UNCHANGED exec
  BY <1>1, SameExec
<1>2. CASE exec' = [exec EXCEPT !.runner = None, !.live = FALSE]
  BY <1>2, LeaseSet
<1> QED
  BY <1>1, <1>2 DEF Released

(* Every step inserts a command, claims one, or keeps the rows.              *)
LEMMA RowsMove ==
  ASSUME IInv, Next
  PROVE  Requested \/ Asked \/ Attested \/ Handed \/ (\E d \in Devices : Claim(d)) \/ RowsKept
<1>0. exec \in ExecType /\ handoffs \in Seq(HandoffType) /\ cmds \in Seq(CommandType)
  BY Types
<1>1. ASSUME UNCHANGED <<exec, log, handoffs>>, CommandsKept PROVE RowsKept
  BY <1>1, SameExec DEF RowsKept, HandoffsKept
<1>2. ASSUME UNCHANGED <<handoffs, cmds>>, ExecKept PROVE RowsKept
  BY <1>2, SameCommands DEF RowsKept, HandoffsKept
<1>3. ASSUME UNCHANGED rows PROVE RowsKept
  BY <1>1, <1>3, SameCommands DEF rows
<1>4. ASSUME NEW c \in DOMAIN cmds, Replicated(c) PROVE RowsKept
  <2> DEFINE r == [cmds[c] EXCEPT !.state = "queued"]
  <2>1. cmds[c] \in CommandType /\ cmds[c].state = "blocked"
    BY <1>4, SameCommand DEF Replicated
  <2>2. r \in CommandType /\ r.kind = cmds[c].kind /\ r.gen = cmds[c].gen
        /\ r.device = cmds[c].device /\ r.attempts = cmds[c].attempts /\ r.state = "queued"
        /\ r.turns = cmds[c].turns /\ r.pending = cmds[c].pending
    BY <2>1 DEF CommandType
  <2>6. cmds[c].kind # "prompt"
    BY <2>1 DEF IInv, CommandsFit
  <2>3. r.attempts >= cmds[c].attempts
    BY <2>1, <2>2 DEF CommandType
  <2>4. cmds' = [cmds EXCEPT ![c] = r] /\ UNCHANGED <<exec, log, handoffs>>
    BY <1>4 DEF Replicated
  <2> HIDE DEF r
  <2>5. CommandMoves(c, r)
    BY <2>1, <2>2, <2>3, <2>6 DEF CommandMoves, Settled
  <2> QED
    BY <1>1, <2>2, <2>4, <2>5, OneCommand
<1>5. ASSUME NEW d \in Devices, Reconcile(d) PROVE RowsKept
  <2> PICK c \in DOMAIN cmds, state \in {"completed", "queued", "indeterminate"} :
        /\ cmds[c].kind = "prompt" /\ cmds[c].state = "dispatching"
        /\ cmds' = [cmds EXCEPT ![c] = [cmds[c] EXCEPT !.state = state, !.pending = Left(c, state)]]
    BY <1>5, Zenon DEF Reconcile
  <2> DEFINE r == [cmds[c] EXCEPT !.state = state, !.pending = Left(c, state)]
  <2>1. cmds[c] \in CommandType
    BY SameCommand
  <2>6. Left(c, state) \in BOOLEAN
    BY DEF Left
  <2>2. r \in CommandType /\ r.kind = cmds[c].kind /\ r.gen = cmds[c].gen
        /\ r.device = cmds[c].device /\ r.attempts = cmds[c].attempts /\ r.state = state
        /\ r.turns = cmds[c].turns /\ r.pending = Left(c, state)
    BY <2>1, <2>6 DEF CommandType
  <2>3. r.attempts >= cmds[c].attempts
    BY <2>1, <2>2 DEF CommandType
  <2>4. cmds' = [cmds EXCEPT ![c] = r] /\ UNCHANGED <<exec, log, handoffs>>
        /\ work[exec.device].pc = "idle"
    BY <1>5 DEF Reconcile
  <2> HIDE DEF r
  <2>5. CommandMoves(c, r)
    BY <2>2, <2>3, <2>4 DEF CommandMoves, Settled, Left
  <2> QED
    BY <1>1, <2>2, <2>4, <2>5, OneCommand
<1>6. ASSUME NEW d \in Devices, ClaimStop(d) PROVE RowsKept
  <2> PICK c \in DOMAIN cmds :
        /\ cmds[c].kind = "stop" /\ cmds[c].state = "queued"
        /\ cmds' = [cmds EXCEPT ![c] = [cmds[c] EXCEPT !.state = "dispatching", !.attempts = @ + 1, !.live = TRUE]]
    BY <1>6, Zenon DEF ClaimStop
  <2> DEFINE r == [cmds[c] EXCEPT !.state = "dispatching", !.attempts = cmds[c].attempts + 1,
                                  !.live = TRUE]
  <2>1. cmds[c] \in CommandType
    BY SameCommand
  <2>2. r \in CommandType /\ r.kind = cmds[c].kind /\ r.gen = cmds[c].gen
        /\ r.device = cmds[c].device /\ r.attempts = cmds[c].attempts + 1 /\ r.state = "dispatching"
        /\ r.turns = cmds[c].turns /\ r.pending = cmds[c].pending
    BY <2>1, LeasedCommand
  <2>3. r.attempts >= cmds[c].attempts
    BY <2>1, <2>2 DEF CommandType
  <2>4. cmds' = [cmds EXCEPT ![c] = r] /\ UNCHANGED <<exec, log, handoffs>>
    <3>1. cmds' = [cmds EXCEPT ![c] = r]
      BY Zenon
    <3>2. UNCHANGED <<exec, log, handoffs>>
      BY <1>6 DEF ClaimStop, StopOnly
    <3> QED
      BY <3>1, <3>2
  <2> HIDE DEF r
  <2>5. CommandMoves(c, r)
    BY <2>2, <2>3 DEF CommandMoves, Settled
  <2> QED
    BY <1>1, <2>2, <2>4, <2>5, OneCommand
<1>7. ASSUME NEW d \in Devices, EndStop(d) PROVE RowsKept
  <2>1. stopper[d].cmd \in DOMAIN cmds /\ cmds[stopper[d].cmd].kind = "stop"
    BY <1>7 DEF EndStop, IInv, LanesHoldCommands
  <2>2. UNCHANGED <<exec, log, handoffs>>
        /\ \E state \in {"completed", "failed"} : Finish(stopper[d], state)
    BY <1>7 DEF EndStop, StopOnly
  <2>3. CommandsKept
    BY <2>1, <2>2, FinishKeeps
  <2> QED
    BY <1>1, <2>2, <2>3
<1>8. ASSUME NEW d \in Devices, SetStop(d) PROVE RowsKept
  <2>1. UNCHANGED <<log, handoffs, cmds>>
    BY <1>8 DEF SetStop, StopOnly
  <2>2. CASE UNCHANGED exec
    BY <1>3, <2>1, <2>2 DEF rows
  <2>3. CASE SetState(stopper[d].pc) /\ stopper[d].pc \in {"stopping", "stopped"}
    <3>1. ExecKept
      BY <2>1, <2>3, StateSet DEF ExecKept
    <3> QED
      BY <1>2, <2>1, <3>1
  <2> QED
    BY <1>8, <2>2, <2>3 DEF SetStop
<1>9. ASSUME NEW d \in Devices, Acquire(d) PROVE RowsKept
  <2>1. UNCHANGED <<log, handoffs, cmds>>
    BY <1>9 DEF Acquire, RecoveryOnly
  <2>2. CASE UNCHANGED exec
    BY <1>3, <2>1, <2>2 DEF rows
  <2>3. CASE exec.device = d /\ exec' = [exec EXCEPT !.runner = Me(d), !.live = TRUE]
    <3>1. ExecKept
      BY <2>1, <2>3, MeIsRunner, LeaseSet
    <3> QED
      BY <1>2, <2>1, <3>1
  <2> QED
    BY <1>9, <2>2, <2>3 DEF Acquire
<1>10. ASSUME NEW d \in Devices, Recovered(d) PROVE RowsKept
  <2>1. UNCHANGED <<log, handoffs, cmds>>
        /\ (UNCHANGED exec \/ exec' = Released(recovery[d].gen, d))
    BY <1>10 DEF Recovered, RecoveryOnly
  <2> QED
    BY <1>2, <2>1, SameExec, ReleasedKeeps
<1>11. ASSUME NEW d \in Devices, Stop(d) PROVE RowsKept
  <2>1. UNCHANGED <<log, handoffs, cmds>>
        /\ (UNCHANGED exec \/ exec' = Released(session[d], d))
    BY <1>11 DEF Stop, Dies
  <2> QED
    BY <1>2, <2>1, SameExec, ReleasedKeeps
<1>12. ASSUME NEW c \in DOMAIN cmds, CommandLapses(c) PROVE RowsKept
  <2> DEFINE r == [cmds[c] EXCEPT !.live = FALSE]
  <2>1. cmds[c] \in CommandType /\ CommandMoves(c, cmds[c])
    BY SameCommand
  <2>2. r \in CommandType /\ r.kind = cmds[c].kind /\ r.gen = cmds[c].gen
        /\ r.device = cmds[c].device /\ r.attempts = cmds[c].attempts /\ r.state = cmds[c].state
        /\ r.turns = cmds[c].turns /\ r.pending = cmds[c].pending
    BY <2>1 DEF CommandType
  <2>3. cmds' = [cmds EXCEPT ![c] = r] /\ UNCHANGED <<exec, log, handoffs>>
    BY <1>12 DEF CommandLapses, TimeOnly
  <2> HIDE DEF r
  <2>4. CommandMoves(c, r)
    BY <2>1, <2>2 DEF CommandMoves
  <2> QED
    BY <1>1, <2>2, <2>3, <2>4, OneCommand
<1>13. CASE ExecutionLapses
  <2>1. UNCHANGED <<log, handoffs, cmds>> /\ exec' = [exec EXCEPT !.live = FALSE]
    BY <1>13 DEF ExecutionLapses, TimeOnly
  <2>2. exec' = [exec EXCEPT !.runner = exec.runner, !.live = FALSE]
        /\ exec.runner \in Runners \cup {None}
    BY <1>0, <2>1 DEF ExecType
  <2>3. ExecKept
    BY <2>1, <2>2, LeaseSet
  <2> QED
    BY <1>2, <2>1, <2>3
<1>14. ASSUME NEW h \in {[Last EXCEPT !.live = FALSE], [Last EXCEPT !.expired = TRUE],
                         [Last EXCEPT !.ready = "stale"]},
              Active, SetLast(h), UNCHANGED <<exec, log, cmds>>
       PROVE  RowsKept
  <2>1. handoffs # <<>>
    BY <1>14 DEF Active, Stage
  <2>2. Last \in HandoffType
    BY <2>1, LastHandoff
  <2>3. h \in HandoffType /\ h.source = Last.source /\ h.target = Last.target
        /\ h.gen = Last.gen /\ h.state = Last.state
    BY <1>14, <2>2 DEF HandoffType
  <2>4. HandoffsKept
    BY <1>14, <2>1, <2>3, OneHandoff DEF HandoffMoves
  <2> QED
    BY <1>14, <2>4, SameExec, SameCommands DEF RowsKept
<1>15. CASE RestorationLapses
  <2>1. Active /\ SetLast([Last EXCEPT !.live = FALSE]) /\ UNCHANGED <<exec, log, cmds>>
    BY <1>15 DEF RestorationLapses, TimeOnly
  <2> QED
    BY <1>14, <2>1
<1>16. CASE Expires
  <2>1. /\ Active /\ UNCHANGED <<exec, log, cmds>>
        /\ SetLast([Last EXCEPT !.expired = TRUE]) \/ SetLast([Last EXCEPT !.ready = "stale"])
    BY <1>16 DEF Expires, TimeOnly
  <2> QED
    BY <1>14, <2>1
<1>17. ASSUME NEW d \in Devices,
              \/ ReadToStop(d) \/ CloseToStop(d) \/ StopThrows(d) \/ List(d)
              \/ RenewFails(d) \/ Crash(d) \/ Start(d)
       PROVE  UNCHANGED rows
  BY <1>17 DEF ReadToStop, CloseToStop, StopThrows, StopOnly, List, RecoveryOnly, RenewFails,
       Crash, Dies, Start, rows
<1>18. UserStep => Requested \/ Asked
  BY DEF UserStep, Requested, Asked
<1> QED
  BY <1>3, <1>4, <1>5, <1>6, <1>7, <1>8, <1>9, <1>10, <1>11, <1>12, <1>13, <1>15, <1>16, <1>17,
     <1>18, LaneKeepsRows, NextSplits DEF OtherStep, StopStep, RecoveryStep, Lapse

-----------------------------------------------------------------------------
(* What the steps make of the rows.                                          *)

(* A handoff that moves stays on its side of the transfer.                   *)
LEMMA LastMoves ==
  ASSUME IInv, handoffs # <<>>, NEW h \in HandoffType, SetLast(h),
         h.source = Last.source, h.target = Last.target, h.gen = Last.gen
  PROVE  /\ handoffs' \in Seq(HandoffType) /\ Len(handoffs') = Len(handoffs)
         /\ DOMAIN handoffs' = DOMAIN handoffs /\ handoffs' # <<>>
         /\ Stage' = h.state /\ Stage = Last.state /\ Last' = h
         /\ \A g \in DOMAIN handoffs :
              /\ handoffs'[g].source = handoffs[g].source
              /\ handoffs'[g].target = handoffs[g].target
              /\ handoffs'[g].gen = handoffs[g].gen
              /\ g # Len(handoffs) => handoffs'[g] = handoffs[g]
<1>1. handoffs \in Seq(HandoffType) /\ Stage = Last.state /\ Len(handoffs) \in DOMAIN handoffs
  BY Types, LastHandoff
<1>2. /\ handoffs' \in Seq(HandoffType) /\ Len(handoffs') = Len(handoffs)
      /\ Len(handoffs) \in Nat \ {0} /\ DOMAIN handoffs' = DOMAIN handoffs
      /\ handoffs'[Len(handoffs)] = h
      /\ \A g \in DOMAIN handoffs : g # Len(handoffs) => handoffs'[g] = handoffs[g]
  BY <1>1, LastChanged
<1>3. handoffs' # <<>>
  BY <1>2, EmptySeq
<1>4. Last' = h /\ Stage' = h.state
  BY <1>2, <1>3 DEF Last, Stage
<1>5. ASSUME NEW g \in DOMAIN handoffs
      PROVE  /\ handoffs'[g].source = handoffs[g].source
             /\ handoffs'[g].target = handoffs[g].target
             /\ handoffs'[g].gen = handoffs[g].gen
  BY <1>2 DEF Last
<1> QED
  BY <1>1, <1>2, <1>3, <1>4, <1>5

\* Handoffs that are kept stay on their side of the transfer.
LEMMA KeptHandoffs ==
  ASSUME IInv, HandoffsKept
  PROVE  /\ handoffs' \in Seq(HandoffType) /\ Len(handoffs') = Len(handoffs)
         /\ DOMAIN handoffs' = DOMAIN handoffs /\ (handoffs # <<>> => handoffs' # <<>>)
         /\ \A g \in DOMAIN handoffs :
              /\ handoffs'[g].source = handoffs[g].source
              /\ handoffs'[g].target = handoffs[g].target
              /\ handoffs'[g].gen = handoffs[g].gen
              /\ Transferred(g)' <=> Transferred(g)
         /\ Stage' \in Before <=> Stage \in Before
         /\ Stage' \in Verifying <=> Stage \in Verifying
         /\ handoffs # <<>> => Last'.target = Last.target
<1>1. CASE UNCHANGED handoffs
  BY <1>1, Types DEF Transferred, Stage, Last
<1>2. ASSUME handoffs # <<>>, NEW h \in HandoffType, SetLast(h), HandoffMoves(h),
             h.source = Last.source, h.target = Last.target, h.gen = Last.gen
      PROVE  /\ \A g \in DOMAIN handoffs : Transferred(g)' <=> Transferred(g)
             /\ Stage' \in Before <=> Stage \in Before
             /\ Stage' \in Verifying <=> Stage \in Verifying
  <2>1. /\ DOMAIN handoffs' = DOMAIN handoffs /\ Stage' = h.state /\ Stage = Last.state
        /\ handoffs'[Len(handoffs)] = h
        /\ \A g \in DOMAIN handoffs : g # Len(handoffs) => handoffs'[g] = handoffs[g]
    BY <1>2, LastMoves DEF Last
  <2>2. /\ Last.state \in Before <=> h.state \in Before
        /\ Last.state \in Verifying <=> h.state \in Verifying
        /\ Last.state \in {"lease_transferred", "restoring", "running"}
             <=> h.state \in {"lease_transferred", "restoring", "running"}
    BY <1>2 DEF HandoffMoves, Before, Verifying
  <2>3. ASSUME NEW g \in DOMAIN handoffs PROVE Transferred(g)' <=> Transferred(g)
    <3>1. CASE g = Len(handoffs)
      BY <2>1, <2>2, <3>1 DEF Transferred, Last
    <3>2. CASE g # Len(handoffs)
      BY <2>1, <3>2 DEF Transferred
    <3> QED
      BY <3>1, <3>2
  <2>4. (Stage' \in Before <=> Stage \in Before) /\ (Stage' \in Verifying <=> Stage \in Verifying)
    BY <2>1, <2>2
  <2> QED
    BY <2>3, <2>4
<1>3. ASSUME ~UNCHANGED handoffs
      PROVE  \E h \in HandoffType :
               /\ handoffs # <<>> /\ SetLast(h) /\ HandoffMoves(h)
               /\ h.source = Last.source /\ h.target = Last.target /\ h.gen = Last.gen
  BY <1>3, Zenon DEF HandoffsKept
<1>4. CASE ~UNCHANGED handoffs
  <2> PICK h \in HandoffType :
        /\ handoffs # <<>> /\ SetLast(h) /\ HandoffMoves(h)
        /\ h.source = Last.source /\ h.target = Last.target /\ h.gen = Last.gen
    BY <1>3, <1>4
  <2>1. /\ handoffs' \in Seq(HandoffType) /\ Len(handoffs') = Len(handoffs)
        /\ DOMAIN handoffs' = DOMAIN handoffs /\ handoffs' # <<>> /\ Last' = h
        /\ \A g \in DOMAIN handoffs :
              /\ handoffs'[g].source = handoffs[g].source
              /\ handoffs'[g].target = handoffs[g].target
              /\ handoffs'[g].gen = handoffs[g].gen
    BY LastMoves
  <2> QED
    BY <1>2, <2>1
<1> QED
  BY <1>1, <1>4

\* An inserted command is queued behind all others.
LEMMA InsertGives ==
  ASSUME IInv, NEW kind \in {"quiesce", "verify_target", "restore", "prompt", "stop"},
         NEW gen \in Gens, NEW device \in Devices \cup {None}, Insert(kind, gen, device)
  PROVE  LET n == Len(cmds) + 1 IN
         /\ cmds' \in Seq(CommandType) /\ DOMAIN cmds' = DOMAIN cmds \cup {n}
         /\ n \notin DOMAIN cmds /\ \A p \in DOMAIN cmds : p < n /\ p \in Nat /\ cmds'[p] = cmds[p]
         /\ cmds'[n].kind = kind /\ cmds'[n].gen = gen /\ cmds'[n].device = device
         /\ cmds'[n].state = "queued" /\ cmds'[n].turns = 0 /\ n \in Nat
<1> DEFINE r == Command(kind, gen, device)
<1>1. r \in CommandType /\ r.kind = kind /\ r.gen = gen /\ r.device = device
      /\ r.state = "queued" /\ r.turns = 0
  BY DEF Command, CommandType
<1>2. cmds' = Append(cmds, r) /\ cmds \in Seq(CommandType)
  BY Types DEF Insert
<1> HIDE DEF r
<1>3. /\ cmds' \in Seq(CommandType) /\ DOMAIN cmds' = DOMAIN cmds \cup {Len(cmds) + 1}
      /\ DOMAIN cmds = 1..Len(cmds) /\ Len(cmds) \in Nat
      /\ cmds'[Len(cmds) + 1] = r /\ \A p \in DOMAIN cmds : cmds'[p] = cmds[p]
  BY <1>1, <1>2, CommandAdded
<1> QED
  BY <1>1, <1>3

(* A request adds a handoff from the owner and asks it to quiesce; nothing   *)
(* else was open.                                                            *)
LEMMA RequestGives ==
  ASSUME IInv, NEW t \in Devices, Request(t)
  PROVE  /\ exec.gen = Len(handoffs) + 1 /\ Len(handoffs) + 1 <= MaxHandoffs
         /\ Stage' = "quiesce_requested" /\ Last'.target = t /\ ~Active /\ ~Unsettled
         /\ handoffs' \in Seq(HandoffType) /\ Len(handoffs') = Len(handoffs) + 1
         /\ DOMAIN handoffs = 1..Len(handoffs) /\ DOMAIN handoffs' = 1..(Len(handoffs) + 1)
         /\ Len(handoffs) \in Nat /\ handoffs' # <<>>
         /\ \A g \in DOMAIN handoffs : handoffs'[g] = handoffs[g]
         /\ LET h == handoffs'[Len(handoffs) + 1] IN
              /\ h.state = "quiesce_requested" /\ h.source = exec.device /\ h.target = t
              /\ h.gen = exec.gen
         /\ exec' \in ExecType /\ exec'.gen = exec.gen /\ exec'.device = exec.device
         /\ exec'.runner = exec.runner /\ exec'.state = "quiesce_requested"
         /\ log'.head = log.head /\ log'.highest = exec.gen
         /\ log' \in [head : 0..MaxHandoffs, highest : {0} \cup Gens]
         /\ Insert("quiesce", exec.gen, None) /\ UNCHANGED work /\ t # exec.device
<1>0. /\ exec \in ExecType /\ handoffs \in Seq(HandoffType) /\ exec.gen \in Nat
      /\ log \in [head : 0..MaxHandoffs, highest : {0} \cup Gens] /\ MaxHandoffs \in Nat
  BY Types, HandoffAssumption DEF ExecType, Gens
<1>1. Len(handoffs) \in Nat /\ DOMAIN handoffs = 1..Len(handoffs)
  BY <1>0, LenProperties
<1>2. ~Active /\ ~Unsettled /\ Len(handoffs) < MaxHandoffs /\ t # exec.device /\ UNCHANGED work
      /\ Insert("quiesce", exec.gen, None)
  BY DEF Request, lanes
<1>3. exec.gen = Len(handoffs) + 1
  <2>1. exec.gen <= Len(handoffs) + 1 /\ exec.gen >= 1
    BY <1>0 DEF IInv, OwnershipFollowsLog, ExecType, Gens
  <2>2. CASE handoffs = <<>>
    BY <1>0, <1>1, <2>1, <2>2, EmptySeq
  <2>3. CASE handoffs # <<>>
    <3>1. Len(handoffs) \in DOMAIN handoffs /\ Stage = Last.state /\ Last \in HandoffType
      BY <2>3, LastHandoff
    <3>2. Last.state = "running"
      BY <1>2, <3>1 DEF Active, HandoffType, Before
    <3>3. Len(handoffs) < exec.gen
      BY <3>1, <3>2 DEF IInv, OwnershipFollowsLog, Transferred, Last
    <3> QED
      BY <1>0, <1>1, <2>1, <3>3
  <2> QED
    BY <2>2, <2>3
<1> DEFINE h == [state |-> "quiesce_requested", ver |-> 1, source |-> exec.device, target |-> t,
                 gen |-> exec.gen, seq |-> 0, expired |-> FALSE, ready |-> "none",
                 owner |-> None, live |-> FALSE]
<1>4. h \in HandoffType /\ h.state = "quiesce_requested" /\ h.source = exec.device
      /\ h.target = t /\ h.gen = exec.gen
  BY <1>0 DEF HandoffType, ExecType, Before
<1>5. handoffs' = Append(handoffs, h)
  BY DEF Request
<1> HIDE DEF h
<1>6. /\ handoffs' \in Seq(HandoffType) /\ Len(handoffs') = Len(handoffs) + 1
      /\ handoffs' # <<>> /\ DOMAIN handoffs' = 1..(Len(handoffs) + 1)
      /\ handoffs'[Len(handoffs) + 1] = h
      /\ \A g \in DOMAIN handoffs : handoffs'[g] = handoffs[g]
  BY <1>0, <1>4, <1>5, HandoffAdded
<1>7. Last' = h /\ Stage' = "quiesce_requested"
  BY <1>4, <1>6 DEF Last, Stage
<1>8. /\ exec' \in ExecType /\ exec'.gen = exec.gen /\ exec'.device = exec.device
      /\ exec'.runner = exec.runner /\ exec'.state = "quiesce_requested"
  <2>1. exec.ver + 1 \in Nat /\ "quiesce_requested" \in States
    BY <1>0 DEF ExecType, States
  <2>2. exec' = [exec EXCEPT !.state = "quiesce_requested", !.ver = exec.ver + 1]
    BY DEF Request
  <2> QED
    BY <1>0, <2>1, <2>2 DEF ExecType
<1>9. /\ log'.head = log.head /\ log'.highest = exec.gen
      /\ log' \in [head : 0..MaxHandoffs, highest : {0} \cup Gens]
  <2>1. log' = IF log.highest = 0 THEN [log EXCEPT !.highest = exec.gen] ELSE log
    BY DEF Request
  <2>2. log.highest \in {0, exec.gen} /\ exec.gen \in Gens
    BY <1>0 DEF IInv, OwnershipFollowsLog, ExecType
  <2> QED
    BY <1>0, <2>1, <2>2
<1> QED
  BY <1>0, <1>1, <1>2, <1>3, <1>4, <1>6, <1>7, <1>8, <1>9

\* A question is put to the present generation, and nothing else changes.
LEMMA AskGives ==
  ASSUME IInv, NEW kind \in {"prompt", "stop"}, Ask(kind)
  PROVE  /\ Insert(kind, exec.gen, None) /\ UNCHANGED <<exec, log, handoffs, work>>
         /\ exec.state \in {"running", "reconciling"}
         /\ kind = "prompt" => exec.state = "running"
BY DEF Ask, lanes

(* The attested source has its handoff verified by the target next.          *)
LEMMA AttestGives ==
  ASSUME IInv, NEW d \in Devices, Attest(d), Last.state = "source_sealed",
         Last.ver = work[d].hver
  PROVE  /\ Last \in HandoffType /\ Last.gen = exec.gen /\ Last.gen = Len(handoffs)
         /\ handoffs # <<>> /\ Stage = "source_sealed" /\ Stage' = "workspace_prepared"
         /\ Last'.target = Last.target
         /\ handoffs' \in Seq(HandoffType) /\ Len(handoffs') = Len(handoffs)
         /\ DOMAIN handoffs' = DOMAIN handoffs /\ handoffs' # <<>>
         /\ \A g \in DOMAIN handoffs :
              /\ handoffs'[g].source = handoffs[g].source
              /\ handoffs'[g].target = handoffs[g].target
              /\ handoffs'[g].gen = handoffs[g].gen
              /\ Transferred(g)' <=> Transferred(g)
         /\ Insert("verify_target", exec.gen, Last.target) /\ UNCHANGED <<exec, log>>
<1>1. handoffs # <<>>
  BY DEF Attest, IInv, LanesHoldCommands
<1>2. /\ Last \in HandoffType /\ Stage = Last.state /\ Last.gen = Len(handoffs)
      /\ Len(handoffs) \in DOMAIN handoffs /\ Len(handoffs) \in Nat
  BY <1>1, LastHandoff
<1>3. Last.gen = exec.gen
  <2>1. exec.gen \in Nat
    BY Types, HandoffAssumption DEF ExecType, Gens
  <2>2. ~(Len(handoffs) < exec.gen)
    BY <1>2 DEF IInv, OwnershipFollowsLog, Transferred, Last
  <2>3. Len(handoffs) <= exec.gen
    BY DEF IInv, HandoffsFollow
  <2> QED
    BY <1>2, <2>1, <2>2, <2>3
<1> DEFINE h == [Last EXCEPT !.state = "workspace_prepared", !.ver = Last.ver + 1]
<1>4. Last.ver + 1 \in Nat
  BY <1>2 DEF HandoffType
<1>5. h \in HandoffType /\ h.state = "workspace_prepared" /\ h.source = Last.source
      /\ h.target = Last.target /\ h.gen = Last.gen
  BY <1>2, <1>4 DEF HandoffType, Before
<1>6. SetLast(h) /\ Insert("verify_target", Last.gen, Last.target) /\ UNCHANGED <<exec, log>>
  BY DEF Attest
<1> HIDE DEF h
<1>7. /\ handoffs' \in Seq(HandoffType) /\ Len(handoffs') = Len(handoffs)
      /\ DOMAIN handoffs' = DOMAIN handoffs /\ handoffs' # <<>>
      /\ Stage' = h.state /\ Last' = h
      /\ \A g \in DOMAIN handoffs :
           /\ handoffs'[g].source = handoffs[g].source
           /\ handoffs'[g].target = handoffs[g].target
           /\ handoffs'[g].gen = handoffs[g].gen
           /\ g # Len(handoffs) => handoffs'[g] = handoffs[g]
  BY <1>1, <1>5, <1>6, LastMoves
<1>8. ASSUME NEW g \in DOMAIN handoffs PROVE Transferred(g)' <=> Transferred(g)
  BY <1>2, <1>5, <1>7 DEF Transferred, Last
<1> QED
  BY <1>1, <1>2, <1>3, <1>5, <1>6, <1>7, <1>8

(* The transfer moves the execution, the log and the handoff together.       *)
LEMMA CommitGives ==
  ASSUME IInv, NEW d \in Devices, Commit(d), MayCommit(work[d].hver)
  PROVE  /\ Last \in HandoffType /\ Last.gen = exec.gen /\ Last.gen = Len(handoffs)
         /\ Len(handoffs) \in DOMAIN handoffs /\ Len(handoffs) \in Nat \ {0}
         /\ handoffs # <<>> /\ Stage = "target_verified" /\ Stage' = "lease_transferred"
         /\ exec.state = "quiesced" /\ work[d].pc = "commit"
         /\ handoffs' \in Seq(HandoffType) /\ Len(handoffs') = Len(handoffs)
         /\ DOMAIN handoffs' = DOMAIN handoffs /\ handoffs' # <<>>
         /\ Last'.target = Last.target
         /\ handoffs'[Len(handoffs)].state = "lease_transferred"
         /\ \A g \in DOMAIN handoffs :
              /\ handoffs'[g].source = handoffs[g].source
              /\ handoffs'[g].target = handoffs[g].target
              /\ handoffs'[g].gen = handoffs[g].gen
              /\ g # Len(handoffs) => handoffs'[g] = handoffs[g]
         /\ exec' \in ExecType /\ exec'.gen = exec.gen + 1 /\ exec'.device = Last.target
         /\ exec'.runner = None /\ exec'.state = "reconciling"
         /\ log' \in [head : 0..MaxHandoffs, highest : {0} \cup Gens]
         /\ log'.head = exec.gen /\ log'.highest = exec.gen + 1
         /\ Insert("restore", exec.gen + 1, Last.target) /\ exec.gen + 1 \in Gens
<1>1. handoffs # <<>> /\ work[d].pc = "commit"
  BY DEF Commit, IInv, LanesHoldCommands
<1>2. /\ Last \in HandoffType /\ Stage = Last.state /\ Last.gen = Len(handoffs)
      /\ Len(handoffs) \in DOMAIN handoffs /\ Len(handoffs) \in Nat \ {0}
      /\ exec \in ExecType /\ MaxHandoffs \in Nat
  BY <1>1, LastHandoff, Types, HandoffAssumption
<1>3. /\ Last.state = "target_verified" /\ log.head + 1 = Last.seq /\ exec.gen = Last.gen
      /\ exec.state = "quiesced"
  BY DEF MayCommit
<1>4. log.head + 1 = exec.gen /\ Len(handoffs) <= MaxHandoffs
  BY DEF IInv, OwnershipFollowsLog, HandoffsFollow
<1>5. exec.gen + 1 \in Gens /\ exec.gen \in 0..MaxHandoffs
  BY <1>2, <1>3, <1>4 DEF Gens
<1> DEFINE h == [Last EXCEPT !.state = "lease_transferred", !.ver = Last.ver + 1]
<1>6. Last.ver + 1 \in Nat /\ exec.ver + 1 \in Nat /\ "reconciling" \in States
      /\ Last.target \in Devices
  BY <1>2 DEF HandoffType, ExecType, States
<1>7. h \in HandoffType /\ h.state = "lease_transferred" /\ h.source = Last.source
      /\ h.target = Last.target /\ h.gen = Last.gen
  BY <1>2, <1>6 DEF HandoffType
<1>8. /\ log' = [head |-> Last.seq, highest |-> Last.gen + 1]
      /\ exec' = [state |-> "reconciling", gen |-> Last.gen + 1, ver |-> exec.ver + 1,
                  device |-> Last.target, runner |-> None, live |-> FALSE]
      /\ SetLast(h) /\ Insert("restore", Last.gen + 1, Last.target)
  BY DEF Commit
<1> HIDE DEF h
<1>9. /\ handoffs' \in Seq(HandoffType) /\ Len(handoffs') = Len(handoffs)
      /\ DOMAIN handoffs' = DOMAIN handoffs /\ handoffs' # <<>>
      /\ Stage' = h.state /\ Last' = h
      /\ \A g \in DOMAIN handoffs :
           /\ handoffs'[g].source = handoffs[g].source
           /\ handoffs'[g].target = handoffs[g].target
           /\ handoffs'[g].gen = handoffs[g].gen
           /\ g # Len(handoffs) => handoffs'[g] = handoffs[g]
  BY <1>1, <1>7, <1>8, LastMoves
<1>10. handoffs'[Len(handoffs)].state = "lease_transferred"
  BY <1>7, <1>9 DEF Last
<1>11. /\ exec' \in ExecType /\ exec'.gen = exec.gen + 1 /\ exec'.device = Last.target
       /\ exec'.runner = None /\ exec'.state = "reconciling"
  BY <1>3, <1>5, <1>6, <1>8 DEF ExecType
<1>12. /\ log' \in [head : 0..MaxHandoffs, highest : {0} \cup Gens]
       /\ log'.head = exec.gen /\ log'.highest = exec.gen + 1
  BY <1>3, <1>4, <1>5, <1>8
<1> QED
  BY <1>1, <1>2, <1>3, <1>5, <1>7, <1>8, <1>9, <1>10, <1>11, <1>12

-----------------------------------------------------------------------------
(* The history.                                                              *)

(* The owners of the generations handed on so far stay who they were.        *)
LEMMA SameOwners ==
  ASSUME Len(handoffs) \in Nat, DOMAIN handoffs = 1..Len(handoffs),
         \A g \in DOMAIN handoffs : handoffs'[g].target = handoffs[g].target,
         NEW g \in 1..(Len(handoffs) + 1)
  PROVE  Owner(g)' = Owner(g)
<1>1. CASE g = 1
  BY <1>1 DEF Owner
<1>2. CASE g # 1
  <2>1. g - 1 \in DOMAIN handoffs
    BY <1>2
  <2> QED
    BY <1>2, <2>1 DEF Owner
<1> QED
  BY <1>1, <1>2

(* What the history says of the rows, in terms of their domains.             *)
LEMMA HistoryNow ==
  ASSUME IInv
  PROVE  /\ exec \in ExecType /\ log \in [head : 0..MaxHandoffs, highest : {0} \cup Gens]
         /\ handoffs \in Seq(HandoffType) /\ MaxHandoffs \in Nat
         /\ Len(handoffs) \in Nat /\ DOMAIN handoffs = 1..Len(handoffs)
         /\ exec.gen \in Nat /\ exec.gen >= 1 /\ exec.gen <= Len(handoffs) + 1
         /\ Len(handoffs) <= exec.gen /\ Len(handoffs) <= MaxHandoffs
         /\ exec.gen = log.head + 1 /\ log.highest \in {0, exec.gen}
         /\ exec.device = Owner(exec.gen)
         /\ \A h \in DOMAIN handoffs :
              /\ handoffs[h].gen = h /\ handoffs[h].source = Owner(h)
              /\ handoffs[h].target # handoffs[h].source
              /\ Transferred(h) <=> h < exec.gen
<1>1. /\ exec \in ExecType /\ log \in [head : 0..MaxHandoffs, highest : {0} \cup Gens]
      /\ handoffs \in Seq(HandoffType) /\ MaxHandoffs \in Nat
  BY Types, HandoffAssumption
<1>2. Len(handoffs) \in Nat /\ DOMAIN handoffs = 1..Len(handoffs)
  BY <1>1, LenProperties
<1>3. exec.gen \in Nat /\ exec.gen >= 1
  BY <1>1 DEF ExecType, Gens
<1> QED
  BY <1>1, <1>2, <1>3 DEF IInv, OwnershipFollowsLog, HandoffsFollow

\* A step that keeps the rows keeps their history.
LEMMA KeptHistory ==
  ASSUME IInv, exec' \in ExecType, exec'.gen = exec.gen, exec'.device = exec.device, UNCHANGED log,
         Len(handoffs') = Len(handoffs), DOMAIN handoffs' = DOMAIN handoffs,
         \A g \in DOMAIN handoffs :
           /\ handoffs'[g].source = handoffs[g].source
           /\ handoffs'[g].target = handoffs[g].target
           /\ handoffs'[g].gen = handoffs[g].gen
           /\ Transferred(g)' <=> Transferred(g)
  PROVE  OwnershipFollowsLog' /\ HandoffsFollow'
<1>1. \A g \in 1..(Len(handoffs) + 1) : Owner(g)' = Owner(g)
  BY HistoryNow, SameOwners
<1>2. (exec.device = Owner(exec.gen))'
  <2>1. exec.gen \in 1..(Len(handoffs) + 1) /\ exec.device = Owner(exec.gen)
    BY HistoryNow
  <2>2. ASSUME NEW g \in 1..(Len(handoffs) + 1), exec.gen = g
        PROVE  (exec.device = Owner(exec.gen))'
    <3>1. exec'.device = Owner(g)'
      BY <1>1, <2>1, <2>2
    <3> QED
      BY <2>2, <3>1 DEF Owner
  <2> QED
    BY <2>1, <2>2
<1>3. /\ exec'.gen = log'.head + 1 /\ log'.highest \in {0, exec'.gen}
      /\ exec'.gen <= Len(handoffs') + 1 /\ Len(handoffs') <= exec'.gen
      /\ Len(handoffs') <= MaxHandoffs
  BY HistoryNow
<1>4. ASSUME NEW h \in DOMAIN handoffs'
      PROVE  /\ handoffs'[h].gen = h /\ handoffs'[h].source = Owner(h)'
             /\ handoffs'[h].target # handoffs'[h].source
             /\ Transferred(h)' <=> h < exec'.gen
  <2>1. h \in DOMAIN handoffs /\ h \in 1..(Len(handoffs) + 1)
    BY <1>4, HistoryNow
  <2> QED
    BY <1>1, <2>1, HistoryNow
<1> QED
  BY <1>2, <1>3, <1>4 DEF OwnershipFollowsLog, HandoffsFollow

\* A request keeps the history, and opens its next page.
LEMMA RequestHistory ==
  ASSUME IInv, NEW t \in Devices, Request(t)
  PROVE  OwnershipFollowsLog' /\ HandoffsFollow'
<1>1. /\ exec.gen = Len(handoffs) + 1 /\ Len(handoffs) + 1 <= MaxHandoffs
      /\ Len(handoffs') = Len(handoffs) + 1 /\ DOMAIN handoffs' = 1..(Len(handoffs) + 1)
      /\ \A g \in DOMAIN handoffs : handoffs'[g] = handoffs[g]
      /\ exec'.gen = exec.gen /\ exec'.device = exec.device
      /\ log'.head = log.head /\ log'.highest = exec.gen /\ t # exec.device
  BY RequestGives
<1>2. /\ handoffs'[Len(handoffs) + 1].state = "quiesce_requested"
      /\ handoffs'[Len(handoffs) + 1].source = exec.device
      /\ handoffs'[Len(handoffs) + 1].target = t
      /\ handoffs'[Len(handoffs) + 1].gen = exec.gen
  BY RequestGives
<1>3. \A g \in 1..(Len(handoffs) + 1) : Owner(g)' = Owner(g)
  BY <1>1, HistoryNow, SameOwners
<1>4. ASSUME NEW h \in DOMAIN handoffs'
      PROVE  /\ handoffs'[h].gen = h /\ handoffs'[h].source = Owner(h)'
             /\ handoffs'[h].target # handoffs'[h].source
             /\ Transferred(h)' <=> h < exec'.gen
  <2>0. Owner(h)' = Owner(h) /\ h \in Nat
    BY <1>1, <1>3, <1>4, HistoryNow
  <2>1. CASE h \in DOMAIN handoffs
    BY <1>1, <2>0, <2>1, HistoryNow DEF Transferred
  <2>2. CASE h = Len(handoffs) + 1
    <3>1. exec.device = Owner(h)
      BY <1>1, <2>2, HistoryNow
    <3>2. ~(h < exec'.gen) /\ ~Transferred(h)'
      BY <1>1, <1>2, <2>2, HistoryNow DEF Transferred
    <3> QED
      BY <1>1, <1>2, <2>0, <2>2, <3>1, <3>2
  <2> QED
    BY <1>1, <1>4, <2>1, <2>2, HistoryNow
<1>5. (exec.device = Owner(exec.gen))'
  <2>1. exec.gen \in 1..(Len(handoffs) + 1) /\ exec.device = Owner(exec.gen)
    BY HistoryNow
  <2>2. ASSUME NEW g \in 1..(Len(handoffs) + 1), exec.gen = g
        PROVE  (exec.device = Owner(exec.gen))'
    <3>1. exec'.device = Owner(g)'
      BY <1>1, <1>3, <2>1, <2>2
    <3> QED
      BY <1>1, <2>2, <3>1 DEF Owner
  <2> QED
    BY <2>1, <2>2
<1>6. /\ exec'.gen = log'.head + 1 /\ log'.highest \in {0, exec'.gen}
      /\ exec'.gen <= Len(handoffs') + 1 /\ Len(handoffs') <= exec'.gen
      /\ Len(handoffs') <= MaxHandoffs
  BY <1>1, HistoryNow
<1> QED
  BY <1>4, <1>5, <1>6 DEF OwnershipFollowsLog, HandoffsFollow

\* The transfer turns the page: the target owns the next generation.
LEMMA HandedHistory ==
  ASSUME IInv, NEW d \in Devices, Commit(d), MayCommit(work[d].hver)
  PROVE  OwnershipFollowsLog' /\ HandoffsFollow'
<1>1. /\ exec.gen = Len(handoffs) /\ Len(handoffs) \in DOMAIN handoffs
      /\ Len(handoffs') = Len(handoffs) /\ DOMAIN handoffs' = DOMAIN handoffs
      /\ handoffs'[Len(handoffs)].state = "lease_transferred"
      /\ exec'.gen = exec.gen + 1 /\ exec'.device = Last.target
      /\ log'.head = exec.gen /\ log'.highest = exec.gen + 1
      /\ \A g \in DOMAIN handoffs :
           /\ handoffs'[g].source = handoffs[g].source
           /\ handoffs'[g].target = handoffs[g].target
           /\ handoffs'[g].gen = handoffs[g].gen
           /\ g # Len(handoffs) => handoffs'[g] = handoffs[g]
  BY CommitGives
<1>2. \A g \in 1..(Len(handoffs) + 1) : Owner(g)' = Owner(g)
  BY <1>1, HistoryNow, SameOwners
<1>3. ASSUME NEW h \in DOMAIN handoffs'
      PROVE  /\ handoffs'[h].gen = h /\ handoffs'[h].source = Owner(h)'
             /\ handoffs'[h].target # handoffs'[h].source
             /\ Transferred(h)' <=> h < exec'.gen
  <2>1. h \in DOMAIN handoffs /\ h \in Nat /\ Owner(h)' = Owner(h)
    BY <1>1, <1>2, HistoryNow
  <2>2. Transferred(h)'
    <3>1. CASE h = Len(handoffs)
      BY <1>1, <3>1 DEF Transferred
    <3>2. CASE h # Len(handoffs)
      <4>1. Transferred(h)
        BY <1>1, <2>1, <3>2, HistoryNow
      <4> QED
        BY <1>1, <2>1, <3>2, <4>1 DEF Transferred
    <3> QED
      BY <3>1, <3>2
  <2>3. h < exec'.gen
    BY <1>1, <2>1, HistoryNow
  <2> QED
    BY <1>1, <2>1, <2>2, <2>3, HistoryNow
<1>4. exec'.device = handoffs'[exec.gen].target
  BY <1>1, HistoryNow DEF Last
<1>5. (exec.device = Owner(exec.gen))'
  <2>1. exec'.gen # 1 /\ exec'.gen - 1 = exec.gen
    BY <1>1, HistoryNow
  <2> QED
    BY <1>4, <2>1 DEF Owner
<1>6. /\ exec'.gen = log'.head + 1 /\ log'.highest \in {0, exec'.gen}
      /\ exec'.gen <= Len(handoffs') + 1 /\ Len(handoffs') <= exec'.gen
      /\ Len(handoffs') <= MaxHandoffs
  BY <1>1, HistoryNow
<1> QED
  BY <1>3, <1>5, <1>6 DEF OwnershipFollowsLog, HandoffsFollow

\* Every step keeps the types of the rows, and the history they tell.
LEMMA HistoryHolds ==
  ASSUME IInv, Next
  PROVE  /\ exec' \in ExecType /\ log' \in [head : 0..MaxHandoffs, highest : {0} \cup Gens]
         /\ handoffs' \in Seq(HandoffType) /\ OwnershipFollowsLog' /\ HandoffsFollow'
<1>1. CASE Requested
  <2> PICK t \in Devices : Request(t)
    BY <1>1 DEF Requested
  <2> QED
    BY RequestGives, RequestHistory
<1>2. CASE Asked
  <2> PICK kind \in {"prompt", "stop"} : Ask(kind)
    BY <1>2 DEF Asked
  <2>1. UNCHANGED <<exec, log, handoffs>>
    BY AskGives
  <2> QED
    BY <2>1, HistoryNow, KeptHistory DEF Transferred
<1>3. CASE Attested
  <2> PICK d \in Devices : Attest(d) /\ Last.state = "source_sealed" /\ Last.ver = work[d].hver
    BY <1>3 DEF Attested
  <2>1. /\ handoffs' \in Seq(HandoffType) /\ Len(handoffs') = Len(handoffs)
        /\ DOMAIN handoffs' = DOMAIN handoffs /\ UNCHANGED <<exec, log>>
        /\ \A g \in DOMAIN handoffs :
             /\ handoffs'[g].source = handoffs[g].source
             /\ handoffs'[g].target = handoffs[g].target
             /\ handoffs'[g].gen = handoffs[g].gen
             /\ Transferred(g)' <=> Transferred(g)
    BY AttestGives
  <2> QED
    BY <2>1, HistoryNow, KeptHistory
<1>4. CASE Handed
  <2> PICK d \in Devices : Commit(d) /\ MayCommit(work[d].hver)
    BY <1>4 DEF Handed
  <2> QED
    BY CommitGives, HandedHistory
<1>5. CASE RowsKept
  <2>1. exec' \in ExecType /\ exec'.gen = exec.gen /\ exec'.device = exec.device /\ UNCHANGED log
    BY <1>5 DEF RowsKept, ExecKept
  <2>2. /\ handoffs' \in Seq(HandoffType) /\ Len(handoffs') = Len(handoffs)
        /\ DOMAIN handoffs' = DOMAIN handoffs
        /\ \A g \in DOMAIN handoffs :
             /\ handoffs'[g].source = handoffs[g].source
             /\ handoffs'[g].target = handoffs[g].target
             /\ handoffs'[g].gen = handoffs[g].gen
             /\ Transferred(g)' <=> Transferred(g)
    BY <1>5, KeptHandoffs DEF RowsKept
  <2> QED
    BY <2>1, <2>2, HistoryNow, KeptHistory
<1> QED
  BY <1>1, <1>2, <1>3, <1>4, <1>5, RowsMove, ClaimKeeps

-----------------------------------------------------------------------------
(* How the rows and the lanes move, whatever the step.                       *)

(* A command that a step inserts.                                            *)
CommandComes(c) ==
  LET r == cmds'[c] IN
  /\ r.state = "queued" /\ r.turns = 0 /\ \A p \in DOMAIN cmds : p < c
  /\ \/ Requested /\ r.kind = "quiesce" /\ r.gen = exec.gen /\ r.device = None
     \/ Asked /\ r.kind \in {"prompt", "stop"} /\ r.gen = exec.gen /\ r.device = None
          /\ exec.state \in {"running", "reconciling"}
          /\ (r.kind = "prompt" => exec.state = "running")
     \/ Attested /\ r.kind = "verify_target" /\ r.gen = exec.gen /\ r.device = Last.target
     \/ Handed /\ r.kind = "restore" /\ r.gen = exec.gen + 1 /\ r.device = Last.target

\* Commands are only added; each moves as commands do.
LEMMA CommandsMove ==
  ASSUME IInv, Next
  PROVE  /\ cmds' \in Seq(CommandType) /\ DOMAIN cmds \subseteq DOMAIN cmds'
         /\ \A c \in DOMAIN cmds : CommandMoves(c, cmds'[c])
         /\ \A c \in DOMAIN cmds' \ DOMAIN cmds : CommandComes(c)
<1>0. exec.gen \in Gens
  BY Types DEF ExecType
<1>1. \A c \in DOMAIN cmds : cmds'[c] = cmds[c] => CommandMoves(c, cmds'[c])
  BY SameCommand
<1>2. CASE Requested
  <2> PICK t \in Devices : Request(t)
    BY <1>2 DEF Requested
  <2>1. Insert("quiesce", exec.gen, None)
    BY RequestGives
  <2> QED
    BY <1>0, <1>1, <1>2, <2>1, InsertGives DEF CommandComes
<1>3. CASE Asked
  <2> PICK kind \in {"prompt", "stop"} : Ask(kind)
    BY <1>3 DEF Asked
  <2>1. /\ Insert(kind, exec.gen, None) /\ exec.state \in {"running", "reconciling"}
        /\ kind = "prompt" => exec.state = "running"
    BY AskGives
  <2> QED
    BY <1>0, <1>1, <1>3, <2>1, InsertGives DEF CommandComes
<1>4. CASE Attested
  <2> PICK d \in Devices : Attest(d) /\ Last.state = "source_sealed" /\ Last.ver = work[d].hver
    BY <1>4 DEF Attested
  <2>1. Insert("verify_target", exec.gen, Last.target) /\ Last.target \in Devices
    BY AttestGives DEF HandoffType
  <2> QED
    BY <1>0, <1>1, <1>4, <2>1, InsertGives DEF CommandComes
<1>5. CASE Handed
  <2> PICK d \in Devices : Commit(d) /\ MayCommit(work[d].hver)
    BY <1>5 DEF Handed
  <2>1. /\ Insert("restore", exec.gen + 1, Last.target) /\ exec.gen + 1 \in Gens
        /\ Last.target \in Devices
    BY CommitGives DEF HandoffType
  <2> QED
    BY <1>1, <1>5, <2>1, InsertGives DEF CommandComes
<1>6. CASE RowsKept
  BY <1>6 DEF RowsKept, CommandsKept
<1> QED
  BY <1>2, <1>3, <1>4, <1>5, <1>6, RowsMove, ClaimKeeps

\* The execution changes hands with the transfer alone, and runs or is
\* reconciled again only as a restoration or a failing lane has it.
LEMMA ExecMoves ==
  ASSUME IInv, Next
  PROVE  /\ Handed \/ (exec'.gen = exec.gen /\ exec'.device = exec.device)
         /\ exec'.runner # None => exec'.runner = exec.runner \/ exec'.runner[1] = exec'.device
         /\ exec'.runner # None => exec'.device = exec.device
         /\ \/ Handed
            \/ exec'.state \in {exec.state, "quiesce_requested", "quiesced", "stopping", "stopped"}
            \/ exec'.state = "running" /\ Stage = "restoring" /\ Stage' = "running"
            \/ /\ exec'.state \in {"failed", "reconciling"}
               /\ \E d \in Devices :
                    /\ work[d].pc = "set" /\ Mine(d).gen = exec.gen
                    /\ exec'.state = "reconciling" => Mine(d).kind = "prompt"
<1>1. CASE Requested
  <2> PICK t \in Devices : Request(t)
    BY <1>1 DEF Requested
  <2> QED
    BY RequestGives
<1>2. CASE Asked
  <2> PICK kind \in {"prompt", "stop"} : Ask(kind)
    BY <1>2 DEF Asked
  <2> QED
    BY AskGives
<1>3. CASE Attested
  <2> PICK d \in Devices : Attest(d) /\ Last.state = "source_sealed" /\ Last.ver = work[d].hver
    BY <1>3 DEF Attested
  <2> QED
    BY AttestGives
<1>4. CASE Handed
  <2> PICK d \in Devices : Commit(d) /\ MayCommit(work[d].hver)
    BY <1>4 DEF Handed
  <2> QED
    BY <1>4, CommitGives
<1>5. CASE RowsKept
  BY <1>5 DEF RowsKept, ExecKept
<1> QED
  BY <1>1, <1>2, <1>3, <1>4, <1>5, RowsMove, ClaimKeeps

(* The source is sealed by the quiesce of the owner, which holds the lease.  *)
Seals ==
  /\ Stage = "quiesce_requested" /\ Stage' = "source_sealed"
  /\ exec.state = "quiesced" /\ UNCHANGED exec
  /\ \E d \in Devices : work[d].pc = "prepare" /\ exec.runner = Me(d)

\* The last handoff goes its way, one stage after the other.
LEMMA StagesMove ==
  ASSUME IInv, Next
  PROVE  /\ \/ Requested /\ ~Active /\ ~Unsettled /\ exec'.state = "quiesce_requested"
               /\ Stage' = "quiesce_requested"
            \/ Stage' = Stage
            \/ Seals
            \/ Stage = "source_sealed" /\ Stage' = "workspace_prepared"
            \/ Stage = "workspace_prepared" /\ Stage' = "target_verified"
            \/ Handed /\ Stage = "target_verified" /\ Stage' = "lease_transferred"
            \/ Stage = "lease_transferred" /\ Stage' = "restoring"
            \/ Stage = "restoring" /\ Stage' = "running"
         /\ Active => Last'.target = Last.target /\ handoffs' # <<>>
         /\ handoffs # <<>> => handoffs' # <<>>
<1>0. Active => handoffs # <<>>
  BY DEF Active, Stage
<1>1. CASE Requested
  <2> PICK t \in Devices : Request(t)
    BY <1>1 DEF Requested
  <2> QED
    BY <1>1, RequestGives
<1>2. CASE Asked
  <2> PICK kind \in {"prompt", "stop"} : Ask(kind)
    BY <1>2 DEF Asked
  <2>1. UNCHANGED handoffs
    BY AskGives
  <2> QED
    BY <1>0, <2>1 DEF Stage, Last
<1>3. CASE Attested
  <2> PICK d \in Devices : Attest(d) /\ Last.state = "source_sealed" /\ Last.ver = work[d].hver
    BY <1>3 DEF Attested
  <2> QED
    BY AttestGives
<1>4. CASE Handed
  <2> PICK d \in Devices : Commit(d) /\ MayCommit(work[d].hver)
    BY <1>4 DEF Handed
  <2> QED
    BY <1>4, CommitGives
<1>5. CASE RowsKept
  <2>1. HandoffsKept
    BY <1>5 DEF RowsKept
  <2>2. /\ handoffs # <<>> => handoffs' # <<>> /\ Last'.target = Last.target
    BY <2>1, KeptHandoffs
  <2>3. CASE UNCHANGED handoffs
    BY <1>0, <2>3 DEF Stage, Last
  <2>4. CASE ~UNCHANGED handoffs
    <3>1. \E h \in HandoffType :
            /\ handoffs # <<>> /\ SetLast(h) /\ HandoffMoves(h)
            /\ h.source = Last.source /\ h.target = Last.target /\ h.gen = Last.gen
      BY <2>1, <2>4, Zenon DEF HandoffsKept
    <3> PICK h \in HandoffType :
          /\ handoffs # <<>> /\ SetLast(h) /\ HandoffMoves(h)
          /\ h.source = Last.source /\ h.target = Last.target /\ h.gen = Last.gen
      BY <3>1
    <3>2. Stage' = h.state /\ Stage = Last.state
      BY LastMoves
    <3>3. \/ Stage' = Stage
          \/ Seals
          \/ Stage = "workspace_prepared" /\ Stage' = "target_verified"
          \/ Stage = "lease_transferred" /\ Stage' = "restoring"
          \/ Stage = "restoring" /\ Stage' = "running"
      BY <3>2 DEF HandoffMoves, Seals
    <3> QED
      BY <1>0, <2>2, <3>3
  <2> QED
    BY <2>3, <2>4
<1> QED
  BY <1>1, <1>2, <1>3, <1>4, <1>5, RowsMove, ClaimKeeps

(* A lane that is busy after a step works on with its command, or takes one. *)
LaneOn(d) ==
  /\ work[d].pc # "idle" /\ work'[d].cmd = work[d].cmd /\ work'[d].att = work[d].att
  /\ Fits(d, work'[d].pc)
LaneTakes(d) ==
  /\ Claim(d) /\ RowsKept /\ UNCHANGED handoffs /\ exec'.state = exec.state
  /\ \A e \in Devices : e # d => work'[e] = work[e]
  /\ \E c \in DOMAIN cmds :
       /\ Claimable(d, c) /\ work'[d].cmd = c /\ work'[d].pc = Entry(c)
       /\ work'[d].att = cmds[c].attempts + 1 /\ cmds'[c].attempts = cmds[c].attempts + 1
       /\ cmds'[c].state = "dispatching"

\* A busy lane works on, or takes a command.
LEMMA LaneWorks ==
  ASSUME IInv, Next, NEW d \in Devices, work'[d].pc # "idle"
  PROVE  LaneOn(d) \/ LaneTakes(d)
<1>1. CASE LaneKept(d)
  BY <1>1 DEF LaneKept, LaneOn
<1>2. ASSUME NEW e \in Devices, Claim(e)
      PROVE  LaneOn(d) \/ LaneTakes(d)
  <2>0. work \in [Devices -> Lanes(Labels)]
    BY Types
  <2>1. \E c \in DOMAIN cmds :
          /\ Claimable(e, c) /\ cmds'[c].state = "dispatching"
          /\ cmds'[c].attempts = cmds[c].attempts + 1
          /\ work' = [work EXCEPT ![e] = [Idle EXCEPT !.pc = Entry(c), !.cmd = c,
                        !.att = cmds[c].attempts + 1, !.ver = exec.ver]]
    BY <1>2, ClaimKeeps
  <2> PICK c \in DOMAIN cmds :
          /\ Claimable(e, c) /\ cmds'[c].state = "dispatching"
          /\ cmds'[c].attempts = cmds[c].attempts + 1
          /\ work' = [work EXCEPT ![e] = [Idle EXCEPT !.pc = Entry(c), !.cmd = c,
                        !.att = cmds[c].attempts + 1, !.ver = exec.ver]]
    BY <2>1
  <2> DEFINE w == [Idle EXCEPT !.pc = Entry(c), !.cmd = c, !.att = cmds[c].attempts + 1,
                               !.ver = exec.ver]
  <2>2. w.pc = Entry(c) /\ w.cmd = c /\ w.att = cmds[c].attempts + 1
    BY ClaimTakes
  <2>3. work' = [work EXCEPT ![e] = w]
    OBVIOUS
  <2> HIDE DEF w
  <2>4. work'[e] = w /\ \A f \in Devices : f # e => work'[f] = work[f]
    BY <2>0, <2>3
  <2>5. CASE d = e
    <3>1. RowsKept /\ UNCHANGED handoffs /\ exec'.state = exec.state
      BY <1>2, ClaimKeeps
    <3> QED
      BY <1>2, <2>2, <2>4, <2>5, <3>1 DEF LaneTakes
  <2>6. CASE d # e
    BY <2>4, <2>6, SameLaneKept DEF LaneKept, LaneOn
  <2> QED
    BY <2>5, <2>6
<1> QED
  BY <1>1, <1>2, LanesMove

\* The command of a lane that works on is what it was.
LEMMA LaneOnCommand ==
  ASSUME IInv, Next, NEW d \in Devices, LaneOn(d)
  PROVE  /\ work[d].cmd \in DOMAIN cmds /\ work'[d].cmd \in DOMAIN cmds'
         /\ Mine(d) \in CommandType /\ work[d].att <= Mine(d).attempts
         /\ CommandMoves(work[d].cmd, Mine(d)') /\ Mine(d)' \in CommandType
         /\ Mine(d)'.kind = Mine(d).kind /\ Mine(d)'.gen = Mine(d).gen
         /\ Mine(d)'.device = Mine(d).device /\ Mine(d)'.attempts >= Mine(d).attempts
<1>1. work[d].cmd \in DOMAIN cmds /\ work'[d].cmd = work[d].cmd /\ work[d].att <= Mine(d).attempts
  BY DEF LaneOn, IInv, LanesHoldCommands
<1>2. /\ cmds \in Seq(CommandType) /\ cmds' \in Seq(CommandType)
      /\ work[d].cmd \in DOMAIN cmds' /\ CommandMoves(work[d].cmd, cmds'[work[d].cmd])
  BY <1>1, Types, CommandsMove
<1>3. Mine(d) \in CommandType /\ Mine(d)' = cmds'[work[d].cmd] /\ Mine(d)' \in CommandType
  BY <1>1, <1>2, ElementOfSeq, LenProperties DEF Mine
<1> QED
  BY <1>1, <1>2, <1>3 DEF CommandMoves, Mine

\* So is the command a lane takes; the lane is its owner's, or the device it names.
LEMMA LaneTakesCommand ==
  ASSUME IInv, Next, NEW d \in Devices, LaneTakes(d)
  PROVE  \E c \in DOMAIN cmds :
           /\ work'[d].cmd = c /\ c \in DOMAIN cmds' /\ Claimable(d, c)
           /\ work'[d].pc = Entry(c) /\ work'[d].att = cmds[c].attempts + 1
           /\ Entry(c) \in LabelsOf(cmds[c].kind) \ {"prepare", "attest", "verify", "commit",
                             "begin", "write", "bind", "land", "complete", "fail"}
           /\ Mine(d)'.kind = cmds[c].kind /\ Mine(d)'.gen = cmds[c].gen /\ cmds[c].gen = exec.gen
           /\ Mine(d)'.device = cmds[c].device /\ Mine(d)'.attempts = cmds[c].attempts + 1
           /\ Mine(d)'.state = "dispatching" /\ CommandMoves(c, cmds'[c])
           /\ exec'.gen = exec.gen /\ exec'.device = exec.device /\ cmds[c] \in CommandType
<1> PICK c \in DOMAIN cmds :
       /\ Claimable(d, c) /\ work'[d].cmd = c /\ work'[d].pc = Entry(c)
       /\ work'[d].att = cmds[c].attempts + 1 /\ cmds'[c].attempts = cmds[c].attempts + 1
       /\ cmds'[c].state = "dispatching"
  BY Zenon DEF LaneTakes
<1>1. c \in DOMAIN cmds' /\ CommandMoves(c, cmds'[c]) /\ Mine(d)' = cmds'[c]
  BY CommandsMove DEF Mine
<1>2. cmds[c].gen = exec.gen /\ exec'.gen = exec.gen /\ exec'.device = exec.device
  BY DEF Claimable, LaneTakes, RowsKept, ExecKept
<1>3. /\ cmds[c] \in CommandType
      /\ Entry(c) \in LabelsOf(cmds[c].kind) \ {"prepare", "attest", "verify", "commit",
                             "begin", "write", "bind", "land", "complete", "fail"}
  BY ClaimTakes
<1>4. Mine(d)'.kind = cmds[c].kind /\ Mine(d)'.gen = cmds[c].gen /\ Mine(d)'.device = cmds[c].device
  BY <1>1 DEF CommandMoves
<1> QED
  BY <1>1, <1>2, <1>3, <1>4

-----------------------------------------------------------------------------
(* The lanes.                                                                *)

\* Lanes hold commands of their kind.
LEMMA LanesHold ==
  ASSUME IInv, Next
  PROVE  LanesHoldCommands'
<1>1. ASSUME NEW d \in Devices, work'[d].pc # "idle"
      PROVE  /\ work'[d].cmd \in DOMAIN cmds' /\ work'[d].pc \in LabelsOf(Mine(d)'.kind)
             /\ work'[d].att <= Mine(d)'.attempts
             /\ work'[d].pc \in {"prepare", "attest", "verify", "commit", "begin", "write", "bind",
                                 "land"} => handoffs' # <<>>
  <2>1. CASE LaneOn(d)
    <3>1. /\ work'[d].cmd \in DOMAIN cmds' /\ Mine(d)'.kind = Mine(d).kind
          /\ Fits(d, work'[d].pc) /\ work'[d].att = work[d].att
      BY <2>1, LaneOnCommand DEF LaneOn
    <3>2. work'[d].att <= Mine(d)'.attempts
      <4>1. work \in [Devices -> Lanes(Labels)]
        BY Types
      <4>2. /\ work[d].att <= Mine(d).attempts /\ Mine(d)'.attempts >= Mine(d).attempts
            /\ Mine(d) \in CommandType /\ Mine(d)' \in CommandType
        BY <2>1, LaneOnCommand
      <4>3. work[d].att \in Nat /\ Mine(d).attempts \in Nat /\ Mine(d)'.attempts \in Nat
        BY <4>1, <4>2 DEF Lanes, CommandType
      <4> QED
        BY <3>1, <4>2, <4>3
    <3> QED
      BY <3>1, <3>2, StagesMove DEF Fits
  <2>2. CASE LaneTakes(d)
    <3> PICK c \in DOMAIN cmds :
          /\ work'[d].cmd = c /\ c \in DOMAIN cmds'
          /\ work'[d].pc = Entry(c) /\ work'[d].att = cmds[c].attempts + 1
          /\ Entry(c) \in LabelsOf(cmds[c].kind) \ {"prepare", "attest", "verify", "commit",
                            "begin", "write", "bind", "land", "complete", "fail"}
          /\ Mine(d)'.kind = cmds[c].kind /\ Mine(d)'.attempts = cmds[c].attempts + 1
          /\ cmds[c] \in CommandType
      BY <2>2, LaneTakesCommand
    <3>1. work'[d].att <= Mine(d)'.attempts
      BY DEF CommandType
    <3> QED
      BY <3>1
  <2> QED
    BY <1>1, <2>1, <2>2, LaneWorks
<1>2. ASSUME NEW d \in Devices, stopper'[d].pc # "idle"
      PROVE  stopper'[d].cmd \in DOMAIN cmds' /\ cmds'[stopper'[d].cmd].kind = "stop"
  BY <1>2, StoppersMove, CommandsMove DEF CommandMoves
<1>3. ASSUME NEW d \in Devices,
             work'[d].pc \in {"prepare", "attest", "verify", "commit", "begin", "write", "bind", "land"}
      PROVE  handoffs' # <<>>
  BY <1>1, <1>3
<1> QED
  BY <1>1, <1>2, <1>3 DEF LanesHoldCommands, Mine

\* A claim begins a new attempt.
LEMMA AttemptsStayApart ==
  ASSUME IInv, Next
  PROVE  AttemptsDiffer'
<1>1. ASSUME NEW d \in Devices, NEW e \in Devices, d # e, work'[d].pc # "idle",
             work'[e].pc # "idle", work'[d].cmd = work'[e].cmd, LaneTakes(d)
      PROVE  work'[d].att # work'[e].att
  <2> PICK c \in DOMAIN cmds :
        /\ work'[d].cmd = c /\ work'[d].att = cmds[c].attempts + 1 /\ cmds[c] \in CommandType
    BY <1>1, LaneTakesCommand
  <2>1. work'[e] = work[e] /\ work \in [Devices -> Lanes(Labels)]
    BY <1>1, Types DEF LaneTakes
  <2>2. work[e].cmd = c /\ work[e].att <= cmds[c].attempts
    BY <1>1, <2>1 DEF IInv, LanesHoldCommands, Mine
  <2>3. work[e].att \in Nat /\ cmds[c].attempts \in Nat
    BY <2>1 DEF Lanes, CommandType
  <2> QED
    BY <2>1, <2>2, <2>3
<1>2. ASSUME NEW d \in Devices, NEW e \in Devices, d # e, work'[d].pc # "idle",
             work'[e].pc # "idle", work'[d].cmd = work'[e].cmd, LaneOn(d), LaneOn(e)
      PROVE  work'[d].att # work'[e].att
  BY <1>2 DEF LaneOn, IInv, AttemptsDiffer
<1>3. ASSUME NEW d \in Devices, NEW e \in Devices, d # e, work'[d].pc # "idle",
             work'[e].pc # "idle", work'[d].cmd = work'[e].cmd
      PROVE  work'[d].att # work'[e].att
  BY <1>1, <1>2, <1>3, LaneWorks
<1> QED
  BY <1>3 DEF AttemptsDiffer

\* The lease of the execution is its owner's.
LEMMA RunnerStaysOwner ==
  ASSUME IInv, Next
  PROVE  RunnerIsOwner'
BY ExecMoves DEF IInv, RunnerIsOwner

\* The lane that hands over belongs to the target; it only completes or fails then.
LEMMA HandedBy ==
  ASSUME IInv, Next, Handed
  PROVE  /\ \E d \in Devices :
              /\ work[d].pc = "commit" /\ d = Last.target /\ Mine(d).kind = "verify_target"
              /\ Mine(d).gen = exec.gen /\ work'[d].pc \in {"complete", "fail"}
         /\ Stage = "target_verified" /\ handoffs # <<>>
         /\ exec'.gen = exec.gen + 1 /\ exec'.device = Last.target
         /\ exec.gen \in Nat /\ Last'.target = Last.target
<1> PICK d \in Devices : Commit(d) /\ MayCommit(work[d].hver)
  BY DEF Handed
<1>1. work[d].pc = "commit"
  BY DEF Commit
<1>2. Mine(d).kind = "verify_target"
  BY <1>1, KindOfLane
<1>3. Mine(d).gen = exec.gen /\ Last.target = d
  BY <1>1, <1>2 DEF IInv, LanesAreCurrent
<1>4. work'[d].pc \in {"complete", "fail"}
  <2>1. work \in [Devices -> Lanes(Labels)]
    BY Types
  <2>2. To(d, "complete")
    BY DEF Commit
  <2>3. work' = [work EXCEPT ![d] = [work[d] EXCEPT !.pc = "complete"]]
        \/ work' = [work EXCEPT ![d].pc = "fail"]
    BY <2>2 DEF To, Goes
  <2> QED
    BY <2>1, <2>3 DEF Lanes
<1>5. exec.gen \in Nat
  BY Types, HandoffAssumption DEF ExecType, Gens
<1> QED
  BY <1>1, <1>2, <1>3, <1>4, <1>5, CommitGives

\* Lanes work for the owner, or verify for the handoff that is not transferred.
LEMMA LanesStayCurrent ==
  ASSUME IInv, Next
  PROVE  LanesAreCurrent'
<1>1. ASSUME NEW d \in Devices, work'[d].pc # "idle", Mine(d)'.kind # "verify_target",
             Mine(d)'.gen = exec'.gen
      PROVE  exec'.device = d
  <2>1. CASE LaneOn(d)
    <3>1. /\ work[d].pc # "idle" /\ Mine(d).kind # "verify_target" /\ Mine(d).gen = exec'.gen
          /\ work[d].cmd \in DOMAIN cmds
      BY <1>1, <2>1, LaneOnCommand DEF LaneOn
    <3>2. CASE Handed
      <4>1. Mine(d).gen <= exec.gen /\ exec'.gen = exec.gen + 1 /\ exec.gen \in Nat
        BY <3>1, <3>2, HandedBy DEF Mine, IInv, CommandsFit
      <4> QED
        BY <3>1, <4>1
    <3>3. CASE ~Handed
      BY <3>1, <3>3, ExecMoves DEF IInv, LanesAreCurrent
    <3> QED
      BY <3>2, <3>3
  <2>2. CASE LaneTakes(d)
    <3> PICK c \in DOMAIN cmds :
          /\ Claimable(d, c) /\ Mine(d)'.kind = cmds[c].kind /\ cmds[c].gen = exec.gen
          /\ exec'.device = exec.device /\ cmds[c] \in CommandType
      BY <2>2, LaneTakesCommand
    <3>1. cmds[c].kind # "stop" /\ cmds[c].kind # "verify_target"
          /\ (IF cmds[c].device = None THEN exec.device = d ELSE cmds[c].device = d)
      BY <1>1 DEF Claimable
    <3>2. cmds[c].device \in {None, exec.device}
      BY <3>1 DEF CommandType, IInv, CommandsFit
    <3> QED
      BY <3>1, <3>2
  <2> QED
    BY <1>1, <2>1, <2>2, LaneWorks
<1>2. ASSUME NEW d \in Devices, work'[d].pc # "idle", Mine(d)'.kind = "verify_target",
             work'[d].pc \notin {"complete", "fail"}
      PROVE  Mine(d)'.gen = exec'.gen /\ Last'.target = d
  <2>1. CASE LaneOn(d)
    <3>1. /\ work[d].pc # "idle" /\ Mine(d).kind = "verify_target" /\ Mine(d)'.gen = Mine(d).gen
          /\ work[d].cmd \in DOMAIN cmds /\ work[d].pc \notin {"complete", "fail"}
      BY <1>2, <2>1, LaneOnCommand DEF LaneOn, Fits
    <3>2. Mine(d).gen = exec.gen /\ Last.target = d
      BY <3>1 DEF IInv, LanesAreCurrent
    <3>3. ~Handed
      BY <1>2, <3>2, HandedBy
    <3>4. Stage \in Verifying
      BY <3>1, <3>2 DEF Mine, IInv, CommandsFit
    <3> QED
      BY <3>1, <3>2, <3>3, <3>4, ExecMoves, StagesMove DEF Active, Verifying
  <2>2. CASE LaneTakes(d)
    <3> PICK c \in DOMAIN cmds :
          /\ Claimable(d, c) /\ Mine(d)'.kind = cmds[c].kind /\ Mine(d)'.gen = cmds[c].gen
          /\ cmds[c].gen = exec.gen /\ exec'.gen = exec.gen /\ cmds[c] \in CommandType
      BY <2>2, LaneTakesCommand
    <3>1. Stage \in Verifying /\ cmds[c].device = Last.target
      BY <1>2 DEF IInv, CommandsFit
    <3>2. handoffs # <<>>
      BY <3>1 DEF Stage, Verifying
    <3>3. Last.target \in Devices
      BY <3>2, LastHandoff DEF HandoffType
    <3>4. Last.target = d
      BY <3>1, <3>3, HandoffAssumption DEF Claimable
    <3>5. Last' = Last
      BY <2>2 DEF LaneTakes, Last
    <3> QED
      BY <3>4, <3>5
  <2> QED
    BY <1>2, <2>1, <2>2, LaneWorks
<1>3. LanesAreCurrent' <=> \A d \in Devices : work'[d].pc # "idle" =>
         /\ Mine(d)'.kind # "verify_target" /\ Mine(d)'.gen = exec'.gen => exec'.device = d
         /\ Mine(d)'.kind = "verify_target" /\ work'[d].pc \notin {"complete", "fail"} =>
              Mine(d)'.gen = exec'.gen /\ Last'.target = d
  BY DEF LanesAreCurrent
<1> QED
  BY <1>1, <1>2, <1>3

-----------------------------------------------------------------------------
(* The commands.                                                             *)

\* What a command is typed as.
LEMMA CommandTyped ==
  ASSUME IInv, NEW c \in DOMAIN cmds
  PROVE  cmds[c] \in CommandType /\ c \in Nat /\ cmds[c].gen \in Nat /\ cmds[c].gen <= exec.gen
         /\ exec.gen \in Nat
<1>1. cmds[c] \in CommandType /\ c \in Nat
  BY Types, ElementOfSeq, LenProperties
<1>2. exec.gen \in Nat /\ cmds[c].gen \in Nat
  <2>1. exec.gen \in Gens /\ cmds[c].gen \in Gens
    BY <1>1, Types DEF ExecType, CommandType
  <2> QED
    BY <2>1, HandoffAssumption DEF Gens
<1> QED
  BY <1>1, <1>2 DEF IInv, CommandsFit

\* Commands fit the execution and the handoff they were given for.
LEMMA CommandsStayFit ==
  ASSUME IInv, Next
  PROVE  CommandsFit'
<1> DEFINE Good(r) ==
      /\ r.gen <= exec'.gen
      /\ r.kind \in {"prompt", "stop"} => r.state # "blocked"
      /\ r.kind \in {"prompt", "stop", "quiesce"} => r.device = None
      /\ r.kind = "restore" /\ r.gen = exec'.gen => r.device = exec'.device
      /\ r.kind = "verify_target" /\ r.gen = exec'.gen =>
           Stage' \in Verifying /\ r.device = Last'.target
<1>1. ASSUME NEW c \in DOMAIN cmds PROVE Good(cmds'[c])
  <2>1. /\ cmds'[c].kind = cmds[c].kind /\ cmds'[c].gen = cmds[c].gen
        /\ cmds'[c].device = cmds[c].device
        /\ cmds[c].kind \in {"prompt", "stop"} => cmds'[c].state # "blocked"
    BY CommandsMove DEF CommandMoves
  <2>2. cmds[c].gen \in Nat /\ exec.gen \in Nat /\ cmds[c].gen <= exec.gen
    BY CommandTyped
  <2>3. cmds[c].kind \in {"prompt", "stop", "quiesce"} => cmds[c].device = None
    BY DEF IInv, CommandsFit
  <2>4. CASE Handed
    <3>1. cmds[c].gen <= exec'.gen /\ cmds[c].gen # exec'.gen
      BY <2>2, <2>4, HandedBy
    <3> QED
      BY <2>1, <2>3, <3>1
  <2>5. CASE ~Handed
    <3>1. exec'.gen = exec.gen /\ exec'.device = exec.device
      BY <2>5, ExecMoves
    <3>2. cmds[c].kind = "restore" /\ cmds[c].gen = exec.gen => cmds[c].device = exec.device
      BY DEF IInv, CommandsFit
    <3>3. ASSUME cmds[c].kind = "verify_target", cmds[c].gen = exec.gen
          PROVE  Stage' \in Verifying /\ cmds[c].device = Last'.target
      <4>1. Stage \in Verifying /\ cmds[c].device = Last.target
        BY <3>3 DEF IInv, CommandsFit
      <4> QED
        BY <2>5, <4>1, StagesMove DEF Active, Verifying, Seals
    <3> QED
      BY <2>1, <2>2, <2>3, <3>1, <3>2, <3>3
  <2> QED
    BY <2>4, <2>5
<1>2. ASSUME NEW c \in DOMAIN cmds' \ DOMAIN cmds PROVE Good(cmds'[c])
  <2>0. CommandComes(c) /\ exec.gen \in Nat
    BY <1>2, CommandsMove, Types, HandoffAssumption DEF ExecType, Gens
  <2>1. CASE ~Handed /\ cmds'[c].kind \in {"quiesce", "prompt", "stop"}
    BY <2>0, <2>1, ExecMoves DEF CommandComes
  <2>2. CASE ~Handed /\ Attested /\ cmds'[c].kind = "verify_target" /\ cmds'[c].gen = exec.gen
               /\ cmds'[c].device = Last.target
    <3> PICK d \in Devices : Attest(d) /\ Last.state = "source_sealed" /\ Last.ver = work[d].hver
      BY <2>2 DEF Attested
    <3>1. Stage' = "workspace_prepared" /\ Last'.target = Last.target
      BY AttestGives
    <3>2. exec'.gen = exec.gen
      BY <2>2, ExecMoves
    <3> QED
      BY <2>0, <2>2, <3>1, <3>2 DEF Verifying
  <2>3. CASE Handed
    <3> PICK d \in Devices : Commit(d) /\ MayCommit(work[d].hver)
      BY <2>3 DEF Handed
    <3>1. /\ Insert("restore", exec.gen + 1, Last.target) /\ exec'.gen = exec.gen + 1
          /\ exec'.device = Last.target /\ exec.gen + 1 \in Gens /\ Last.target \in Devices
      BY CommitGives DEF HandoffType
    <3>2. /\ cmds'[c].kind = "restore" /\ cmds'[c].gen = exec.gen + 1
          /\ cmds'[c].device = Last.target
      BY <1>2, <3>1, InsertGives
    <3> QED
      BY <2>0, <3>1, <3>2
  <2> QED
    BY <2>0, <2>1, <2>2, <2>3 DEF CommandComes
<1>3. \A c \in DOMAIN cmds' : Good(cmds'[c])
  BY <1>1, <1>2
<1> QED
  BY <1>3 DEF CommandsFit

\* A prompt that is run is held.
LEMMA PromptsStayHeld ==
  ASSUME IInv, Next
  PROVE  PromptsAreHeld'
<1>1. ASSUME NEW d \in Devices, work'[d].pc \in {"open", "turn"}, Mine(d)'.kind = "prompt"
      PROVE  exec'.device = d /\ Mine(d)'.state = "dispatching"
             /\ Mine(d)'.attempts = work'[d].att
  <2>1. CASE LaneOn(d)
    <3> DEFINE c == work[d].cmd
    <3>1. /\ work[d].pc \in {"open", "turn"} /\ Mine(d).kind = "prompt" /\ c \in DOMAIN cmds
          /\ CommandMoves(c, Mine(d)') /\ work'[d].att = work[d].att
      BY <1>1, <2>1, LaneOnCommand DEF LaneOn, Fits
    <3>2. exec.device = d /\ cmds[c].state = "dispatching" /\ cmds[c].attempts = work[d].att
      BY <3>1 DEF IInv, PromptsAreHeld, Holds
    <3>3. ~Handed
      <4>1. Stage = "target_verified" => cmds[c].state \in Settled
        BY <3>1 DEF IInv, PromptsAreSettled, Before, Mine
      <4> QED
        BY <3>2, <4>1, HandedBy DEF Settled
    <3>4. ASSUME NEW e \in Devices, work[e].pc \in {"complete", "fail"}, work[e].cmd = c,
                 work[e].att = cmds[c].attempts
          PROVE  FALSE
      BY <3>1, <3>2, <3>4 DEF IInv, AttemptsDiffer
    <3>5. Mine(d)'.state = "dispatching" /\ Mine(d)'.attempts = cmds[c].attempts
      BY <3>1, <3>2, <3>4 DEF CommandMoves, Mine
    <3> QED
      BY <3>1, <3>2, <3>3, <3>5, ExecMoves
  <2>2. CASE LaneTakes(d)
    <3> PICK c \in DOMAIN cmds :
          /\ Claimable(d, c) /\ work'[d].att = cmds[c].attempts + 1
          /\ Mine(d)'.kind = cmds[c].kind /\ Mine(d)'.attempts = cmds[c].attempts + 1
          /\ Mine(d)'.state = "dispatching" /\ exec'.device = exec.device
      BY <2>2, LaneTakesCommand
    <3>1. cmds[c].device = None
      BY <1>1 DEF IInv, CommandsFit
    <3>2. exec.device = d
      BY <3>1 DEF Claimable
    <3> QED
      BY <3>2
  <2> QED
    BY <1>1, <2>1, <2>2, LaneWorks
<1>2. ASSUME NEW d \in Devices, work'[d].pc \in {"open", "turn"}, Mine(d)'.kind = "prompt"
      PROVE  exec'.device = d /\ Holds(work[d])'
  BY <1>1, <1>2 DEF Holds, Mine
<1> QED
  BY <1>2 DEF PromptsAreHeld

\* No prompt is open while a handoff is before its transfer.
LEMMA PromptsStaySettled ==
  ASSUME IInv, Next
  PROVE  PromptsAreSettled'
<1> SUFFICES ASSUME Stage' \in Before
             PROVE  /\ exec'.state # "running"
                    /\ \A c \in DOMAIN cmds' : cmds'[c].kind = "prompt" => cmds'[c].state \in Settled
  BY DEF PromptsAreSettled
<1>1. CASE Requested /\ ~Active /\ ~Unsettled /\ exec'.state = "quiesce_requested"
  <2>1. ASSUME NEW c \in DOMAIN cmds, cmds'[c].kind = "prompt" PROVE cmds'[c].state \in Settled
    <3>1. CommandMoves(c, cmds'[c]) /\ cmds[c] \in CommandType
      BY CommandsMove, CommandTyped
    <3>2. cmds[c].kind = "prompt"
      BY <2>1, <3>1 DEF CommandMoves
    <3>3. cmds[c].state \notin {"queued", "dispatching", "indeterminate", "blocked"}
      BY <1>1, <3>2 DEF Unsettled, IInv, CommandsFit
    <3>4. cmds[c].state \in Settled
      BY <3>1, <3>3 DEF CommandType, Settled
    <3> QED
      BY <3>1, <3>4 DEF CommandMoves
  <2>2. ASSUME NEW c \in DOMAIN cmds' \ DOMAIN cmds PROVE cmds'[c].kind # "prompt"
    <3> PICK t \in Devices : Request(t)
      BY <1>1 DEF Requested
    <3>1. Insert("quiesce", exec.gen, None) /\ exec.gen \in Gens
      BY RequestGives, Types DEF ExecType
    <3> QED
      BY <2>2, <3>1, InsertGives
  <2> QED
    BY <1>1, <2>1, <2>2
<1>2. CASE Stage \in Before /\ ~Handed
  <2>0. /\ exec.state # "running"
        /\ \A c \in DOMAIN cmds : cmds[c].kind = "prompt" => cmds[c].state \in Settled
    BY <1>2 DEF IInv, PromptsAreSettled
  <2>1. exec'.state # "running"
    BY <1>2, <2>0, ExecMoves DEF Before
  <2>2. ASSUME NEW c \in DOMAIN cmds, cmds'[c].kind = "prompt" PROVE cmds'[c].state \in Settled
    BY <2>0, <2>2, CommandsMove DEF CommandMoves
  <2>3. ASSUME NEW c \in DOMAIN cmds' \ DOMAIN cmds PROVE cmds'[c].kind # "prompt"
    BY <2>0, <2>3, CommandsMove DEF CommandComes
  <2> QED
    BY <2>1, <2>2, <2>3
<1>3. Handed => Stage' = "lease_transferred"
  <2> SUFFICES ASSUME Handed PROVE Stage' = "lease_transferred"
    OBVIOUS
  <2> PICK d \in Devices : Commit(d) /\ MayCommit(work[d].hver)
    BY DEF Handed
  <2> QED
    BY CommitGives
<1> QED
  BY <1>1, <1>2, <1>3, StagesMove DEF Before, Seals

-----------------------------------------------------------------------------
(* What is open when a handoff is sealed, verified and transferred.          *)

\* The transfer takes the handoff out of the stages before it.
LEMMA HandedStage ==
  ASSUME IInv, Handed
  PROVE  Stage' = "lease_transferred"
<1> PICK d \in Devices : Commit(d) /\ MayCommit(work[d].hver)
  BY DEF Handed
<1> QED
  BY CommitGives

\* A sealed source is closed: nothing can bring it back to asking.
LEMMA SealedStaysClosed ==
  ASSUME IInv, Next
  PROVE  SealedIsClosed'
<1> SUFFICES ASSUME Stage' \in Before \ {"quiesce_requested"}
             PROVE  /\ exec'.state \notin {"running", "reconciling"}
                    /\ \A d \in Devices :
                         work'[d].pc # "idle" /\ Mine(d)'.kind = "prompt" => Mine(d)'.gen # exec'.gen
  BY DEF SealedIsClosed
<1>0. /\ ~Handed /\ exec'.gen = exec.gen /\ exec'.device = exec.device
      /\ Stage \in Before /\ (Stage \in Before \ {"quiesce_requested"} \/ Seals)
  BY HandedStage, ExecMoves, StagesMove DEF Before, Seals
<1>1. \A c \in DOMAIN cmds : cmds[c].kind = "prompt" => cmds[c].state \in Settled
  BY <1>0 DEF IInv, PromptsAreSettled
<1>2. ASSUME NEW d \in Devices, LaneTakes(d) PROVE Mine(d)'.kind # "prompt"
  <2> PICK c \in DOMAIN cmds : Claimable(d, c) /\ Mine(d)'.kind = cmds[c].kind
    BY <1>2, LaneTakesCommand
  <2> QED
    BY <1>1 DEF Claimable, Settled
<1>3. ASSUME NEW d \in Devices, LaneOn(d)
      PROVE  work[d].pc # "idle" /\ Mine(d)'.kind = Mine(d).kind /\ Mine(d)'.gen = Mine(d).gen
  BY <1>3, LaneOnCommand DEF LaneOn
<1>4. CASE Stage \in Before \ {"quiesce_requested"}
  <2>1. /\ exec.state \notin {"running", "reconciling"}
        /\ \A d \in Devices :
             work[d].pc # "idle" /\ Mine(d).kind = "prompt" => Mine(d).gen # exec.gen
    BY <1>4 DEF IInv, SealedIsClosed
  <2>2. ASSUME NEW d \in Devices, work[d].pc = "set", Mine(d).gen = exec.gen
        PROVE  Mine(d).kind # "prompt"
    BY <2>1, <2>2
  <2>3. exec'.state \notin {"running", "reconciling"}
    BY <1>0, <2>1, <2>2, ExecMoves DEF Before
  <2> QED
    BY <1>0, <1>2, <1>3, <2>1, <2>3, LaneWorks
<1>5. CASE Seals
  <2> PICK e \in Devices : work[e].pc = "prepare" /\ exec.runner = Me(e)
    BY <1>5 DEF Seals
  <2>1. e = exec.device /\ Mine(e).kind = "quiesce"
    BY KindOfLane, MeIsRunner DEF IInv, RunnerIsOwner
  <2>2. ASSUME NEW d \in Devices, work[d].pc # "idle", Mine(d).kind = "prompt", Mine(d).gen = exec.gen
        PROVE  FALSE
    <3>1. exec.device = d
      BY <2>2 DEF IInv, LanesAreCurrent
    <3> QED
      BY <2>1, <2>2, <3>1
  <2>3. exec'.state = "quiesced"
    BY <1>5 DEF Seals
  <2> QED
    BY <1>0, <1>2, <1>3, <2>2, <2>3, LaneWorks
<1> QED
  BY <1>0, <1>4, <1>5

\* While a verification waits or runs, no prompt and no stop is asked.
LEMMA NothingIsAsked ==
  ASSUME IInv, Next, NEW v \in DOMAIN cmds, cmds[v].kind = "verify_target", cmds[v].gen = exec.gen
  PROVE  \A c \in DOMAIN cmds' \ DOMAIN cmds : cmds'[c].kind \notin {"prompt", "stop"}
<1>1. Stage \in Verifying
  BY DEF IInv, CommandsFit
<1>2. exec.state \notin {"running", "reconciling"}
  BY <1>1 DEF Verifying, Before, IInv, SealedIsClosed
<1> QED
  BY <1>2, CommandsMove DEF CommandComes

\* Stops stay ahead of the verification.
LEMMA StopsStayFirst ==
  ASSUME IInv, Next
  PROVE  StopsComeFirst'
<1> SUFFICES ASSUME NEW v \in DOMAIN cmds', NEW s \in DOMAIN cmds',
                    cmds'[v].kind = "verify_target", cmds'[s].kind = "stop",
                    cmds'[v].gen = exec'.gen, cmds'[s].gen = exec'.gen
             PROVE  s < v
  BY DEF StopsComeFirst
<1>1. \A c \in DOMAIN cmds : cmds'[c].kind = cmds[c].kind /\ cmds'[c].gen = cmds[c].gen
  BY CommandsMove DEF CommandMoves
<1>2. CASE v \notin DOMAIN cmds
  <2>1. CommandComes(v)
    BY <1>2, CommandsMove
  <2>2. CASE s \in DOMAIN cmds
    BY <2>1, <2>2 DEF CommandComes
  <2>3. CASE s \notin DOMAIN cmds
    <3>1. PICK kind, gen, device : Insert(kind, gen, device)
      BY <2>1 DEF CommandComes, Requested, Request, Asked, Ask, Attested, Attest, Handed, Commit
    <3>2. cmds' = Append(cmds, Command(kind, gen, device))
      BY <3>1 DEF Insert
    <3>3. v = Len(cmds) + 1 /\ s = Len(cmds) + 1
      BY <1>2, <2>3, <3>2, Types, AppendProperties, LenProperties
    <3> QED
      BY <3>3
  <2> QED
    BY <2>2, <2>3
<1>3. CASE v \in DOMAIN cmds
  <2>1. ~Handed
    <3>1. cmds[v].gen <= exec.gen /\ cmds[v].gen \in Nat /\ exec.gen \in Nat
      BY <1>3, CommandTyped
    <3> QED
      BY <1>1, <1>3, <3>1, HandedBy
  <2>2. exec'.gen = exec.gen
    BY <2>1, ExecMoves
  <2>3. s \in DOMAIN cmds
    BY <1>1, <1>3, <2>2, NothingIsAsked
  <2> QED
    BY <1>1, <1>3, <2>2, <2>3 DEF IInv, StopsComeFirst
<1> QED
  BY <1>2, <1>3

\* A lane that verifies has found the stops settled, and they stay so.
LEMMA VerifierFinds ==
  ASSUME IInv, Next
  PROVE  VerifierFoundThemSettled'
<1> SUFFICES ASSUME NEW d \in Devices, NEW s \in DOMAIN cmds', work'[d].pc # "idle",
                    Mine(d)'.kind = "verify_target", Mine(d)'.gen = exec'.gen,
                    cmds'[s].kind = "stop", cmds'[s].gen = exec'.gen
             PROVE  cmds'[s].state \in Settled
  BY DEF VerifierFoundThemSettled
<1>1. \A c \in DOMAIN cmds : /\ cmds'[c].kind = cmds[c].kind /\ cmds'[c].gen = cmds[c].gen
                             /\ cmds[c].state \in Settled => cmds'[c].state \in Settled
  BY CommandsMove DEF CommandMoves
<1>2. CASE LaneOn(d)
  <2>1. /\ work[d].cmd \in DOMAIN cmds /\ work[d].pc # "idle"
        /\ Mine(d).kind = "verify_target" /\ Mine(d).gen = exec'.gen
    BY <1>2, LaneOnCommand DEF LaneOn
  <2>2. ~Handed
    <3>1. Mine(d).gen <= exec.gen /\ Mine(d).gen \in Nat /\ exec.gen \in Nat
      BY <2>1, CommandTyped DEF Mine
    <3> QED
      BY <2>1, <3>1, HandedBy
  <2>3. exec'.gen = exec.gen
    BY <2>2, ExecMoves
  <2>4. s \in DOMAIN cmds
    BY <2>1, <2>3, NothingIsAsked DEF Mine
  <2>5. cmds[s].state \in Settled
    BY <1>1, <2>1, <2>3, <2>4 DEF IInv, VerifierFoundThemSettled
  <2> QED
    BY <1>1, <2>4, <2>5
<1>3. CASE LaneTakes(d)
  <2> PICK c \in DOMAIN cmds :
        /\ Claimable(d, c) /\ Mine(d)'.kind = cmds[c].kind /\ cmds[c].gen = exec.gen
        /\ exec'.gen = exec.gen
    BY <1>3, LaneTakesCommand
  <2>1. s \in DOMAIN cmds
    BY NothingIsAsked
  <2>2. s < c /\ s \in Nat /\ c \in Nat /\ s >= 1
    <3>1. s \in 1..Len(cmds) /\ c \in 1..Len(cmds) /\ Len(cmds) \in Nat
      BY <2>1, Types, LenProperties
    <3>2. s < c
      BY <1>1, <2>1 DEF IInv, StopsComeFirst
    <3> QED
      BY <3>1, <3>2
  <2>3. cmds[s].state \in Settled
    <3>1. s \in 1..(c - 1)
      BY <2>2
    <3> QED
      BY <1>1, <2>1, <3>1 DEF Claimable
  <2> QED
    BY <1>1, <2>1, <2>3
<1> QED
  BY <1>2, <1>3, LaneWorks

\* A generation leaves nothing behind.
LEMMA NothingStaysBehind ==
  ASSUME IInv, Next
  PROVE  NothingLeftBehind'
<1> SUFFICES ASSUME NEW c \in DOMAIN cmds', cmds'[c].kind \in {"prompt", "stop"},
                    cmds'[c].gen < exec'.gen
             PROVE  cmds'[c].state \in Settled
  BY DEF NothingLeftBehind
<1>1. CASE c \notin DOMAIN cmds
  <2>1. CommandComes(c) /\ exec.gen \in Nat
    BY <1>1, CommandsMove, Types, HandoffAssumption DEF ExecType, Gens
  <2>2. Asked /\ cmds'[c].gen = exec.gen
    BY <2>1 DEF CommandComes
  <2> PICK kind \in {"prompt", "stop"} : Ask(kind)
    BY <2>2 DEF Asked
  <2>3. exec'.gen = exec.gen
    BY AskGives
  <2> QED
    BY <2>1, <2>2, <2>3
<1>2. CASE c \in DOMAIN cmds
  <2>1. /\ cmds'[c].kind = cmds[c].kind /\ cmds'[c].gen = cmds[c].gen
        /\ cmds[c].state \in Settled => cmds'[c].state \in Settled
    BY <1>2, CommandsMove DEF CommandMoves
  <2>2. cmds[c].gen \in Nat /\ exec.gen \in Nat /\ cmds[c].gen <= exec.gen
    BY <1>2, CommandTyped
  <2>3. CASE cmds[c].gen < exec.gen
    BY <1>2, <2>1, <2>3 DEF IInv, NothingLeftBehind
  <2>4. CASE cmds[c].gen = exec.gen /\ Handed
    <3>1. Stage = "target_verified"
      BY <2>4, HandedBy
    <3> PICK d \in Devices :
          /\ work[d].pc = "commit" /\ Mine(d).kind = "verify_target" /\ Mine(d).gen = exec.gen
      BY <2>4, HandedBy
    <3>2. CASE cmds[c].kind = "prompt"
      BY <1>2, <2>1, <3>1, <3>2 DEF IInv, PromptsAreSettled, Before
    <3>3. CASE cmds[c].kind = "stop"
      BY <1>2, <2>1, <2>4, <3>3 DEF IInv, VerifierFoundThemSettled
    <3> QED
      BY <2>1, <3>2, <3>3
  <2> QED
    BY <2>1, <2>2, <2>3, <2>4, ExecMoves
<1> QED
  BY <1>1, <1>2

\* A lane that gives a prompt to the provider is the first and the only one to.
LEMMA OpenedFirst ==
  ASSUME IInv, NEW d \in Devices, Open(d), Mine(d).kind = "prompt"
  PROVE  /\ exec.device = d /\ Mine(d).state = "dispatching" /\ Mine(d).turns = 0
         /\ work[d].pc = "open" /\ work'[d].pc \in {"turn", "fail"}
<1>1. work[d].pc = "open" /\ To(d, "turn")
  BY DEF Open
<1>2. work \in [Devices -> Lanes(Labels)]
  BY Types
<1>3. work'[d].pc \in {"turn", "fail"}
  BY <1>1, <1>2 DEF To, Goes, Lanes
<1> QED
  BY <1>1, <1>3 DEF IInv, PromptsAreHeld, TurnsComeOnce, Holds, Mine

\* A command that moves has been given to the provider as often as before, or for
\* the first time, by the one lane that held it and has left the step.
LEMMA TurnsMove ==
  ASSUME IInv, NEW c \in DOMAIN cmds, NEW q, CommandMoves(c, q)
  PROVE  \/ q.turns = cmds[c].turns
         \/ /\ cmds[c].kind = "prompt" /\ cmds[c].turns = 0 /\ q.turns = 1
            /\ cmds[c].state = "dispatching" /\ q.state = "dispatching"
            /\ work[exec.device].pc = "open" /\ work'[exec.device].pc \in {"turn", "fail"}
<1> SUFFICES ASSUME q.turns # cmds[c].turns
             PROVE  /\ cmds[c].kind = "prompt" /\ cmds[c].turns = 0 /\ q.turns = 1
                    /\ cmds[c].state = "dispatching" /\ q.state = "dispatching"
                    /\ work[exec.device].pc = "open" /\ work'[exec.device].pc \in {"turn", "fail"}
  OBVIOUS
<1>1. q.turns = cmds[c].turns + 1 /\ cmds[c].kind = "prompt" /\ q.state = cmds[c].state
  BY DEF CommandMoves
<1> PICK d \in Devices : Open(d) /\ work[d].cmd = c
  BY DEF CommandMoves
<1>2. /\ exec.device = d /\ cmds[c].state = "dispatching" /\ cmds[c].turns = 0
      /\ work[d].pc = "open" /\ work'[d].pc \in {"turn", "fail"}
  BY <1>1, OpenedFirst DEF Mine
<1> QED
  BY <1>1, <1>2

\* Every step gives a prompt to the provider at most once.
LEMMA TurnsStayFew ==
  ASSUME IInv, Next
  PROVE  TurnsComeOnce' /\ TurnsAreTakenOnce'
<1>1. ASSUME NEW c \in DOMAIN cmds' PROVE cmds'[c].turns <= 1
  <2>1. CASE c \in DOMAIN cmds
    <3>1. CommandMoves(c, cmds'[c])
      BY <2>1, CommandsMove
    <3> QED
      BY <2>1, <3>1, TurnsMove DEF IInv, TurnsAreTakenOnce
  <2>2. CASE c \notin DOMAIN cmds
    BY <1>1, <2>2, CommandsMove DEF CommandComes
  <2> QED
    BY <2>1, <2>2
<1>2. ASSUME NEW c \in DOMAIN cmds', cmds'[c].kind = "prompt", cmds'[c].state = "queued"
      PROVE  cmds'[c].turns = 0 \/ cmds'[c].pending
  <2>1. CASE c \in DOMAIN cmds
    <3>1. CommandMoves(c, cmds'[c])
      BY <2>1, CommandsMove
    <3>2. cmds'[c].turns = cmds[c].turns
      BY <1>2, <2>1, <3>1, TurnsMove
    <3> QED
      BY <1>2, <2>1, <3>1, <3>2 DEF CommandMoves, IInv, TurnsComeOnce
  <2>2. CASE c \notin DOMAIN cmds
    BY <1>2, <2>2, CommandsMove DEF CommandComes
  <2> QED
    BY <2>1, <2>2
<1>3. ASSUME NEW d \in Devices, work'[d].pc = "open", Mine(d)'.kind = "prompt"
      PROVE  Mine(d)'.turns = 0
  <2>1. CASE LaneOn(d)
    <3> DEFINE c == work[d].cmd
    <3>1. /\ c \in DOMAIN cmds /\ CommandMoves(c, Mine(d)') /\ Mine(d).kind = "prompt"
          /\ work[d].pc = "open"
      BY <1>3, <2>1, LaneOnCommand DEF LaneOn, Fits
    <3>2. cmds[c].turns = 0 /\ exec.device = d
      BY <3>1 DEF IInv, PromptsAreHeld, TurnsComeOnce, Mine
    <3> HIDE DEF c
    <3> QED
      BY <1>3, <3>1, <3>2, TurnsMove
  <2>2. CASE LaneTakes(d)
    <3> PICK c \in DOMAIN cmds :
          /\ Claimable(d, c) /\ work'[d].pc = Entry(c) /\ work'[d].cmd = c
          /\ Mine(d)'.kind = cmds[c].kind /\ CommandMoves(c, cmds'[c])
      BY <2>2, LaneTakesCommand
    <3>1. cmds[c].kind = "prompt" /\ cmds[c].state = "queued" /\ ~cmds[c].pending
      BY <1>3 DEF Claimable, Entry
    <3>2. cmds[c].turns = 0
      BY <3>1 DEF IInv, TurnsComeOnce
    <3>3. cmds'[c].turns = cmds[c].turns
      BY <3>1, TurnsMove
    <3> QED
      BY <3>2, <3>3 DEF Mine
  <2> QED
    BY <1>3, <2>1, <2>2, LaneWorks
<1> QED
  BY <1>1, <1>2, <1>3 DEF TurnsComeOnce, TurnsAreTakenOnce, Mine

-----------------------------------------------------------------------------
(* The inductive invariant.                                                  *)

\* The Conversation starts at home with nothing asked of it.
LEMMA InitHolds ==
  ASSUME Init
  PROVE  IInv
<1> USE HandoffAssumption
<1>1. 1 \in Gens /\ <<Home, 1>> \in Runners /\ Home \in Devices
  BY DEF Gens, Runners
<1>2. handoffs = <<>> /\ cmds = <<>> /\ Len(handoffs) = 0 /\ Stage = "none"
      /\ DOMAIN handoffs = {} /\ DOMAIN cmds = {}
  BY DEF Init, Stage
<1>3. /\ exec.state = "running" /\ exec.gen = 1 /\ exec.device = Home
      /\ exec.runner = <<Home, 1>> /\ log.head = 0 /\ log.highest = 0
  BY DEF Init
<1>4. \A d \in Devices : work[d].pc = "idle" /\ stopper[d].pc = "idle"
  BY DEF Init, Idle
<1>5. TypeOK
  <2>1. /\ exec \in ExecType /\ log \in [head : 0..MaxHandoffs, highest : {0} \cup Gens]
        /\ asks \in 0..MaxAsks /\ faults \in 0..MaxFaults
        /\ copy \in [Gens -> {"none", "written", "bound"}]
    BY <1>1 DEF Init, ExecType, States
  <2>2. handoffs \in Seq(HandoffType) /\ cmds \in Seq(CommandType)
    BY <1>2
  <2>3. life \in [Devices -> 1..(MaxFaults + 1)] /\ up \in [Devices -> BOOLEAN]
        /\ session \in [Devices -> {0} \cup Gens]
    BY <1>1 DEF Init
  <2>4. /\ work \in [Devices -> Lanes(Labels)] /\ stopper \in [Devices -> Lanes(StopLabels)]
        /\ recovery \in [Devices -> [pc : {"done", "due", "acquire", "start"}, gen : {0} \cup Gens]]
    BY DEF Init, Idle, Lanes, Labels, StopLabels
  <2> QED
    BY <2>1, <2>2, <2>3, <2>4 DEF TypeOK, ExecType, HandoffType, CommandType
<1>6. OwnershipFollowsLog /\ HandoffsFollow
  BY <1>2, <1>3 DEF OwnershipFollowsLog, HandoffsFollow, Owner
<1>7. LivesAreFaults
  <2>1. ASSUME NEW d \in Devices
        PROVE  life[d] = 1 /\ faults = 0 /\ (IF up[d] THEN 0 ELSE 1) = 0
    <3>1. up[d]
      BY <2>1 DEF Init
    <3> QED
      BY <2>1, <3>1 DEF Init
  <2>2. ASSUME NEW d \in Devices
        PROVE  life[d] + (IF up[d] THEN 0 ELSE 1) <= faults + 1
    BY <2>1
  <2> QED
    BY <2>2, Zenon DEF LivesAreFaults
<1>8. LanesHoldCommands /\ AttemptsDiffer /\ LanesAreCurrent /\ PromptsAreHeld
      /\ VerifierFoundThemSettled
  BY <1>4 DEF LanesHoldCommands, AttemptsDiffer, LanesAreCurrent, PromptsAreHeld,
     VerifierFoundThemSettled
<1>9. CommandsFit /\ StopsComeFirst /\ NothingLeftBehind /\ TurnsComeOnce /\ TurnsAreTakenOnce
  BY <1>2, <1>4 DEF CommandsFit, StopsComeFirst, NothingLeftBehind, TurnsComeOnce,
     TurnsAreTakenOnce
<1>10. PromptsAreSettled /\ SealedIsClosed
  BY <1>2 DEF PromptsAreSettled, SealedIsClosed, Before
<1>11. RunnerIsOwner
  BY <1>3 DEF RunnerIsOwner
<1> QED
  BY <1>5, <1>6, <1>7, <1>8, <1>9, <1>10, <1>11 DEF IInv

\* Every step keeps the types.
LEMMA TypesHold ==
  ASSUME IInv, Next
  PROVE  TypeOK'
<1>1. /\ exec' \in ExecType /\ log' \in [head : 0..MaxHandoffs, highest : {0} \cup Gens]
      /\ handoffs' \in Seq(HandoffType) /\ cmds' \in Seq(CommandType)
  BY HistoryHolds, CommandsMove
<1>2. /\ life' \in [Devices -> 1..(MaxFaults + 1)] /\ up' \in [Devices -> BOOLEAN]
      /\ session' \in [Devices -> {0} \cup Gens]
      /\ recovery' \in [Devices -> [pc : {"done", "due", "acquire", "start"}, gen : {0} \cup Gens]]
      /\ copy' \in [Gens -> {"none", "written", "bound"}] /\ asks' \in 0..MaxAsks
  BY LivesHold, SessionsMove
<1>3. /\ work' \in [Devices -> Lanes(Labels)] /\ stopper' \in [Devices -> Lanes(StopLabels)]
      /\ faults' \in 0..MaxFaults
  BY LanesMove, StoppersMove, FaultsCount
<1> QED
  BY <1>1, <1>2, <1>3 DEF TypeOK, ExecType, HandoffType, CommandType

\* The invariant is inductive.
LEMMA Invariance ==
  IInv /\ [Next]_vars => IInv'
<1> SUFFICES ASSUME IInv, [Next]_vars
             PROVE  IInv'
  OBVIOUS
<1>1. CASE Next
  <2>1. TypeOK' /\ OwnershipFollowsLog' /\ HandoffsFollow' /\ LivesAreFaults'
    BY <1>1, TypesHold, HistoryHolds, LivesHold
  <2>2. LanesHoldCommands' /\ AttemptsDiffer' /\ LanesAreCurrent' /\ RunnerIsOwner'
    BY <1>1, LanesHold, AttemptsStayApart, LanesStayCurrent, RunnerStaysOwner
  <2>3. CommandsFit' /\ PromptsAreHeld' /\ PromptsAreSettled'
    BY <1>1, CommandsStayFit, PromptsStayHeld, PromptsStaySettled
  <2>4. SealedIsClosed' /\ StopsComeFirst' /\ VerifierFoundThemSettled' /\ NothingLeftBehind'
    BY <1>1, SealedStaysClosed, StopsStayFirst, VerifierFinds, NothingStaysBehind
  <2>5. TurnsComeOnce' /\ TurnsAreTakenOnce'
    BY <1>1, TurnsStayFew
  <2> QED
    BY <2>1, <2>2, <2>3, <2>4, <2>5 DEF IInv
<1>2. CASE UNCHANGED vars
  <2>1. /\ UNCHANGED <<exec, log, handoffs, cmds>> /\ UNCHANGED <<work, stopper, recovery>>
        /\ UNCHANGED <<life, up, session, copy, asks, faults>>
    BY <1>2 DEF vars, rows, lanes
  <2>2. TypeOK' /\ OwnershipFollowsLog' /\ HandoffsFollow' /\ LivesAreFaults'
    BY <2>1 DEF IInv, TypeOK, OwnershipFollowsLog, Transferred, Owner, HandoffsFollow,
       LivesAreFaults
  <2>3. LanesHoldCommands' /\ AttemptsDiffer' /\ LanesAreCurrent' /\ RunnerIsOwner'
    BY <2>1 DEF IInv, LanesHoldCommands, AttemptsDiffer, LanesAreCurrent, RunnerIsOwner, Mine, Last
  <2>4. CommandsFit' /\ PromptsAreHeld' /\ PromptsAreSettled'
    BY <2>1 DEF IInv, CommandsFit, PromptsAreHeld, PromptsAreSettled, Stage, Last, Mine, Holds
  <2>5. SealedIsClosed' /\ StopsComeFirst' /\ VerifierFoundThemSettled' /\ NothingLeftBehind'
    BY <2>1 DEF IInv, SealedIsClosed, StopsComeFirst, VerifierFoundThemSettled, NothingLeftBehind,
       Stage, Last, Mine
  <2>6. TurnsComeOnce' /\ TurnsAreTakenOnce'
    BY <2>1 DEF IInv, TurnsComeOnce, TurnsAreTakenOnce, Mine
  <2> QED
    BY <2>2, <2>3, <2>4, <2>5, <2>6 DEF IInv
<1> QED
  BY <1>1, <1>2

\* So it holds always.
LEMMA Always ==
  Spec => []IInv
<1>1. Init => IInv
  BY InitHolds
<1> QED
  BY <1>1, Invariance, PTL DEF Spec

-----------------------------------------------------------------------------
(* The theorems.                                                             *)

(* Every variable of the transfer has its type: no generation, sequence of   *)
(* the authority log or step of a lane leaves its range.                     *)
THEOREM TypeCorrect == Spec => []TypeOK
<1>1. IInv => TypeOK
  BY DEF IInv
<1> QED
  BY <1>1, Always, PTL

(* The execution row, the authority log and the handoffs tell one history:   *)
(* each generation was handed on exactly once, by its owner, to the next.    *)
THEOREM OneHistory == Spec => []OwnershipFollowsLog
<1>1. IInv => OwnershipFollowsLog
  BY DEF IInv
<1> QED
  BY <1>1, Always, PTL

(* No prompt and no stop is left behind unsettled in a generation that has   *)
(* been handed on.                                                           *)
THEOREM NothingIsLeftBehind == Spec => []NothingLeftBehind
<1>1. IInv => NothingLeftBehind
  BY DEF IInv
<1> QED
  BY <1>1, Always, PTL

(* The provider is given a prompt at most once, whatever dies, lapses or     *)
(* loses its answer: a prompt that may have run is settled, waits to be      *)
(* looked into, or comes back for its checkpoint alone.                      *)
THEOREM PromptsRunOnce == Spec => []TurnsAreTakenOnce
<1>1. IInv => TurnsAreTakenOnce
  BY DEF IInv
<1> QED
  BY <1>1, Always, PTL

\* An execution is failed by the lane of its owner, for the generation it owns.
LEMMA FailedByOwner ==
  ASSUME IInv, Next, exec'.state = "failed", exec.state # "failed"
  PROVE  work[exec.device].pc = "set" /\ Mine(exec.device).gen = exec.gen /\ exec'.gen = exec.gen
<1>1. ~Handed
  <2> SUFFICES ASSUME Handed PROVE FALSE
    OBVIOUS
  <2> PICK d \in Devices : Commit(d) /\ MayCommit(work[d].hver)
    BY DEF Handed
  <2> QED
    BY CommitGives
<1>2. PICK d \in Devices : work[d].pc = "set" /\ Mine(d).gen = exec.gen
  BY <1>1, ExecMoves
<1>3. exec.device = d
  BY <1>2, KindOfLane DEF IInv, LanesAreCurrent
<1> QED
  BY <1>1, <1>2, <1>3, ExecMoves

(* An execution fails only at the hands of the device and the generation     *)
(* that own it: never of a device the Conversation has left.                 *)
THEOREM FailuresAreOwn == Spec => FailsOnlyItsOwn
<1> DEFINE Own == exec'.state = "failed" /\ exec.state # "failed" =>
                    /\ work[exec.device].pc = "set"
                    /\ Mine(exec.device).gen = exec.gen /\ exec'.gen = exec.gen
<1>1. ASSUME IInv, [Next]_vars PROVE Own
  <2>1. CASE Next
    BY <1>1, <2>1, FailedByOwner
  <2>2. CASE UNCHANGED vars
    BY <2>2 DEF vars, rows
  <2> QED
    BY <1>1, <2>1, <2>2
<1>2. IInv /\ [Next]_vars => [Own]_vars
  BY <1>1
<1> QED
  BY <1>2, Always, PTL DEF Spec, FailsOnlyItsOwn

-----------------------------------------------------------------------------
(* The transfer implements exclusive execution.                              *)

Lineage == [g \in 1..exec.gen |-> Owner(g)]
Writing == {d \in Devices : work[d].pc = "turn"}

\* The lineage is a sequence of devices, and its last is the owner.
LEMMA LineageNow ==
  ASSUME IInv
  PROVE  /\ Lineage \in Seq(Devices) /\ Len(Lineage) = exec.gen /\ exec.gen \in Nat \ {0}
         /\ Lineage[Len(Lineage)] = exec.device
<1>1. \A g \in 1..exec.gen : Owner(g) \in Devices
  <2> SUFFICES ASSUME NEW g \in 1..exec.gen PROVE Owner(g) \in Devices
    OBVIOUS
  <2>1. CASE g = 1
    BY <2>1, HandoffAssumption DEF Owner
  <2>2. CASE g # 1
    <3>1. g - 1 \in 1..Len(handoffs)
      BY <2>2, HistoryNow
    <3>2. handoffs[g - 1] \in HandoffType
      BY <3>1, HistoryNow, ElementOfSeq
    <3> QED
      BY <2>2, <3>2 DEF Owner, HandoffType
  <2> QED
    BY <2>1, <2>2
<1>2. Lineage \in [1..exec.gen -> Devices]
  BY <1>1 DEF Lineage
<1>3. Lineage \in Seq(Devices) /\ exec.gen \in Nat \ {0}
  BY <1>2, HistoryNow, SeqDef
<1>4. Len(Lineage) = exec.gen
  <2>1. 1..Len(Lineage) = 1..exec.gen /\ Len(Lineage) \in Nat
    BY <1>2, <1>3, LenProperties
  <2>2. exec.gen \in 1..Len(Lineage) /\ (Len(Lineage) # 0 => Len(Lineage) \in 1..exec.gen)
    BY <1>3, <2>1
  <2> QED
    BY <1>3, <2>1, <2>2
<1>5. Lineage[exec.gen] = exec.device
  BY <1>3, HistoryNow DEF Lineage
<1> QED
  BY <1>3, <1>4, <1>5

\* Targets of handoffs stay who they are.
LEMMA TargetsStay ==
  ASSUME IInv, Next
  PROVE  \A g \in DOMAIN handoffs : handoffs'[g].target = handoffs[g].target
<1>1. CASE Requested
  <2> PICK t \in Devices : Request(t)
    BY <1>1 DEF Requested
  <2> QED
    BY RequestGives
<1>2. CASE Asked
  <2> PICK kind \in {"prompt", "stop"} : Ask(kind)
    BY <1>2 DEF Asked
  <2> QED
    BY AskGives
<1>3. CASE Attested
  <2> PICK d \in Devices : Attest(d) /\ Last.state = "source_sealed" /\ Last.ver = work[d].hver
    BY <1>3 DEF Attested
  <2> QED
    BY AttestGives
<1>4. CASE Handed
  <2> PICK d \in Devices : Commit(d) /\ MayCommit(work[d].hver)
    BY <1>4 DEF Handed
  <2> QED
    BY CommitGives
<1>5. CASE RowsKept
  BY <1>5, KeptHandoffs DEF RowsKept
<1> QED
  BY <1>1, <1>2, <1>3, <1>4, <1>5, RowsMove, ClaimKeeps

\* A step moves one lane at most.
LEMMA OneLaneMoves ==
  ASSUME IInv, Next
  PROVE  \E d \in Devices : \A e \in Devices : e # d => work'[e] = work[e]
<1>0. work \in [Devices -> Lanes(Labels)] /\ Home \in Devices
  BY Types, HandoffAssumption
<1>1. ASSUME NEW d \in Devices, NEW v, work' = [work EXCEPT ![d] = v]
      PROVE  \A e \in Devices : e # d => work'[e] = work[e]
  BY <1>0, <1>1
<1>2. ASSUME NEW d \in Devices, LaneStep(d) \/ Block(d) \/ LoseLease(d)
      PROVE  \E v : work' = [work EXCEPT ![d] = v]
  <2>1. GoesOn(d)
    BY <1>2, LaneMoves
  <2> QED
    BY <2>1, Zenon DEF GoesOn
<1>3. ASSUME NEW d \in Devices, Claim(d)
      PROVE  \E v : work' = [work EXCEPT ![d] = v]
  BY <1>3, Zenon DEF Claim
<1>4. ASSUME NEW d \in Devices, Crash(d) \/ Stop(d)
      PROVE  \E v : work' = [work EXCEPT ![d] = v]
  <2>1. work' = [work EXCEPT ![d] = Idle]
    BY <1>4 DEF Crash, Stop, Dies
  <2> QED
    BY <2>1, Zenon
<1>5. CASE UserStep \/ Lapse \/ Expires \/ \E c \in DOMAIN cmds : Replicated(c)
  <2>1. UNCHANGED work
    BY <1>5 DEF UserStep, Request, Ask, Lapse, CommandLapses, ExecutionLapses,
         RestorationLapses, Expires, TimeOnly, Replicated, lanes
  <2> QED
    BY <1>0, <2>1
<1>6. ASSUME NEW d \in Devices,
             Reconcile(d) \/ StopStep(d) \/ StopThrows(d) \/ RecoveryStep(d) \/ RenewFails(d) \/ Start(d)
      PROVE  UNCHANGED work
  BY <1>6 DEF Reconcile, StopStep, StopThrows, ClaimStop, ReadToStop, SetStop, CloseToStop,
       EndStop, StopOnly, RecoveryStep, List, Acquire, Recovered, RecoveryOnly, RenewFails, Start, lanes
<1>7. ASSUME NEW d \in Devices, \E v : work' = [work EXCEPT ![d] = v]
      PROVE  \E f \in Devices : \A e \in Devices : e # f => work'[e] = work[e]
  BY <1>1, <1>7
<1>8. UNCHANGED work => \E f \in Devices : \A e \in Devices : e # f => work'[e] = work[e]
  BY <1>0
<1> QED
  BY <1>2, <1>3, <1>4, <1>5, <1>6, <1>7, <1>8, NextSplits DEF OtherStep

\* Without a transfer the lineage stays.
LEMMA LineageStays ==
  ASSUME IInv, Next, ~Handed
  PROVE  Lineage' = Lineage
<1>1. exec'.gen = exec.gen
  BY ExecMoves
<1>2. \A g \in 1..(Len(handoffs) + 1) : Owner(g)' = Owner(g)
  BY HistoryNow, TargetsStay, SameOwners
<1>3. \A g \in 1..exec.gen : Owner(g)' = Owner(g)
  BY <1>2, HistoryNow
<1>4. Lineage' = [g \in 1..exec.gen |-> Owner(g)']
  BY <1>1 DEF Lineage
<1> QED
  BY <1>3, <1>4 DEF Lineage

\* A transfer appends its target, which is not the owner.
LEMMA LineageGrows ==
  ASSUME IInv, Next, Handed
  PROVE  Lineage' = Append(Lineage, Last.target) /\ Last.target \in Devices \ {exec.device}
<1>1. /\ exec'.gen = exec.gen + 1 /\ exec'.device = Last.target /\ exec.gen \in Nat
      /\ handoffs # <<>> /\ Stage = "target_verified"
  BY HandedBy
<1>2. /\ exec.gen = Len(handoffs) /\ Len(handoffs) \in DOMAIN handoffs /\ Last \in HandoffType
  <2> PICK d \in Devices : Commit(d) /\ MayCommit(work[d].hver)
    BY DEF Handed
  <2> QED
    BY CommitGives
<1>3. Last.target \in Devices \ {exec.device}
  <2>1. Last.target # Last.source /\ Last.source = Owner(exec.gen)
    BY <1>2, HistoryNow DEF Last
  <2> QED
    BY <1>2, <2>1, HistoryNow DEF HandoffType
<1>4. \A g \in 1..(Len(handoffs) + 1) : Owner(g)' = Owner(g)
  BY HistoryNow, TargetsStay, SameOwners
<1> DEFINE t == Append(Lineage, Last.target)
<1>5. /\ t \in Seq(Devices) /\ Len(t) = exec.gen + 1 /\ t[exec.gen + 1] = Last.target
      /\ \A g \in 1..exec.gen : t[g] = Lineage[g]
  BY <1>3, LineageNow, AppendProperties
<1> HIDE DEF t
<1>6. t = [g \in 1..(exec.gen + 1) |-> t[g]]
  BY <1>5, LenProperties
<1>7. ASSUME NEW g \in 1..(exec.gen + 1) PROVE Owner(g)' = t[g]
  <2>1. CASE g = exec.gen + 1
    <3>1. Owner(g) = Last.target
      <4>1. g # 1 /\ g - 1 = Len(handoffs)
        BY <1>2, <2>1, HistoryNow
      <4> QED
        BY <4>1 DEF Owner, Last
    <3> QED
      BY <1>2, <1>4, <1>5, <2>1, <3>1
  <2>2. CASE g \in 1..exec.gen
    <3>1. Owner(g)' = Owner(g)
      BY <1>2, <1>4, <1>7
    <3> QED
      BY <1>5, <2>2, <3>1 DEF Lineage
  <2> QED
    BY <1>1, <1>7, <2>1, <2>2
<1>8. Lineage' = [g \in 1..(exec.gen + 1) |-> Owner(g)']
  BY <1>1 DEF Lineage
<1>9. Lineage' = t
  BY <1>6, <1>7, <1>8
<1> QED
  BY <1>3, <1>9 DEF t

\* Nobody writes when a Conversation is handed over.
LEMMA NobodyWrites ==
  ASSUME IInv, Next, Handed
  PROVE  Writing = {} /\ Writing' = {}
<1>1. Stage = "target_verified"
  BY HandedBy
<1>2. ASSUME NEW d \in Devices, work[d].pc \in {"open", "turn"}, Mine(d).kind = "prompt" PROVE FALSE
  <2>1. work[d].cmd \in DOMAIN cmds
    BY <1>2 DEF IInv, LanesHoldCommands
  <2>2. Mine(d).state \in Settled
    BY <1>1, <1>2, <2>1 DEF IInv, PromptsAreSettled, Before, Mine
  <2>3. Mine(d).state = "dispatching"
    BY <1>2 DEF IInv, PromptsAreHeld, Holds, Mine
  <2> QED
    BY <2>2, <2>3 DEF Settled
<1>3. ASSUME NEW d \in Devices, work[d].pc = "turn" PROVE FALSE
  BY <1>2, <1>3, KindOfLane
<1>4. ASSUME NEW d \in Devices, work'[d].pc = "turn" PROVE FALSE
  <2>1. CASE LaneOn(d)
    <3>1. /\ work[d].pc # "idle" /\ "turn" \in LabelsOf(Mine(d).kind)
          /\ Mine(d).kind = "prompt" => work[d].pc \in {"open", "turn"}
          /\ Mine(d) \in CommandType
      BY <1>4, <2>1, LaneOnCommand DEF LaneOn, Fits
    <3>2. Mine(d).kind = "prompt"
      BY <3>1 DEF LabelsOf, CommandType
    <3> QED
      BY <1>2, <3>1, <3>2
  <2>2. CASE LaneTakes(d)
    <3> PICK c \in DOMAIN cmds : work'[d].pc = Entry(c)
      BY <2>2, Zenon DEF LaneTakes
    <3>1. cmds[c].kind # "turn"
      BY CommandTyped DEF CommandType
    <3> QED
      BY <1>4, <3>1 DEF Entry
  <2> QED
    BY <1>4, <2>1, <2>2, LaneWorks
<1> QED
  BY <1>3, <1>4 DEF Writing

\* A turn begins on the owner.
LEMMA TurnsBeginAtHome ==
  ASSUME IInv, Next, NEW d \in Devices, work'[d].pc = "turn"
  PROVE  exec'.device = d
<1>1. Mine(d)'.kind = "prompt"
  <2>1. work'[d].pc \in LabelsOf(Mine(d)'.kind) /\ work'[d].cmd \in DOMAIN cmds'
    BY LanesHold DEF LanesHoldCommands, Mine
  <2>2. Mine(d)' \in CommandType
    BY <2>1, CommandsMove, ElementOfSeq, LenProperties DEF Mine
  <2> QED
    BY <2>1, <2>2 DEF LabelsOf, CommandType
<1> QED
  BY <1>1, PromptsStayHeld DEF PromptsAreHeld

\* A step of the transfer begins or finishes a turn, hands over, or stutters.
LEMMA StepImplements ==
  ASSUME IInv, Next
  PROVE  \/ Writing' = Writing \cup {Lineage[Len(Lineage)]} /\ Lineage' = Lineage
         \/ \E d \in Writing : Writing' = Writing \ {d} /\ Lineage' = Lineage
         \/ /\ Writing = {}
            /\ \E d \in Devices \ {Lineage[Len(Lineage)]} : Lineage' = Append(Lineage, d)
            /\ Writing' = Writing
         \/ Lineage' = Lineage /\ Writing' = Writing
<1>1. CASE Handed
  <2>1. Writing = {} /\ Writing' = Writing
    BY <1>1, NobodyWrites
  <2>2. \E d \in Devices \ {Lineage[Len(Lineage)]} : Lineage' = Append(Lineage, d)
    BY <1>1, LineageGrows, LineageNow
  <2> QED
    BY <2>1, <2>2
<1>2. CASE ~Handed
  <2>1. Lineage' = Lineage /\ exec'.device = exec.device
    BY <1>2, LineageStays, ExecMoves
  <2> PICK d \in Devices : \A e \in Devices : e # d => work'[e] = work[e]
    BY OneLaneMoves
  <2>2. CASE work[d].pc = "turn" /\ work'[d].pc # "turn"
    <3>1. d \in Writing /\ Writing' = Writing \ {d}
      BY <2>2 DEF Writing
    <3> QED
      BY <2>1, <3>1
  <2>3. CASE work[d].pc # "turn" /\ work'[d].pc = "turn"
    <3>1. d = Lineage[Len(Lineage)]
      BY <2>1, <2>3, TurnsBeginAtHome, LineageNow
    <3>2. Writing' = Writing \cup {d}
      BY <2>3 DEF Writing
    <3> QED
      BY <2>1, <3>1, <3>2
  <2>4. CASE (work[d].pc = "turn") <=> (work'[d].pc = "turn")
    <3>1. Writing' = Writing
      BY <2>4 DEF Writing
    <3> QED
      BY <2>1, <3>1
  <2> QED
    BY <2>2, <2>3, <2>4
<1> QED
  BY <1>1, <1>2

(* Execution is exclusive: the transfer, with its leases, commands, crashes  *)
(* and lost answers, implements ExclusiveExecution.  Turns run on the owner  *)
(* alone, nobody writes while the Conversation is handed over, and the       *)
(* lineage of the owners is only ever extended.                              *)
THEOREM Exclusivity == Spec => ExecutionIsExclusive
<1>1. Init => Exclusive!Init
  <2> SUFFICES ASSUME Init PROVE Exclusive!Init
    OBVIOUS
  <2>1. exec.gen = 1 /\ \A d \in Devices : work[d].pc # "turn"
    BY DEF Init, Idle
  <2>2. Lineage = <<Home>>
    BY <2>1 DEF Lineage, Owner
  <2>3. Writing = {}
    BY <2>1 DEF Writing
  <2> QED
    BY <2>2, <2>3 DEF Exclusive!Init, Lineage, Writing
<1>2. IInv /\ [Next]_vars => [Exclusive!Next]_(Exclusive!vars)
  <2> SUFFICES ASSUME IInv, [Next]_vars PROVE [Exclusive!Next]_(Exclusive!vars)
    OBVIOUS
  <2>1. CASE Next
    BY <2>1, StepImplements DEF Exclusive!Next, Exclusive!Begin, Exclusive!Finish,
       Exclusive!HandOver, Exclusive!vars, Exclusive!Owner, Lineage, Writing
  <2>2. CASE UNCHANGED vars
    BY <2>2 DEF vars, rows, lanes, Exclusive!vars, Owner
  <2> QED
    BY <2>1, <2>2
<1> QED
  BY <1>1, <1>2, Always, PTL DEF Spec, ExecutionIsExclusive, Exclusive!Spec

=============================================================================
