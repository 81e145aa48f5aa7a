--------------------- MODULE MemoryAnswerSchedulerProofs ---------------------
(***************************************************************************)
(* The scheduler processes implement MemoryAnswerTask: whatever drain      *)
(* loops, attempts, cancellations, closes and deaths do, the database only *)
(* sees the transactions of MemoryAnswerTask, used by holders of claims it *)
(* handed out.  All that MemoryAnswerTaskProofs proves of Spec therefore   *)
(* holds of SchedulerSpec.                                                 *)
(***************************************************************************)
EXTENDS MemoryAnswerScheduler, MemoryAnswerTaskProofs

(* A process only works on claims that were handed out: what makes every     *)
(* heartbeat, completion and failure a step of MemoryAnswerTask.             *)
KnownClaims ==
  /\ DOMAIN attempt \subseteq claims
  /\ inHand \in [Actors -> claims \cup {NoClaim}]

\* The set of claims handed out never loses a claim.
LEMMA ClaimsGrow == ASSUME [Next]_vars PROVE claims \subseteq claims'
BY DEF Next, vars, Accept, Claim, Heartbeat, Complete, Fail, Cancel,
   DeleteExpired, LeaseLapses, DelayPasses, RetentionPasses, RevokeTeam

\* Initially no scheduler knows a claim.
LEMMA SchedulerInitKnown == SchedulerInit => KnownClaims
BY DEF SchedulerInit, KnownClaims

(* The task half of every step.                                              *)
LEMMA StepsAreTransactions ==
  ASSUME KnownClaims, [SchedulerNext]_allVars
  PROVE  [Next]_vars
<1>0. DOMAIN attempt \subseteq claims
  BY DEF KnownClaims
<1>1. ASSUME NEW p \in Actors, Tick(p) \/ DrainHead(p) \/ ClaimAnswered(p)
                \/ ClaimErrs(p) \/ Close(p) \/ CloseReturns(p) \/ Die(p)
      PROVE  UNCHANGED vars
  BY <1>1 DEF Tick, DrainHead, ClaimAnswered, ClaimErrs, Close, CloseReturns, Die
<1>2. ASSUME NEW p \in Actors, NEW team \in BOOLEAN, ClaimCommits(p, team)
      PROVE  [Next]_vars
  BY <1>2 DEF ClaimCommits, Next
<1>3. ASSUME NEW c \in DOMAIN attempt, Beat(c) PROVE Next
  BY <1>0, <1>3 DEF Beat, Next
<1>4. ASSUME NEW c \in DOMAIN attempt, NEW reason \in Interruptions,
             Interrupt(c, reason)
      PROVE  UNCHANGED vars
  BY <1>4 DEF Interrupt
<1>5. ASSUME NEW c \in DOMAIN attempt, CallComplete(c) PROVE [Next]_vars
  BY <1>0, <1>5 DEF CallComplete, Next
<1>6. ASSUME NEW c \in DOMAIN attempt, CallFail(c) PROVE [Next]_vars
  BY <1>0, <1>6 DEF CallFail, Next
<1>7. ASSUME NEW p \in Actors, NEW t \in Tasks, NEW k \in Keys \cup {NoKey},
             NEW s \in Scopes, Start(p, t, k, s)
      PROVE  Next
  BY <1>7 DEF Start, Next
<1>8. ASSUME NEW p \in Actors, NEW t \in Tasks, CancelAt(p, t)
      PROVE  [Next]_vars
  BY <1>8 DEF CancelAt, CancelCommits, CancelAnswered, CancelErrs, Next
<1>9. ASSUME NEW p \in Actors, Cleanup(p) PROVE Next
  BY <1>9 DEF Cleanup, Next
<1>10. ASSUME Environment PROVE Next
  BY <1>10 DEF Environment, Next
<1>11. CASE UNCHANGED allVars
  BY <1>11 DEF allVars
<1>12. ASSUME NEW c \in DOMAIN attempt, Return(c) PROVE UNCHANGED vars
  BY <1>12 DEF Return
<1> QED
  BY <1>1, <1>2, <1>3, <1>4, <1>5, <1>6, <1>7, <1>8, <1>9, <1>10, <1>11, <1>12
  DEF SchedulerNext

\* Every step of a scheduler or of the tasks keeps KnownClaims.
LEMMA KnownStep ==
  ASSUME KnownClaims, [SchedulerNext]_allVars
  PROVE  KnownClaims'
<1>0. claims \subseteq claims'
  BY StepsAreTransactions, ClaimsGrow
<1>1. ASSUME NEW p \in Actors, NEW team \in BOOLEAN, ClaimCommits(p, team)
      PROVE  KnownClaims'
  <2>1. claims' # claims =>
          (CHOOSE c \in claims' : c \notin claims) \in claims'
    BY <1>0
  <2> QED
    BY <1>0, <1>1, <2>1 DEF ClaimCommits, KnownClaims
<1>2. ASSUME NEW p \in Actors, ClaimAnswered(p) PROVE KnownClaims'
  <2>1. claims' = claims
    BY <1>2 DEF ClaimAnswered, vars
  <2>2. inHand' \in [Actors -> claims \cup {NoClaim}]
    BY <1>2 DEF ClaimAnswered, KnownClaims
  <2>3. DOMAIN attempt' \subseteq DOMAIN attempt \cup ({inHand[p]} \ {NoClaim})
    BY <1>2 DEF ClaimAnswered
  <2> QED
    BY <2>1, <2>2, <2>3 DEF KnownClaims
<1>3. ASSUME NEW p \in Actors, ClaimErrs(p) \/ Die(p) PROVE KnownClaims'
  <2>1. claims' = claims /\ DOMAIN attempt' \subseteq DOMAIN attempt
    BY <1>3 DEF ClaimErrs, Die, vars, Unfinished
  <2>2. inHand' \in [Actors -> claims \cup {NoClaim}]
    BY <1>3 DEF ClaimErrs, Die, KnownClaims
  <2> QED
    BY <2>1, <2>2 DEF KnownClaims
<1>4. ASSUME inHand' = inHand, DOMAIN attempt' \subseteq DOMAIN attempt
      PROVE  KnownClaims'
  BY <1>0, <1>4 DEF KnownClaims
<1>5. ASSUME NEW c \in DOMAIN attempt,
             Beat(c) \/ Return(c) \/ CallComplete(c) \/ CallFail(c)
      PROVE  KnownClaims'
  BY <1>4, <1>5 DEF Beat, Return, CallComplete, CallFail, Leave, GoTo, Stopped
<1>6. ASSUME NEW c \in DOMAIN attempt, NEW reason \in Interruptions,
             Interrupt(c, reason)
      PROVE  KnownClaims'
  BY <1>4, <1>6 DEF Interrupt, Stopped
<1>7. ASSUME NEW p \in Actors,
             \/ Tick(p) \/ DrainHead(p) \/ CloseReturns(p) \/ Close(p) \/ Cleanup(p)
             \/ \E t \in Tasks : CancelAt(p, t)
             \/ \E t \in Tasks, k \in Keys \cup {NoKey}, s \in Scopes :
                  Start(p, t, k, s)
      PROVE  KnownClaims'
  BY <1>4, <1>7
  DEF Tick, DrainHead, CloseReturns, Close, Cleanup, CancelAt, CancelCommits,
      CancelAnswered, CancelErrs, Start, Stopped, procVars
<1>8. ASSUME Environment \/ UNCHANGED allVars PROVE KnownClaims'
  BY <1>4, <1>8 DEF Environment, procVars, allVars
<1> QED
  BY <1>1, <1>2, <1>3, <1>5, <1>6, <1>7, <1>8 DEF SchedulerNext

\* Schedulers hold claims that were handed out, always.
LEMMA AlwaysKnown == SchedulerSpec => []KnownClaims
BY SchedulerInitKnown, KnownStep, PTL DEF SchedulerSpec

(* Every behaviour of the scheduler processes is a behaviour of              *)
(* MemoryAnswerTask, however many processes, tasks and slots there are.      *)
THEOREM SchedulersImplementTasks == SchedulerSpec => ImplementsTasks
<1>1. SchedulerInit => Init
  BY DEF SchedulerInit
<1>2. KnownClaims /\ [SchedulerNext]_allVars => [Next]_vars
  BY StepsAreTransactions
<1> QED
  BY <1>1, <1>2, AlwaysKnown, PTL DEF SchedulerSpec, Spec, ImplementsTasks

(* So no answer of a scheduler process ever commits over a newer claim ...   *)
THEOREM SchedulerAnswersAreCurrent == SchedulerSpec => []AnsweredByNewestClaim
BY SchedulersImplementTasks, AnswersAreCurrent, PTL DEF ImplementsTasks

(* ... and the processes together keep the promise made to the client.       *)
THEOREM SchedulersKeepPromise == SchedulerSpec => KeepsPromise
BY SchedulersImplementTasks, TasksKeepPromise, PTL DEF ImplementsTasks

-----------------------------------------------------------------------------
(* Slots and types of the processes                                          *)

\* The types in the form the steps need: whole functions, and the drain
\* loop's claim is one of its own, which no attempt has been started for.
ProcTypes ==
  /\ KnownClaims
  /\ proc \in [Actors -> {"up", "closing", "closed", "dead"}]
  /\ drain \in [Actors -> Drains]
  /\ running \in [Actors -> [Tasks -> claims \cup {NoClaim}]]
  /\ \A c \in DOMAIN attempt : attempt[c] \in [phase : Phases, reason : Reasons]
  /\ slots \in [Actors -> Int]
  /\ awaited \in [Actors -> SUBSET claims]

HandedOver ==
  \A p \in Actors : inHand[p] # NoClaim =>
    /\ drain[p] = "answered"
    /\ inHand[p] \notin DOMAIN attempt
    /\ inHand[p].owner = p

WithinCapacity == \A p \in Actors : slots[p] <= MaxActive

ProcInv ==
  /\ ProcTypes
  /\ HandedOver
  /\ WithinCapacity
  /\ IsFiniteSet(DOMAIN attempt)
  /\ SlotsMatch

\* A slot the drain loop holds for its claim call.
Busy(p) == IF drain[p] \in {"claiming", "answered"} THEN 1 ELSE 0

\* Initially no process holds anything.
LEMMA InitProc == SchedulerInit => ProcInv
<1> SUFFICES ASSUME SchedulerInit PROVE ProcInv
  OBVIOUS
<1>1. DOMAIN attempt = {}
  BY DEF SchedulerInit
<1>2. ProcTypes
  BY <1>1, SchedulerInitKnown DEF SchedulerInit, ProcTypes, Drains
<1>3. HandedOver /\ WithinCapacity
  BY SchedulerAssumption DEF SchedulerInit, HandedOver, WithinCapacity
<1>4. \A p \in Actors : Unfinished(p) = {}
  BY <1>1 DEF Unfinished
<1>5. SlotsMatch
  <2>1. Cardinality({}) = 0
    BY FS_EmptySet
  <2>2. ASSUME NEW p \in Actors
        PROVE  Cardinality(Unfinished(p)) = 0 /\ slots[p] = 0 /\ Busy(p) = 0
    <3>1. Cardinality(Unfinished(p)) = 0
      BY <1>4, <2>1
    <3>2. slots[p] = 0 /\ Busy(p) = 0
      BY DEF SchedulerInit, Busy
    <3> QED
      BY <3>1, <3>2
  <2> QED
    BY <2>2 DEF SlotsMatch, Busy
<1> QED
  BY <1>1, <1>2, <1>3, <1>5, FS_EmptySet DEF ProcInv

\* Every process has finitely many attempts.
LEMMA FewAttempts ==
  ASSUME IsFiniteSet(DOMAIN attempt), NEW p
  PROVE  IsFiniteSet(Unfinished(p)) /\ Cardinality(Unfinished(p)) \in Nat
<1>1. Unfinished(p) \in SUBSET DOMAIN attempt
  BY DEF Unfinished
<1>2. IsFiniteSet(Unfinished(p))
  BY <1>1, FS_Subset
<1> QED
  BY <1>2, FS_CardinalityType

\* What a process knows of stays handed out when claims are added.
LEMMA TypesSurvive ==
  ASSUME ProcTypes, [SchedulerNext]_allVars
  PROVE  /\ KnownClaims'
         /\ running \in [Actors -> [Tasks -> claims' \cup {NoClaim}]]
         /\ awaited \in [Actors -> SUBSET claims']
<1>1. claims \subseteq claims'
  BY StepsAreTransactions, ClaimsGrow DEF ProcTypes
<1>2. KnownClaims'
  BY KnownStep DEF ProcTypes
<1>3. running \in [Actors -> [Tasks -> claims' \cup {NoClaim}]]
  BY <1>1 DEF ProcTypes
<1>4. awaited \in [Actors -> SUBSET claims']
  BY <1>1 DEF ProcTypes
<1> QED
  BY <1>2, <1>3, <1>4

\* Stopping an attempt sets its reason and nothing else.
LEMMA StoppedType ==
  ASSUME \A c \in DOMAIN attempt : attempt[c] \in [phase : Phases, reason : Reasons],
         NEW cs, NEW reason \in Reasons
  PROVE  /\ DOMAIN Stopped(attempt, cs, reason) = DOMAIN attempt
         /\ \A c \in DOMAIN attempt :
              Stopped(attempt, cs, reason)[c] \in [phase : Phases, reason : Reasons]
BY DEF Stopped

\* A step of one attempt that neither starts nor ends it, of a client, of the
\* environment or of close(): no slot, no claim in hand and no drain loop
\* that holds a slot moves.
LEMMA QuietStep ==
  ASSUME ProcInv, [SchedulerNext]_allVars,
         inHand' = inHand, slots' = slots,
         DOMAIN attempt' = DOMAIN attempt,
         \A p \in Actors : Busy(p)' = Busy(p),
         \A p \in Actors : inHand[p] # NoClaim => drain'[p] = drain[p],
         ProcTypes'
  PROVE  ProcInv'
<1>1. \A p \in Actors : Unfinished(p)' = Unfinished(p)
  BY DEF Unfinished
<1>2. SlotsMatch'
  BY <1>1 DEF ProcInv, SlotsMatch, Busy
<1>3. HandedOver' /\ WithinCapacity'
  BY DEF ProcInv, HandedOver, WithinCapacity
<1> QED
  BY <1>2, <1>3 DEF ProcInv

\* The quiet steps.
LEMMA QuietSteps ==
  ASSUME ProcInv, [SchedulerNext]_allVars,
         \/ UNCHANGED allVars
         \/ Environment
         \/ \E p \in Actors : Tick(p) \/ Close(p) \/ CloseReturns(p) \/ Cleanup(p)
         \/ \E c \in DOMAIN attempt : Beat(c) \/ Return(c)
         \/ \E c \in DOMAIN attempt, reason \in Interruptions : Interrupt(c, reason)
         \/ \E p \in Actors, t \in Tasks, k \in Keys \cup {NoKey}, s \in Scopes :
              Start(p, t, k, s)
         \/ \E p \in Actors, t \in Tasks : CancelAt(p, t)
         \/ \E c \in DOMAIN attempt :
              InPhase(c, "completing") /\ GoTo(c, "failing")
                /\ UNCHANGED <<proc, drain, inHand, running, slots, awaited>>
  PROVE  ProcInv'
<1> DEFINE Kept == /\ DOMAIN attempt' = DOMAIN attempt
                   /\ \A c \in DOMAIN attempt :
                        attempt'[c] \in [phase : Phases, reason : Reasons]
           Still == UNCHANGED <<proc, drain, inHand, running, slots, awaited>>
<1> USE DEF ProcInv
<1>0. /\ \A c \in DOMAIN attempt : attempt[c] \in [phase : Phases, reason : Reasons]
      /\ drain \in [Actors -> Drains]
      /\ proc \in [Actors -> {"up", "closing", "closed", "dead"}]
  BY DEF ProcTypes
<1>1. ASSUME Kept, UNCHANGED <<drain, inHand, running, slots>>,
             proc' \in [Actors -> {"up", "closing", "closed", "dead"}],
             awaited' \in [Actors -> SUBSET claims']
      PROVE  ProcInv'
  <2>1. ProcTypes'
    BY <1>1, TypesSurvive DEF ProcTypes
  <2> QED
    BY <1>1, <2>1, QuietStep DEF Busy
<1>2. ASSUME Kept, Still PROVE ProcInv'
  BY <1>0, <1>1, <1>2, TypesSurvive DEF ProcTypes
<1>3. ASSUME UNCHANGED <<proc, inHand, running, attempt, slots, awaited>>,
             NEW p \in Actors,
             drain' = [drain EXCEPT ![p] = Nudged(p)]
      PROVE  ProcInv'
  <2>1. Nudged(p) \in Drains
    BY <1>0 DEF Nudged, Drains
  <2>2. ProcTypes'
    BY <1>0, <1>3, <2>1, TypesSurvive DEF ProcTypes
  <2>3. \A q \in Actors : Busy(q)' = Busy(q)
    BY <1>0, <1>3 DEF Busy, Nudged
  <2>4. \A q \in Actors : inHand[q] # NoClaim => drain'[q] = drain[q]
    BY <1>0, <1>3 DEF HandedOver, Nudged
  <2> QED
    BY <1>3, <2>2, <2>3, <2>4, QuietStep
<1>4. CASE UNCHANGED allVars \/ Environment
  BY <1>0, <1>2, <1>4 DEF Environment, allVars, procVars
<1>5. ASSUME NEW p \in Actors, Tick(p) PROVE ProcInv'
  <2>1. drain' = [drain EXCEPT ![p] = Nudged(p)]
    BY <1>5 DEF Tick, Nudged
  <2> QED
    BY <1>3, <1>5, <2>1 DEF Tick
<1>6. ASSUME NEW p \in Actors, Close(p) PROVE ProcInv'
  <2>1. Kept
    BY <1>0, <1>6, StoppedType DEF Close, Reasons
  <2>2. Known(p) \subseteq claims
    BY <1>6 DEF Known, ProcTypes
  <2>3. claims' = claims
    BY <1>6 DEF Close, vars
  <2>4. awaited' \in [Actors -> SUBSET claims']
    BY <1>6, <2>2, <2>3 DEF Close, ProcTypes
  <2> QED
    BY <1>0, <1>1, <1>6, <2>1, <2>4 DEF Close
<1>7. ASSUME NEW p \in Actors, CloseReturns(p) PROVE ProcInv'
  <2>1. awaited' \in [Actors -> SUBSET claims']
    BY <1>7 DEF CloseReturns, ProcTypes, vars
  <2> QED
    BY <1>0, <1>1, <1>7, <2>1 DEF CloseReturns
<1>8. ASSUME NEW p \in Actors, Cleanup(p) PROVE ProcInv'
  BY <1>0, <1>2, <1>8 DEF Cleanup, procVars
<1>9. ASSUME NEW c \in DOMAIN attempt, Beat(c) PROVE ProcInv'
  BY <1>0, <1>2, <1>9, StoppedType DEF Beat, Reasons
<1>10. ASSUME NEW c \in DOMAIN attempt, NEW phase \in Phases, GoTo(c, phase), Still
       PROVE  ProcInv'
  <2>1. Kept
    BY <1>0, <1>10 DEF GoTo
  <2> QED
    BY <1>2, <1>10, <2>1
<1>11. ASSUME NEW c \in DOMAIN attempt, Return(c) PROVE ProcInv'
  BY <1>10, <1>11 DEF Return, Phases
<1>12. ASSUME NEW c \in DOMAIN attempt, NEW reason \in Interruptions,
              Interrupt(c, reason)
       PROVE  ProcInv'
  BY <1>0, <1>2, <1>12, StoppedType DEF Interrupt, Interruptions, Reasons
<1>13. ASSUME NEW p \in Actors, NEW t \in Tasks, NEW k \in Keys \cup {NoKey},
              NEW s \in Scopes, Start(p, t, k, s)
       PROVE  ProcInv'
  BY <1>3, <1>13 DEF Start
<1>14. ASSUME NEW p \in Actors, NEW t \in Tasks, CancelAt(p, t) PROVE ProcInv'
  BY <1>0, <1>2, <1>14, StoppedType
  DEF CancelAt, CancelCommits, CancelAnswered, CancelErrs, Reasons
<1>15. ASSUME NEW c \in DOMAIN attempt, GoTo(c, "failing"), Still PROVE ProcInv'
  BY <1>10, <1>15 DEF Phases
<1> QED
  BY <1>4, <1>5, <1>6, <1>7, <1>8, <1>9, <1>11, <1>12, <1>13, <1>14, <1>15

\* The head of the drain loop takes a slot, or stops.
LEMMA DrainHeadStep ==
  ASSUME ProcInv, [SchedulerNext]_allVars, NEW p \in Actors, DrainHead(p)
  PROVE  ProcInv'
<1> USE DEF ProcInv
<1>0. drain \in [Actors -> Drains] /\ slots \in [Actors -> Int]
  BY DEF ProcTypes
<1>1. /\ drain' \in [Actors -> Drains] /\ slots' \in [Actors -> Int]
      /\ UNCHANGED <<vars, proc, inHand, running, attempt, awaited>>
  BY <1>0 DEF DrainHead, Drains
<1>2. ProcTypes'
  BY <1>1, TypesSurvive DEF ProcTypes
<1>3. inHand[p] = NoClaim
  BY DEF DrainHead, HandedOver
<1>4. HandedOver'
  BY <1>0, <1>1, <1>3 DEF DrainHead, HandedOver
<1>5. WithinCapacity'
  BY <1>0, SchedulerAssumption DEF DrainHead, WithinCapacity
<1>6. \A q \in Actors : Unfinished(q)' = Unfinished(q)
  BY <1>1 DEF Unfinished
<1>7. \A q \in Actors : Cardinality(Unfinished(q)) \in Nat
  BY FewAttempts
<1>8. \A q \in Actors : slots'[q] - slots[q] = Busy(q)' - Busy(q)
  BY <1>0 DEF DrainHead, Busy
<1>9. SlotsMatch'
  <2>1. ASSUME NEW q \in Actors
        PROVE  slots'[q] = Cardinality(Unfinished(q)) + Busy(q)'
    <3>1. slots[q] = Cardinality(Unfinished(q)) + Busy(q)
      BY DEF SlotsMatch, Busy
    <3>2. Busy(q) \in Int /\ Busy(q)' \in Int /\ slots'[q] \in Int
      BY <1>1 DEF Busy
    <3> QED
      BY <1>7, <1>8, <3>1, <3>2
  <2> QED
    BY <1>6, <2>1 DEF SlotsMatch, Busy
<1> QED
  BY <1>1, <1>2, <1>4, <1>5, <1>9

\* The claim that commits is new, and the process's own.
LEMMA ClaimCommitsStep ==
  ASSUME TypeOK, Fencing, ProcInv, [SchedulerNext]_allVars,
         NEW p \in Actors, NEW team \in BOOLEAN, ClaimCommits(p, team)
  PROVE  ProcInv'
<1> USE DEF ProcInv
<1>0. /\ drain \in [Actors -> Drains] /\ DOMAIN attempt \subseteq claims
      /\ inHand \in [Actors -> claims \cup {NoClaim}]
  BY DEF ProcTypes, KnownClaims
<1>1. /\ drain' = [drain EXCEPT ![p] = "answered"]
      /\ drain[p] = "claiming"
      /\ UNCHANGED <<proc, running, attempt, slots, awaited>>
  BY DEF ClaimCommits
<1>2. ProcTypes'
  BY <1>0, <1>1, TypesSurvive DEF ProcTypes, Drains
<1>3. \A c \in claims' \ claims : c.owner = p
  <2>1. CASE Claim(p, team)
    BY <2>1 DEF Claim
  <2>2. CASE UNCHANGED vars
    BY <2>2 DEF vars
  <2> QED
    BY <2>1, <2>2 DEF ClaimCommits
<1>4. claims \subseteq claims'
  BY StepsAreTransactions, ClaimsGrow DEF ProcTypes
<1>5. ASSUME inHand'[p] # NoClaim PROVE inHand'[p] \in claims' \ claims
  <2>1. claims' # claims /\ inHand'[p] = CHOOSE c \in claims' : c \notin claims
    BY <1>0, <1>5 DEF ClaimCommits
  <2> QED
    BY <1>4, <2>1
<1>6. HandedOver'
  BY <1>0, <1>1, <1>3, <1>5 DEF HandedOver, ClaimCommits
<1>7. \A q \in Actors : Unfinished(q)' = Unfinished(q) /\ Busy(q)' = Busy(q)
  BY <1>0, <1>1 DEF Unfinished, Busy
<1>8. SlotsMatch'
  BY <1>1, <1>7 DEF SlotsMatch, Busy
<1> QED
  BY <1>1, <1>2, <1>6, <1>8 DEF WithinCapacity

\* The slot of the claim call passes to the attempt, or is released.
LEMMA ClaimAnsweredStep ==
  ASSUME TypeOK, ProcInv, [SchedulerNext]_allVars, NEW p \in Actors, ClaimAnswered(p)
  PROVE  ProcInv'
<1> USE DEF ProcInv
<1>0. /\ drain \in [Actors -> Drains] /\ slots \in [Actors -> Int]
      /\ inHand \in [Actors -> claims \cup {NoClaim}]
      /\ running \in [Actors -> [Tasks -> claims \cup {NoClaim}]]
      /\ \A c \in DOMAIN attempt : attempt[c] \in [phase : Phases, reason : Reasons]
  BY DEF ProcTypes, KnownClaims
<1>1. /\ drain[p] = "answered" /\ claims' = claims
      /\ UNCHANGED <<proc, awaited>>
      /\ inHand' = [inHand EXCEPT ![p] = NoClaim]
  BY DEF ClaimAnswered, vars
<1>2. \A q \in Actors : Cardinality(Unfinished(q)) \in Nat
  BY FewAttempts
<1>3. CASE inHand[p] = NoClaim
  <2>1. /\ drain' = [drain EXCEPT ![p] = "idle"]
        /\ slots' = [slots EXCEPT ![p] = @ - 1]
        /\ UNCHANGED <<running, attempt>>
    BY <1>3 DEF ClaimAnswered
  <2>2. ProcTypes'
    BY <1>0, <1>1, <2>1, TypesSurvive DEF ProcTypes, Drains
  <2>3. HandedOver'
    BY <1>0, <1>1, <2>1 DEF HandedOver
  <2>4. WithinCapacity'
    BY <1>0, <2>1, SchedulerAssumption DEF WithinCapacity
  <2>5. \A q \in Actors : Unfinished(q)' = Unfinished(q)
    BY <2>1 DEF Unfinished
  <2>6. SlotsMatch'
    BY <1>0, <1>1, <1>2, <2>1, <2>5 DEF SlotsMatch
  <2> QED
    BY <2>1, <2>2, <2>3, <2>4, <2>6
<1>4. CASE inHand[p] # NoClaim
  <2> DEFINE c == inHand[p]
  <2>1. /\ c \in claims /\ c.owner = p /\ c \notin DOMAIN attempt
        /\ c.task \in Tasks
    BY <1>0, <1>4 DEF HandedOver, TypeOK, Claims
  <2>2. /\ drain' = [drain EXCEPT ![p] = "scheduled"]
        /\ slots' = slots
        /\ running' = [running EXCEPT ![p][c.task] = c]
        /\ attempt' = [d \in DOMAIN attempt \cup {c} |->
               IF d = c THEN [phase |-> "executing", reason |-> "none"]
               ELSE attempt[d]]
    BY <1>4 DEF ClaimAnswered
  <2>3. DOMAIN attempt' = DOMAIN attempt \cup {c}
    BY <2>2
  <2>4. \A d \in DOMAIN attempt' : attempt'[d] \in [phase : Phases, reason : Reasons]
    BY <1>0, <2>2 DEF Phases, Reasons
  <2>5. running' \in [Actors -> [Tasks -> claims' \cup {NoClaim}]]
    BY <1>0, <1>1, <2>1, <2>2
  <2>6. ProcTypes'
    BY <1>0, <1>1, <2>2, <2>4, <2>5, TypesSurvive DEF ProcTypes, Drains
  <2>7. HandedOver'
    BY <1>0, <1>1, <2>1, <2>2, <2>3 DEF HandedOver
  <2>8. IsFiniteSet(DOMAIN attempt')
    BY <2>3, FS_AddElement
  <2>9. ASSUME NEW q \in Actors
        PROVE  slots'[q] = Cardinality(Unfinished(q)') + Busy(q)'
    <3>1. slots[q] = Cardinality(Unfinished(q)) + Busy(q)
      BY DEF SlotsMatch, Busy
    <3>2. CASE q = p
      <4>1. Unfinished(q)' = Unfinished(q) \cup {c} /\ c \notin Unfinished(q)
        BY <2>1, <2>3, <3>2 DEF Unfinished
      <4>2. Cardinality(Unfinished(q)') = Cardinality(Unfinished(q)) + 1
        BY <4>1, FewAttempts, FS_AddElement
      <4>3. Busy(q) = 1 /\ Busy(q)' = 0
        BY <1>0, <1>1, <2>2, <3>2 DEF Busy
      <4> QED
        BY <1>2, <2>2, <3>1, <4>2, <4>3
    <3>3. CASE q # p
      <4>1. Unfinished(q)' = Unfinished(q)
        BY <2>1, <2>3, <3>3 DEF Unfinished
      <4>2. Busy(q)' = Busy(q)
        BY <1>0, <2>2, <3>3 DEF Busy
      <4> QED
        BY <2>2, <3>1, <4>1, <4>2
    <3> QED
      BY <3>2, <3>3
  <2>10. SlotsMatch'
    BY <2>9 DEF SlotsMatch, Busy
  <2> QED
    BY <2>2, <2>6, <2>7, <2>8, <2>10 DEF WithinCapacity
<1> QED
  BY <1>3, <1>4

\* A claim call that fails gives its slot back.
LEMMA ClaimErrsStep ==
  ASSUME ProcInv, [SchedulerNext]_allVars, NEW p \in Actors, ClaimErrs(p)
  PROVE  ProcInv'
<1> USE DEF ProcInv
<1>0. /\ drain \in [Actors -> Drains] /\ slots \in [Actors -> Int]
      /\ inHand \in [Actors -> claims \cup {NoClaim}]
  BY DEF ProcTypes, KnownClaims
<1>1. /\ drain[p] \in {"claiming", "answered"}
      /\ drain' = [drain EXCEPT ![p] = "idle"]
      /\ slots' = [slots EXCEPT ![p] = @ - 1]
      /\ inHand' = [inHand EXCEPT ![p] = NoClaim]
      /\ UNCHANGED <<proc, running, attempt, awaited>>
  BY DEF ClaimErrs
<1>2. ProcTypes'
  BY <1>0, <1>1, TypesSurvive DEF ProcTypes, Drains
<1>3. HandedOver'
  BY <1>0, <1>1 DEF HandedOver
<1>4. WithinCapacity'
  BY <1>0, <1>1, SchedulerAssumption DEF WithinCapacity
<1>5. \A q \in Actors : /\ Unfinished(q)' = Unfinished(q)
                        /\ Cardinality(Unfinished(q)) \in Nat
  BY <1>1, FewAttempts DEF Unfinished
<1>6. SlotsMatch'
  BY <1>0, <1>1, <1>5 DEF SlotsMatch
<1> QED
  BY <1>1, <1>2, <1>3, <1>4, <1>6

\* An attempt that settles gives its slot back, once.
LEMMA LeaveStep ==
  ASSUME TypeOK, ProcInv, [SchedulerNext]_allVars, NEW c \in DOMAIN attempt, Leave(c)
  PROVE  ProcInv'
<1> USE DEF ProcInv
<1>0. /\ drain \in [Actors -> Drains] /\ slots \in [Actors -> Int]
      /\ inHand \in [Actors -> claims \cup {NoClaim}]
      /\ running \in [Actors -> [Tasks -> claims \cup {NoClaim}]]
      /\ DOMAIN attempt \subseteq claims
      /\ \A d \in DOMAIN attempt : attempt[d] \in [phase : Phases, reason : Reasons]
  BY DEF ProcTypes, KnownClaims
<1>1. c.owner \in Actors /\ c.task \in Tasks
  BY <1>0 DEF TypeOK, Claims
<1>2. /\ attempt' = [d \in DOMAIN attempt \ {c} |-> attempt[d]]
      /\ running' = [running EXCEPT ![c.owner][c.task] = NoClaim]
      /\ slots' = [slots EXCEPT ![c.owner] = @ - 1]
      /\ drain' = [drain EXCEPT ![c.owner] = Nudged(c.owner)]
      /\ UNCHANGED <<proc, inHand, awaited>>
  BY DEF Leave
<1>3. /\ DOMAIN attempt' = DOMAIN attempt \ {c}
      /\ \A d \in DOMAIN attempt' : attempt'[d] \in [phase : Phases, reason : Reasons]
  BY <1>0, <1>2
<1>4. Nudged(c.owner) \in Drains /\ (Nudged(c.owner) # drain[c.owner] =>
        drain[c.owner] = "idle" /\ Nudged(c.owner) = "scheduled")
  BY <1>0, <1>1 DEF Nudged, Drains
<1>5. \A t \in Tasks : running[c.owner][t] \in claims' \cup {NoClaim}
  BY <1>1, TypesSurvive
<1>6. running' \in [Actors -> [Tasks -> claims' \cup {NoClaim}]]
  BY <1>1, <1>2, <1>5, TypesSurvive
<1>7. ProcTypes'
  BY <1>0, <1>2, <1>3, <1>4, <1>6, TypesSurvive DEF ProcTypes
<1>8. HandedOver'
  BY <1>0, <1>2, <1>3, <1>4 DEF HandedOver
<1>9. WithinCapacity'
  BY <1>0, <1>2, SchedulerAssumption DEF WithinCapacity
<1>10. IsFiniteSet(DOMAIN attempt')
  BY <1>3, FS_RemoveElement
<1>11. \A q \in Actors : Busy(q)' = Busy(q)
  BY <1>0, <1>1, <1>2, <1>4 DEF Busy
<1>12. ASSUME NEW q \in Actors
       PROVE  slots'[q] = Cardinality(Unfinished(q)') + Busy(q)'
  <2>1. /\ slots[q] = Cardinality(Unfinished(q)) + Busy(q)
        /\ Cardinality(Unfinished(q)) \in Nat /\ Busy(q) \in Nat
    BY FewAttempts DEF SlotsMatch, Busy
  <2>2. CASE q = c.owner
    <3>1. Unfinished(q)' = Unfinished(q) \ {c} /\ c \in Unfinished(q)
      BY <1>3, <2>2 DEF Unfinished
    <3>2. Cardinality(Unfinished(q)') = Cardinality(Unfinished(q)) - 1
      BY <3>1, FewAttempts, FS_RemoveElement
    <3>3. slots'[q] = slots[q] - 1
      BY <1>0, <1>2, <2>2
    <3>4. Busy(q)' = Busy(q)
      BY <1>11
    <3> QED
      BY <2>1, <3>2, <3>3, <3>4
  <2>3. CASE q # c.owner
    <3>1. Unfinished(q)' = Unfinished(q)
      BY <1>3, <2>3 DEF Unfinished
    <3> QED
      BY <1>0, <1>2, <1>11, <2>1, <2>3, <3>1
  <2> QED
    BY <2>2, <2>3
<1>13. SlotsMatch'
  BY <1>12 DEF SlotsMatch, Busy
<1> QED
  BY <1>7, <1>8, <1>9, <1>10, <1>13

\* Death frees what the process held, and nobody else's slots.
LEMMA DieStep ==
  ASSUME ProcInv, [SchedulerNext]_allVars, NEW p \in Actors, Die(p)
  PROVE  ProcInv'
<1> USE DEF ProcInv
<1>0. /\ drain \in [Actors -> Drains] /\ slots \in [Actors -> Int]
      /\ inHand \in [Actors -> claims \cup {NoClaim}]
      /\ running \in [Actors -> [Tasks -> claims \cup {NoClaim}]]
      /\ \A d \in DOMAIN attempt : attempt[d] \in [phase : Phases, reason : Reasons]
  BY DEF ProcTypes, KnownClaims
<1>1. /\ proc' = [proc EXCEPT ![p] = "dead"]
      /\ drain' = [drain EXCEPT ![p] = "idle"]
      /\ inHand' = [inHand EXCEPT ![p] = NoClaim]
      /\ running' = [running EXCEPT ![p] = [t \in Tasks |-> NoClaim]]
      /\ attempt' = [c \in DOMAIN attempt \ Unfinished(p) |-> attempt[c]]
      /\ slots' = [slots EXCEPT ![p] = 0]
      /\ awaited' = [awaited EXCEPT ![p] = {}]
      /\ claims' = claims
  BY DEF Die, vars
<1>2. /\ DOMAIN attempt' = DOMAIN attempt \ Unfinished(p)
      /\ \A d \in DOMAIN attempt' : attempt'[d] \in [phase : Phases, reason : Reasons]
  BY <1>0, <1>1
<1>3. running' \in [Actors -> [Tasks -> claims' \cup {NoClaim}]]
  BY <1>0, <1>1
<1>4. awaited' \in [Actors -> SUBSET claims']
  BY <1>1 DEF ProcTypes
<1>5. ProcTypes'
  BY <1>0, <1>1, <1>2, <1>3, <1>4, TypesSurvive DEF ProcTypes, Drains
<1>6. HandedOver'
  BY <1>0, <1>1, <1>2 DEF HandedOver
<1>7. WithinCapacity'
  BY <1>0, <1>1, SchedulerAssumption DEF WithinCapacity
<1>8. IsFiniteSet(DOMAIN attempt')
  <2>1. DOMAIN attempt' \in SUBSET DOMAIN attempt
    BY <1>2
  <2> QED
    BY <2>1, FS_Subset
<1>9. Unfinished(p)' = {}
  BY <1>2 DEF Unfinished
<1>10. ASSUME NEW q \in Actors
       PROVE  slots'[q] = Cardinality(Unfinished(q)') + Busy(q)'
  <2>1. CASE q = p
    <3>1. Cardinality({}) = 0
      BY FS_EmptySet
    <3>2. slots'[q] = 0 /\ Busy(q)' = 0
      BY <1>0, <1>1, <2>1 DEF Busy
    <3> QED
      BY <1>9, <2>1, <3>1, <3>2
  <2>2. CASE q # p
    <3>1. Unfinished(q)' = Unfinished(q)
      BY <1>2, <2>2 DEF Unfinished
    <3> QED
      BY <1>0, <1>1, <2>2, <3>1 DEF SlotsMatch, Busy
  <2> QED
    BY <2>1, <2>2
<1>11. SlotsMatch'
  BY <1>10 DEF SlotsMatch, Busy
<1> QED
  BY <1>5, <1>6, <1>7, <1>8, <1>11

\* Every step keeps the accounts of all processes.
LEMMA ProcStep ==
  ASSUME TypeOK, Fencing, ProcInv, [SchedulerNext]_allVars
  PROVE  ProcInv'
<1>1. ASSUME NEW c \in DOMAIN attempt, CallComplete(c) PROVE ProcInv'
  BY <1>1, LeaveStep, QuietSteps DEF CallComplete
<1>2. ASSUME NEW c \in DOMAIN attempt, CallFail(c) PROVE ProcInv'
  BY <1>2, LeaveStep DEF CallFail
<1>3. CASE UNCHANGED allVars
  BY <1>3, QuietSteps
<1>4. CASE SchedulerNext
  BY <1>1, <1>2, <1>4, QuietSteps, DrainHeadStep, ClaimCommitsStep,
     ClaimAnsweredStep, ClaimErrsStep, DieStep
  DEF SchedulerNext
<1> QED
  BY <1>3, <1>4

\* The accounts are right, always.
LEMMA AlwaysAccounted == SchedulerSpec => []ProcInv
<1>1. SchedulerSpec => []IInv
  BY SchedulersImplementTasks, InvariantHolds, PTL DEF ImplementsTasks
<1>2. IInv /\ ProcInv /\ [SchedulerNext]_allVars => ProcInv'
  BY ProcStep DEF IInv
<1> QED
  BY <1>1, <1>2, InitProc, PTL DEF SchedulerSpec

(* Every slot in use belongs to an unfinished attempt or to the drain loop's  *)
(* claim call, whatever is lost, stopped or dies.                             *)
THEOREM SlotsAreAccounted == SchedulerSpec => []SlotsMatch
BY AlwaysAccounted, PTL DEF ProcInv

\* A process remembers recorded cancellations of tasks only.
CancelsTyped == cancels \in [Actors -> SUBSET Tasks]

LEMMA AlwaysCancelsTyped == SchedulerSpec => []CancelsTyped
<1>1. SchedulerInit => CancelsTyped
  BY DEF SchedulerInit, CancelsTyped
<1>2. ASSUME CancelsTyped, [SchedulerNext]_allVars PROVE CancelsTyped'
  <2> USE <1>2 DEF CancelsTyped
  <2>1. ASSUME NEW p \in Actors, NEW t \in Tasks, CancelAt(p, t)
        PROVE  CancelsTyped'
    <3>1. CASE CancelCommits(p, t)
      BY <3>1 DEF CancelCommits
    <3>2. CASE CancelAnswered(p, t) \/ CancelErrs(p, t)
      BY <3>2 DEF CancelAnswered, CancelErrs
    <3> QED
      BY <2>1, <3>1, <3>2 DEF CancelAt
  <2>2. ASSUME NEW p \in Actors, Die(p) PROVE CancelsTyped'
    BY <2>2 DEF Die
  <2>3. CASE \E p \in Actors :
               \/ Tick(p) \/ DrainHead(p) \/ ClaimAnswered(p) \/ ClaimErrs(p)
               \/ Close(p) \/ CloseReturns(p) \/ Cleanup(p)
               \/ \E team \in BOOLEAN : ClaimCommits(p, team)
    BY <2>3
    DEF Tick, DrainHead, ClaimAnswered, ClaimErrs, Close, CloseReturns, Cleanup,
        ClaimCommits, procVars
  <2>4. CASE \E c \in DOMAIN attempt :
               \/ Beat(c) \/ Return(c) \/ CallComplete(c) \/ CallFail(c)
               \/ \E reason \in Interruptions : Interrupt(c, reason)
    BY <2>4 DEF Beat, Return, CallComplete, CallFail, Interrupt, Leave, GoTo
  <2>5. CASE \E p \in Actors, t \in Tasks, k \in Keys \cup {NoKey}, s \in Scopes :
               Start(p, t, k, s)
    BY <2>5 DEF Start
  <2>6. CASE Environment \/ UNCHANGED allVars
    BY <2>6 DEF Environment, allVars, procVars
  <2> QED
    BY <2>1, <2>2, <2>3, <2>4, <2>5, <2>6 DEF SchedulerNext
<1> QED
  BY <1>1, <1>2, PTL DEF SchedulerSpec

(* No process ever runs more than MaxActive attempts and claim calls at once, *)
(* and none works on a claim that was not handed out.                         *)
THEOREM SchedulersTypeCorrect == SchedulerSpec => []SchedulerTypeOK
<1>1. ProcInv /\ CancelsTyped => SchedulerTypeOK
  <2> SUFFICES ASSUME ProcInv, CancelsTyped PROVE SchedulerTypeOK
    OBVIOUS
  <2>1. \A p \in Actors : slots[p] \in 0..MaxActive
    <3> SUFFICES ASSUME NEW p \in Actors PROVE slots[p] \in 0..MaxActive
      OBVIOUS
    <3>1. Cardinality(Unfinished(p)) \in Nat
      BY FewAttempts DEF ProcInv
    <3>2. slots[p] >= 0
      BY <3>1 DEF ProcInv, SlotsMatch
    <3> QED
      BY <3>2, SchedulerAssumption DEF ProcInv, ProcTypes, WithinCapacity
  <2>2. slots \in [Actors -> 0..MaxActive]
    BY <2>1 DEF ProcInv, ProcTypes
  <2> QED
    BY <2>2 DEF ProcInv, ProcTypes, KnownClaims, CancelsTyped, SchedulerTypeOK
<1> QED
  BY <1>1, AlwaysAccounted, AlwaysCancelsTyped, PTL

-----------------------------------------------------------------------------
(* What cancellation and close() reach                                       *)

\* The running map is keyed by task: it still names the attempt of a task that
\* its process was handed once.
SoleAttemptIsKnown ==
  \A c \in DOMAIN attempt : Sole(c) => running[c.owner][c.task] = c

\* A claim that has company in its process keeps it.
LEMMA CompanyStays ==
  ASSUME claims \subseteq claims', NEW c, Sole(c)'
  PROVE  Sole(c)
BY DEF Sole

\* Nothing is known or unknown before the first claim.
LEMMA InitKnownSole == SchedulerInit => SoleAttemptIsKnown
BY DEF SchedulerInit, SoleAttemptIsKnown

\* An attempt drops or takes the entry of its own task only, and an attempt
\* that shares the entry with another one is not the only one of its task.
LEMMA SoleStep ==
  ASSUME TypeOK, ProcInv, SoleAttemptIsKnown, [SchedulerNext]_allVars
  PROVE  SoleAttemptIsKnown'
<1>0. /\ claims \subseteq claims'
      /\ DOMAIN attempt \subseteq claims
      /\ inHand \in [Actors -> claims \cup {NoClaim}]
      /\ running \in [Actors -> [Tasks -> claims \cup {NoClaim}]]
      /\ \A c \in DOMAIN attempt : attempt[c] \in [phase : Phases, reason : Reasons]
  BY StepsAreTransactions, ClaimsGrow DEF ProcInv, ProcTypes, KnownClaims
<1>1. \A c \in claims : c.owner \in Actors /\ c.task \in Tasks
  BY DEF TypeOK, Claims
<1>2. ASSUME running' = running, DOMAIN attempt' \subseteq DOMAIN attempt
      PROVE  SoleAttemptIsKnown'
  BY <1>0, <1>2, CompanyStays DEF SoleAttemptIsKnown
<1>3. ASSUME NEW c \in DOMAIN attempt, Leave(c) PROVE SoleAttemptIsKnown'
  <2>1. /\ DOMAIN attempt' = DOMAIN attempt \ {c}
        /\ running' = [running EXCEPT ![c.owner][c.task] = NoClaim]
    BY <1>3 DEF Leave
  <2> SUFFICES ASSUME NEW d \in DOMAIN attempt \ {c}, Sole(d)
               PROVE  running'[d.owner][d.task] = d
    BY <1>0, <2>1, CompanyStays DEF SoleAttemptIsKnown
  <2>2. running[d.owner][d.task] = d
    BY DEF SoleAttemptIsKnown
  <2>3. d.owner # c.owner \/ d.task # c.task
    BY <1>0 DEF Sole
  <2> QED
    BY <1>0, <1>1, <2>1, <2>2, <2>3
<1>4. ASSUME NEW p \in Actors, ClaimAnswered(p) PROVE SoleAttemptIsKnown'
  <2>1. CASE inHand[p] = NoClaim
    BY <1>2, <1>4, <2>1 DEF ClaimAnswered
  <2>2. CASE inHand[p] # NoClaim
    <3> DEFINE c == inHand[p]
    <3>1. /\ c \in claims /\ c.owner = p /\ c \notin DOMAIN attempt
          /\ c.task \in Tasks
      BY <1>0, <1>1, <2>2 DEF ProcInv, HandedOver
    <3>2. /\ DOMAIN attempt' = DOMAIN attempt \cup {c}
          /\ running' = [running EXCEPT ![p][c.task] = c]
      BY <1>4, <2>2 DEF ClaimAnswered
    <3>3. running'[c.owner][c.task] = c
      BY <1>0, <3>1, <3>2
    <3>4. ASSUME NEW d \in DOMAIN attempt, Sole(d)
          PROVE  running'[d.owner][d.task] = d
      <4>1. running[d.owner][d.task] = d
        BY <3>4 DEF SoleAttemptIsKnown
      <4>2. d.owner # p \/ d.task # c.task
        BY <3>1, <3>4 DEF Sole
      <4> QED
        BY <1>0, <1>1, <3>2, <4>1, <4>2
    <3> QED
      BY <1>0, <3>2, <3>3, <3>4, CompanyStays DEF SoleAttemptIsKnown
  <2> QED
    BY <2>1, <2>2
<1>5. ASSUME NEW p \in Actors, Die(p) PROVE SoleAttemptIsKnown'
  <2>1. /\ \A d \in DOMAIN attempt' : d \in DOMAIN attempt /\ d.owner # p
        /\ running' = [running EXCEPT ![p] = [t \in Tasks |-> NoClaim]]
    BY <1>5 DEF Die, Unfinished
  <2> SUFFICES ASSUME NEW d \in DOMAIN attempt', Sole(d)
               PROVE  running'[d.owner][d.task] = d
    BY <1>0, CompanyStays DEF SoleAttemptIsKnown
  <2>2. running[d.owner][d.task] = d
    BY <2>1 DEF SoleAttemptIsKnown
  <2> QED
    BY <1>0, <1>1, <2>1, <2>2
<1>6. ASSUME NEW c \in DOMAIN attempt, Beat(c) \/ Return(c) PROVE SoleAttemptIsKnown'
  BY <1>2, <1>6 DEF Beat, Return, GoTo, Stopped
<1>7. ASSUME NEW c \in DOMAIN attempt, NEW reason \in Interruptions,
             Interrupt(c, reason)
      PROVE  SoleAttemptIsKnown'
  BY <1>2, <1>7 DEF Interrupt, Stopped
<1>8. ASSUME NEW c \in DOMAIN attempt, CallComplete(c) \/ CallFail(c)
      PROVE  SoleAttemptIsKnown'
  BY <1>2, <1>3, <1>8 DEF CallComplete, CallFail, GoTo
<1>9. ASSUME NEW p \in Actors,
             \/ Tick(p) \/ DrainHead(p) \/ ClaimErrs(p) \/ CloseReturns(p)
             \/ Close(p) \/ Cleanup(p)
             \/ \E team \in BOOLEAN : ClaimCommits(p, team)
             \/ \E t \in Tasks : CancelAt(p, t)
             \/ \E t \in Tasks, k \in Keys \cup {NoKey}, s \in Scopes :
                  Start(p, t, k, s)
      PROVE  SoleAttemptIsKnown'
  BY <1>2, <1>9
  DEF Tick, DrainHead, ClaimErrs, CloseReturns, Close, Cleanup, ClaimCommits,
      CancelAt, CancelCommits, CancelAnswered, CancelErrs, Start, Stopped, procVars
<1>10. ASSUME Environment \/ UNCHANGED allVars PROVE SoleAttemptIsKnown'
  BY <1>2, <1>10 DEF Environment, procVars, allVars
<1> QED
  BY <1>4, <1>5, <1>6, <1>7, <1>8, <1>9, <1>10 DEF SchedulerNext

\* The running map never loses an attempt that has no company.
LEMMA AlwaysKnownSole == SchedulerSpec => [](TypeOK /\ ProcInv /\ SoleAttemptIsKnown)
<1>1. SchedulerSpec => []IInv
  BY SchedulersImplementTasks, InvariantHolds, PTL DEF ImplementsTasks
<1>2. IInv => TypeOK
  BY DEF IInv
<1>3. TypeOK /\ ProcInv /\ SoleAttemptIsKnown /\ [SchedulerNext]_allVars
        => SoleAttemptIsKnown'
  BY SoleStep
<1> QED
  BY <1>1, <1>2, <1>3, AlwaysAccounted, InitKnownSole, PTL DEF SchedulerSpec

(* What a cancellation promises does hold while a process was handed the task *)
(* once: it stops the attempt, and close() stops and awaits it.  Only an      *)
(* attempt that was claimed over another one of the same process can escape.  *)
THEOREM SoleAttemptsStop == SchedulerSpec => SoleAttemptsAreStopped
<1> DEFINE Stops ==
      \A p \in Actors : \A c \in Unfinished(p) : Sole(c) =>
        /\ CancelAnswered(p, c.task) => attempt'[c].reason # "none"
        /\ Close(p) => attempt'[c].reason # "none" /\ c \in awaited'[p]
<1>1. TypeOK /\ ProcInv /\ SoleAttemptIsKnown => Stops
  <2> SUFFICES ASSUME TypeOK, ProcInv, SoleAttemptIsKnown,
                      NEW p \in Actors, NEW c \in Unfinished(p), Sole(c)
               PROVE  /\ CancelAnswered(p, c.task) => attempt'[c].reason # "none"
                      /\ Close(p) => attempt'[c].reason # "none" /\ c \in awaited'[p]
    OBVIOUS
  <2>1. /\ c \in DOMAIN attempt /\ c.owner = p /\ c \in claims
        /\ awaited \in [Actors -> SUBSET claims]
        /\ attempt[c] \in [phase : Phases, reason : Reasons]
    BY DEF Unfinished, ProcInv, ProcTypes, KnownClaims
  <2>2. c.task \in Tasks /\ c # NoClaim
    BY <2>1, SchedulerAssumption DEF TypeOK, Claims
  <2>3. running[p][c.task] = c
    BY <2>1 DEF SoleAttemptIsKnown
  <2>4. ASSUME NEW cs, c \in cs, NEW reason \in {"cancelled", "shutdown"}
        PROVE  Stopped(attempt, cs, reason)[c].reason # "none"
    BY <2>1, <2>4 DEF Stopped
  <2>5. c \in Known(p)
    BY <2>2, <2>3 DEF Known
  <2>6. ASSUME CancelAnswered(p, c.task) PROVE attempt'[c].reason # "none"
    BY <2>3, <2>4, <2>6 DEF CancelAt, CancelCommits, CancelAnswered, CancelErrs
  <2>7. ASSUME Close(p) PROVE attempt'[c].reason # "none" /\ c \in awaited'[p]
    BY <2>1, <2>4, <2>5, <2>7 DEF Close
  <2> QED
    BY <2>6, <2>7
<1> QED
  BY <1>1, AlwaysKnownSole, PTL DEF SoleAttemptsAreStopped

-----------------------------------------------------------------------------
(* What close() leaves running                                               *)

\* Initially no process is closed.
LEMMA InitLeaves == SchedulerInit => CloseLeavesOne
BY DEF SchedulerInit, CloseLeavesOne

\* While no attempt starts and nobody stops waiting, the attempts that nobody
\* awaits only become fewer.
LEMMA LeftShrinks ==
  ASSUME claims \subseteq claims', DOMAIN attempt' \subseteq DOMAIN attempt,
         awaited' = awaited, NEW p
  PROVE  LeftBehind(p)' \subseteq LeftBehind(p)
BY CompanyStays DEF LeftBehind, Unfinished

\* A step that keeps who is closed, starts no attempt and starts no claim call in
\* a closed process.
LEMMA NothingStarts ==
  ASSUME CloseLeavesOne, claims \subseteq claims',
         DOMAIN attempt' \subseteq DOMAIN attempt, awaited' = awaited,
         \A p \in Actors : proc'[p] \in {"closing", "closed"} =>
           /\ proc[p] \in {"closing", "closed"}
           /\ drain'[p] \in {"claiming", "answered"} => drain[p] \in {"claiming", "answered"}
  PROVE  CloseLeavesOne'
<1> SUFFICES ASSUME NEW p \in Actors, proc'[p] \in {"closing", "closed"}
             PROVE  /\ \A c, d \in LeftBehind(p)' : c = d
                    /\ drain'[p] \in {"claiming", "answered"} => LeftBehind(p)' = {}
  BY DEF CloseLeavesOne
<1>1. LeftBehind(p)' \subseteq LeftBehind(p)
  BY LeftShrinks
<1>2. /\ \A c, d \in LeftBehind(p) : c = d
      /\ drain[p] \in {"claiming", "answered"} => LeftBehind(p) = {}
  BY DEF CloseLeavesOne
<1> QED
  BY <1>1, <1>2

\* The answer of the claim call that close() found in flight starts the one attempt
\* that is left behind: nothing was, while the call was in flight.
LEMMA AnswerLeavesOne ==
  ASSUME TypeOK, ProcInv, CloseLeavesOne, [SchedulerNext]_allVars,
         NEW p \in Actors, ClaimAnswered(p)
  PROVE  CloseLeavesOne'
<1>0. /\ drain \in [Actors -> Drains] /\ drain[p] = "answered"
      /\ proc' = proc /\ awaited' = awaited
      /\ claims \subseteq claims'
  BY StepsAreTransactions, ClaimsGrow DEF ClaimAnswered, ProcInv, ProcTypes
<1>1. /\ \A q \in Actors \ {p} : drain'[q] = drain[q]
      /\ drain'[p] \in {"idle", "scheduled"}
  BY <1>0 DEF ClaimAnswered
<1>2. CASE inHand[p] = NoClaim
  BY <1>0, <1>1, <1>2, NothingStarts DEF ClaimAnswered
<1>3. CASE inHand[p] # NoClaim
  <2>1. inHand[p].owner = p
    BY <1>3 DEF ProcInv, HandedOver
  <2>2. DOMAIN attempt' = DOMAIN attempt \cup {inHand[p]}
    BY <1>3 DEF ClaimAnswered
  <2>3. ASSUME NEW q \in Actors PROVE LeftBehind(q)' \subseteq LeftBehind(q) \cup {inHand[p]}
    BY <1>0, <2>2, CompanyStays DEF LeftBehind, Unfinished
  <2>4. ASSUME NEW q \in Actors \ {p} PROVE LeftBehind(q)' \subseteq LeftBehind(q)
    BY <1>0, <2>1, <2>2, CompanyStays DEF LeftBehind, Unfinished
  <2> SUFFICES ASSUME NEW q \in Actors, proc[q] \in {"closing", "closed"}
               PROVE  /\ \A c, d \in LeftBehind(q)' : c = d
                      /\ drain'[q] \in {"claiming", "answered"} => LeftBehind(q)' = {}
    BY <1>0 DEF CloseLeavesOne
  <2>5. /\ \A c, d \in LeftBehind(q) : c = d
        /\ drain[q] \in {"claiming", "answered"} => LeftBehind(q) = {}
    BY DEF CloseLeavesOne
  <2>6. CASE q = p
    BY <1>0, <1>1, <2>3, <2>5, <2>6
  <2>7. CASE q # p
    BY <1>1, <2>4, <2>5, <2>7
  <2> QED
    BY <2>6, <2>7
<1> QED
  BY <1>2, <1>3

\* close() awaits every attempt that the running map names, hence every one whose
\* task the process was handed once.
LEMMA CloseAwaits ==
  ASSUME TypeOK, ProcInv, SoleAttemptIsKnown, CloseLeavesOne, NEW p \in Actors, Close(p)
  PROVE  CloseLeavesOne'
<1>0. /\ proc \in [Actors -> {"up", "closing", "closed", "dead"}]
      /\ awaited \in [Actors -> SUBSET claims]
      /\ DOMAIN attempt \subseteq claims
  BY DEF ProcInv, ProcTypes, KnownClaims
<1>1. /\ proc' = [proc EXCEPT ![p] = "closing"] /\ drain' = drain
      /\ awaited' = [awaited EXCEPT ![p] = Known(p)]
      /\ DOMAIN attempt' = DOMAIN attempt
      /\ claims' = claims
  BY DEF Close, Stopped, vars
<1>2. \A c \in claims : c.task \in Tasks /\ c # NoClaim
  BY SchedulerAssumption DEF TypeOK, Claims
<1>3. LeftBehind(p)' = {}
  <2> SUFFICES ASSUME NEW c \in DOMAIN attempt, c.owner = p, Sole(c) PROVE c \in Known(p)
    BY <1>0, <1>1, CompanyStays DEF LeftBehind, Unfinished
  <2>1. running[p][c.task] = c
    BY DEF SoleAttemptIsKnown
  <2> QED
    BY <1>0, <1>2, <2>1 DEF Known
<1>4. ASSUME NEW q \in Actors, q # p
      PROVE  /\ LeftBehind(q)' \subseteq LeftBehind(q)
             /\ proc'[q] = proc[q]
  BY <1>0, <1>1, <1>4, CompanyStays DEF LeftBehind, Unfinished
<1> SUFFICES ASSUME NEW q \in Actors, proc'[q] \in {"closing", "closed"}
             PROVE  /\ \A c, d \in LeftBehind(q)' : c = d
                    /\ drain'[q] \in {"claiming", "answered"} => LeftBehind(q)' = {}
  BY DEF CloseLeavesOne
<1>5. CASE q = p
  BY <1>3, <1>5
<1>6. CASE q # p
  <2>1. /\ \A c, d \in LeftBehind(q) : c = d
        /\ drain[q] \in {"claiming", "answered"} => LeftBehind(q) = {}
    BY <1>4, <1>6 DEF CloseLeavesOne
  <2> QED
    BY <1>1, <1>4, <1>6, <2>1
<1> QED
  BY <1>5, <1>6

\* close() returns when what it awaits is over: nothing more is left behind.
LEMMA ReturnLeavesOne ==
  ASSUME ProcInv, CloseLeavesOne, NEW p \in Actors, CloseReturns(p)
  PROVE  CloseLeavesOne'
<1>0. /\ proc \in [Actors -> {"up", "closing", "closed", "dead"}]
      /\ awaited \in [Actors -> SUBSET claims]
  BY DEF ProcInv, ProcTypes
<1>1. /\ proc' = [proc EXCEPT ![p] = "closed"] /\ drain' = drain
      /\ awaited' = [awaited EXCEPT ![p] = {}]
      /\ attempt' = attempt /\ claims' = claims
      /\ proc[p] = "closing" /\ awaited[p] \cap Unfinished(p) = {}
  BY DEF CloseReturns, vars
<1>2. \A q \in Actors : LeftBehind(q)' \subseteq LeftBehind(q)
  BY <1>0, <1>1, CompanyStays DEF LeftBehind, Unfinished
<1>3. \A q \in Actors : proc'[q] \in {"closing", "closed"} =>
                          proc[q] \in {"closing", "closed"}
  BY <1>0, <1>1
<1> QED
  BY <1>1, <1>2, <1>3 DEF CloseLeavesOne

\* Every step leaves at most one attempt behind.
LEMMA LeavesStep ==
  ASSUME TypeOK, ProcInv, SoleAttemptIsKnown, CloseLeavesOne, [SchedulerNext]_allVars
  PROVE  CloseLeavesOne'
<1>0. /\ claims \subseteq claims'
      /\ proc \in [Actors -> {"up", "closing", "closed", "dead"}]
      /\ drain \in [Actors -> Drains]
      /\ awaited \in [Actors -> SUBSET claims]
      /\ \A c \in DOMAIN attempt : c.owner \in Actors
  BY StepsAreTransactions, ClaimsGrow DEF ProcInv, ProcTypes, KnownClaims, TypeOK, Claims
<1> DEFINE Gone == DOMAIN attempt' \subseteq DOMAIN attempt
<1>1. ASSUME Gone, UNCHANGED <<proc, drain, awaited>> PROVE CloseLeavesOne'
  BY <1>0, <1>1, NothingStarts
<1>2. ASSUME Gone, UNCHANGED <<proc, awaited>>, NEW p \in Actors, NEW next,
             drain' = [drain EXCEPT ![p] = next],
             next \in {"claiming", "answered"} =>
               proc[p] = "up" \/ drain[p] \in {"claiming", "answered"}
      PROVE  CloseLeavesOne'
  BY <1>0, <1>2, NothingStarts
<1>3. ASSUME NEW p \in Actors, Tick(p) \/ DrainHead(p) \/ ClaimErrs(p)
      PROVE  CloseLeavesOne'
  BY <1>2, <1>3 DEF Tick, DrainHead, ClaimErrs
<1>4. ASSUME NEW p \in Actors, NEW team \in BOOLEAN, ClaimCommits(p, team)
      PROVE  CloseLeavesOne'
  BY <1>2, <1>4 DEF ClaimCommits
<1>5. ASSUME NEW p \in Actors, NEW t \in Tasks, NEW k \in Keys \cup {NoKey},
             NEW s \in Scopes, Start(p, t, k, s)
      PROVE  CloseLeavesOne'
  BY <1>2, <1>5 DEF Start, Nudged
<1>6. ASSUME NEW c \in DOMAIN attempt, Leave(c) PROVE CloseLeavesOne'
  BY <1>0, <1>2, <1>6 DEF Leave, Nudged
<1>7. ASSUME NEW c \in DOMAIN attempt, CallComplete(c) \/ CallFail(c)
      PROVE  CloseLeavesOne'
  BY <1>1, <1>6, <1>7 DEF CallComplete, CallFail, GoTo
<1>8. ASSUME NEW c \in DOMAIN attempt,
             \/ Beat(c) \/ Return(c)
             \/ \E reason \in Interruptions : Interrupt(c, reason)
      PROVE  CloseLeavesOne'
  BY <1>1, <1>8 DEF Beat, Return, Interrupt, GoTo, Stopped
<1>9. ASSUME NEW p \in Actors, Cleanup(p) \/ \E t \in Tasks : CancelAt(p, t)
      PROVE  CloseLeavesOne'
  BY <1>1, <1>9
  DEF Cleanup, CancelAt, CancelCommits, CancelAnswered, CancelErrs, Stopped, procVars
<1>10. ASSUME NEW p \in Actors, Die(p) PROVE CloseLeavesOne'
  <2>1. /\ proc' = [proc EXCEPT ![p] = "dead"] /\ drain' = [drain EXCEPT ![p] = "idle"]
        /\ awaited' = [awaited EXCEPT ![p] = {}]
        /\ Gone
    BY <1>10 DEF Die
  <2>2. ASSUME NEW q \in Actors, proc'[q] \in {"closing", "closed"}
        PROVE  /\ LeftBehind(q)' \subseteq LeftBehind(q)
               /\ proc[q] = proc'[q] /\ drain'[q] = drain[q]
    <3>1. q # p /\ awaited'[q] = awaited[q]
      BY <1>0, <2>1, <2>2
    <3> QED
      BY <1>0, <2>1, <3>1, CompanyStays DEF LeftBehind, Unfinished
  <2> QED
    BY <2>2 DEF CloseLeavesOne
<1>11. CASE Environment \/ UNCHANGED allVars
  BY <1>1, <1>11 DEF Environment, procVars, allVars
<1> QED
  BY <1>3, <1>4, <1>5, <1>7, <1>8, <1>9, <1>10, <1>11,
     AnswerLeavesOne, CloseAwaits, ReturnLeavesOne
  DEF SchedulerNext

(* A claim call that close() finds in flight starts the last attempt of the   *)
(* process: of the tasks it was handed once, never more than one is worked on *)
(* that close() does not await.                                               *)
THEOREM ClosingLeavesOne == SchedulerSpec => []CloseLeavesOne
<1>1. TypeOK /\ ProcInv /\ SoleAttemptIsKnown /\ CloseLeavesOne
        /\ [SchedulerNext]_allVars => CloseLeavesOne'
  BY LeavesStep
<1> QED
  BY <1>1, AlwaysKnownSole, InitLeaves, PTL DEF SchedulerSpec

=============================================================================
