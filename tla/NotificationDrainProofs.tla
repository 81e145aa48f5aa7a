----------------------- MODULE NotificationDrainProofs -----------------------
(***************************************************************************)
(* Proofs about NotificationDrain, for any set of items and any number of  *)
(* failing drains and broken connections.                                  *)
(***************************************************************************)
EXTENDS NotificationDrain, TLAPS

(* The pool clients that are out, by the state of the wake connection.       *)
Holding == {"listening", "up", "broken", "releasing"}

HeldMatchesConnection == held = IF conn \in Holding THEN 1 ELSE 0

(* What covers an open item of a started controller: a timer that is early   *)
(* enough, a connection that will drain when it is up, a notification under  *)
(* way, or a drain that still has to look.  A drain that is asking has to    *)
(* find a retry time.                                                        *)
Timely(i) == timer # None /\ (timer <= dueAt[i] \/ timer <= now + 1)

WorkIsCovered ==
  lifecycle = "started" =>
    \A i \in Items : item[i] = "open" =>
      \/ Timely(i)
      \/ conn # "up"
      \/ inFlight
      \/ run \in {"reading", "asking", "working"}
      \/ runAgain

(* What a drain works on is open, and was due when it was read: it still is. *)
TakenIsDue ==
  run = "working" => taken \in Items /\ item[taken] = "open" /\ dueAt[taken] <= now

(* Nobody asks for a drain before start().                                   *)
QuietBeforeStart ==
  lifecycle = "idle" => run = "idle" /\ ~runAgain /\ conn = "off" /\ timer = None

(* After stop() the timers are gone and no connection is used or awaited by  *)
(* anybody but stop() itself.                                                *)
StoppedIsDisarmed ==
  lifecycle \in {"stopped", "closed"} =>
    /\ timer = None
    /\ conn \notin {"waiting", "up", "broken"}
    /\ lifecycle = "closed" => conn = "off" /\ run = "idle"

IInv ==
  /\ TypeOK
  /\ HeldMatchesConnection
  /\ WorkIsCovered
  /\ TakenIsDue
  /\ RequestsAreServed
  /\ QuietBeforeStart
  /\ StoppedIsDisarmed

-----------------------------------------------------------------------------
(* The initial states.                                                       *)
LEMMA InitHolds == Init => IInv
<1> SUFFICES ASSUME Init PROVE IInv
  OBVIOUS
<1>1. TypeOK
  <2>1. now \in Times /\ dueAt \in [Items -> Times] /\ held \in 0..1
          /\ failures \in 0..MaxFailures /\ breaks \in 0..MaxBreaks
    BY DrainAssumption DEF Init, Times
  <2>2. inFlight \in BOOLEAN /\ runAgain \in BOOLEAN
    BY DEF Init
  <2> QED
    BY <2>1, <2>2 DEF Init, TypeOK, Connections
<1>2. HeldMatchesConnection /\ WorkIsCovered /\ TakenIsDue /\ RequestsAreServed
        /\ QuietBeforeStart /\ StoppedIsDisarmed
  BY DEF Init, HeldMatchesConnection, WorkIsCovered, TakenIsDue, RequestsAreServed, QuietBeforeStart,
         StoppedIsDisarmed, Holding
<1> QED
  BY <1>1, <1>2 DEF IInv

(* Every step keeps the invariant: one case per action.                      *)
LEMMA StepHolds == IInv /\ [Next]_vars => IInv'
<1> SUFFICES ASSUME IInv, [Next]_vars
             PROVE  IInv'
  OBVIOUS
<1> USE DrainAssumption
<1> USE DEF IInv, TypeOK, HeldMatchesConnection, WorkIsCovered, TakenIsDue,
            RequestsAreServed, QuietBeforeStart, StoppedIsDisarmed, Holding, Connections,
            dbVars, connVars, drainVars
<1>0. /\ now \in Nat /\ \A i \in Items : dueAt[i] \in Nat /\ dueAt[i] # None
      /\ timer = None \/ timer \in Nat
  BY DEF Times
<1>00. ASSUME UNCHANGED <<timer, dueAt, now>> PROVE \A i \in Items : Timely(i) => Timely(i)'
  BY <1>00 DEF Timely
<1>1. CASE UNCHANGED vars
  BY <1>1, <1>00 DEF vars
<1>2. ASSUME NEW i \in Items, Commit(i) PROVE IInv'
  <2>1. TypeOK'
    <3>1. item' \in [Items -> {"absent", "open", "done"}]
      BY <1>2 DEF Commit
    <3>2. PICK t \in now..MaxTime : dueAt' = [dueAt EXCEPT ![i] = t]
      BY <1>2 DEF Commit
    <3>3. t \in Times
      BY <1>0, <3>2 DEF Times
    <3>4. dueAt' \in [Items -> Times]
      BY <3>2, <3>3
    <3>5. inFlight' \in BOOLEAN
      BY <1>2 DEF Commit
    <3> QED
      BY <1>2, <3>1, <3>4, <3>5 DEF Commit
  <2>2. UNCHANGED <<lifecycle, conn, held, run, taken, runAgain, timer>>
    BY <1>2 DEF Commit
  <2>3. WorkIsCovered'
    <3>1. conn = "up" => inFlight'
      BY <1>2 DEF Commit
    <3> QED
      <4>1. ASSUME NEW k \in Items, k # i PROVE item'[k] = item[k] /\ dueAt'[k] = dueAt[k]
        BY <1>2, <4>1 DEF Commit
      <4>2. now' = now
        BY <1>2 DEF Commit
      <4>3. ASSUME NEW k \in Items, k # i, Timely(k) PROVE Timely(k)'
        BY <2>2, <4>1, <4>2, <4>3 DEF Timely
      <4> QED
        BY <1>2, <2>2, <3>1, <4>1, <4>3 DEF Commit
  <2>4. TakenIsDue'
    <3>1. ASSUME run = "working" PROVE taken # i
      BY <1>2, <3>1 DEF Commit
    <3> QED
      BY <1>2, <2>2, <3>1 DEF Commit
  <2> QED
    BY <2>1, <2>2, <2>3, <2>4
<1>3. CASE Advance
  <2>1. \A i \in Items : Timely(i) => Timely(i)'
    BY <1>0, <1>3 DEF Advance, Timely
  <2>2. now' \in Times /\ TakenIsDue'
    BY <1>0, <1>3 DEF Advance, Times
  <2> QED
    BY <1>3, <2>1, <2>2 DEF Advance
<1>4. CASE RetryFires
  BY <1>4 DEF RetryFires, RequestDrain, Macrotask
<1>5. CASE Read
  BY <1>5, <1>00 DEF Read, Due, Open
<1>6. CASE Ask
  <2>1. CASE Open = {}
    <3>1. UNCHANGED timer
      BY <1>6, <2>1 DEF Ask
    <3> QED
      BY <1>6, <2>1, <3>1 DEF Ask, Repeat, Open
  <2>2. CASE Open # {}
    <3>1. PICK i \in Open : (\A k \in Open : dueAt[i] <= dueAt[k]) /\ ScheduleRetry(dueAt[i])
      BY <1>6, <2>2 DEF Ask
    <3>2. dueAt[i] \in Times /\ dueAt[i] # None /\ dueAt[i] \in Nat
      BY <1>0 DEF Open
    <3>3. timer' \in Times \cup {None}
          /\ (lifecycle = "started" => timer' # None /\ timer' <= dueAt[i])
      BY <1>0, <3>1, <3>2 DEF ScheduleRetry
    <3>4. lifecycle # "started" => timer' = timer
      BY <3>1 DEF ScheduleRetry
    <3>5. timer' # None => timer' \in Nat
      BY <3>3 DEF Times
    <3>6. ASSUME NEW k \in Items, item[k] = "open", lifecycle = "started" PROVE Timely(k)'
      <4>1. dueAt[i] <= dueAt[k] /\ dueAt[k] \in Nat
        BY <1>0, <3>1, <3>6 DEF Open
      <4>2. timer' <= dueAt[k]
        BY <3>2, <3>3, <3>5, <3>6, <4>1
      <4> QED
        BY <1>6, <3>3, <3>6, <4>2 DEF Ask, Timely
    <3> QED
      BY <1>6, <3>3, <3>4, <3>6 DEF Ask, Repeat
  <2> QED
    BY <2>1, <2>2
<1>7. CASE Work
  BY <1>7, <1>00 DEF Work, Repeat
<1>8. CASE Throw
  <2>1. now + 1 \in Times /\ now + 1 # None
    BY <1>8 DEF Throw, Times
  <2>2. timer' \in Times \cup {None}
        /\ (lifecycle = "started" => timer' # None /\ timer' <= now + 1)
        /\ (lifecycle # "started" => timer' = timer)
    BY <1>0, <1>8, <2>1 DEF Throw, ScheduleRetry
  <2>3. dueAt' \in [Items -> Times]
    BY <1>8, <2>1 DEF Throw
  <2>4. ASSUME NEW i \in Items, lifecycle = "started" PROVE Timely(i)'
    BY <1>8, <2>2, <2>4 DEF Throw, Timely
  <2> QED
    BY <1>8, <2>2, <2>3, <2>4 DEF Throw
<1>9. CASE Finally
  BY <1>9, <1>00 DEF Finally
<1>10. CASE Start
  BY <1>10, <1>00 DEF Start
<1>11. CASE Reconnect
  BY <1>11, <1>00 DEF Reconnect
<1>12. CASE Connect
  BY <1>12, <1>00 DEF Connect
<1>13. CASE Listen
  BY <1>13, <1>00 DEF Listen, RequestDrain
<1>14. CASE ConnectFails
  <2>1. TypeOK'
    <3>1. held' \in 0..1 /\ breaks' \in 0..MaxBreaks
      BY <1>14 DEF ConnectFails
    <3>2. inFlight' \in BOOLEAN
      BY <1>14 DEF ConnectFails
    <3> QED
      BY <1>14, <3>1, <3>2 DEF ConnectFails
  <2>2. (HeldMatchesConnection /\ WorkIsCovered /\ TakenIsDue /\ RequestsAreServed
          /\ QuietBeforeStart /\ StoppedIsDisarmed)'
    BY <1>14, <1>00 DEF ConnectFails
  <2> QED
    BY <2>1, <2>2
<1>15. CASE ReleaseClient
  <2>1. TypeOK'
    <3>1. held' \in 0..1 /\ breaks' \in 0..MaxBreaks
      BY <1>15 DEF ReleaseClient
    <3>2. inFlight' \in BOOLEAN
      BY <1>15 DEF ReleaseClient
    <3> QED
      BY <1>15, <3>1, <3>2 DEF ReleaseClient
  <2>2. (HeldMatchesConnection /\ WorkIsCovered /\ TakenIsDue /\ RequestsAreServed
          /\ QuietBeforeStart /\ StoppedIsDisarmed)'
    BY <1>15, <1>00 DEF ReleaseClient
  <2> QED
    BY <2>1, <2>2
<1>16. CASE Break
  <2>1. TypeOK'
    <3>1. held' \in 0..1 /\ breaks' \in 0..MaxBreaks
      BY <1>16 DEF Break
    <3>2. inFlight' \in BOOLEAN
      BY <1>16 DEF Break
    <3> QED
      BY <1>16, <3>1, <3>2 DEF Break
  <2>2. (HeldMatchesConnection /\ WorkIsCovered /\ TakenIsDue /\ RequestsAreServed
          /\ QuietBeforeStart /\ StoppedIsDisarmed)'
    BY <1>16, <1>00 DEF Break
  <2> QED
    BY <2>1, <2>2
<1>17. CASE ErrorEvent
  BY <1>17, <1>00 DEF ErrorEvent
<1>18. CASE Deliver
  BY <1>18, <1>00 DEF Deliver, RequestDrain
<1>19. CASE Stop
  BY <1>19 DEF Stop
<1>20. CASE StopReturns
  BY <1>20 DEF StopReturns
<1> QED
  BY <1>1, <1>2, <1>3, <1>4, <1>5, <1>6, <1>7, <1>8, <1>9, <1>10, <1>11, <1>12,
     <1>13, <1>14, <1>15, <1>16, <1>17, <1>18, <1>19, <1>20
  DEF Next

(* The inductive invariant holds in every reachable state.                   *)
LEMMA Invariance == Spec => []IInv
BY InitHolds, StepHolds, PTL DEF Spec

-----------------------------------------------------------------------------
(* Every reachable state is well typed; in particular at most one pool       *)
(* client is held and none is released twice.                                *)
THEOREM TypeCorrect == Spec => []TypeOK
BY Invariance, PTL DEF IInv

(* No wake-up is lost or too late: a connected controller that sits still    *)
(* and has heard every notification has a timer running while any work is    *)
(* open, and wakes up by its due time or within an error's backoff.          *)
THEOREM IdleStaysTimely == Spec => []IdleIsTimely
<1>1. IInv => IdleIsTimely
  BY DEF IInv, WorkIsCovered, Timely, RequestsAreServed, IdleIsTimely, Open
<1> QED
  BY <1>1, Invariance, PTL

(* No item is processed twice, or before it is due.                          *)
THEOREM WorkIsNotPremature == Spec => ProcessedWhenDue
<1>1. IInv /\ [Next]_vars =>
        [\A i \in Items :
           item[i] # "done" /\ item'[i] = "done" => item[i] = "open" /\ dueAt[i] <= now]_vars
  <2> SUFFICES ASSUME IInv, Next, NEW i \in Items, item[i] # "done", item'[i] = "done"
               PROVE  item[i] = "open" /\ dueAt[i] <= now
    OBVIOUS
  <2>1. item \in [Items -> {"absent", "open", "done"}]
    BY DEF IInv, TypeOK
  <2>2. CASE Work
    BY <2>1, <2>2 DEF Work, IInv, TakenIsDue
  <2>3. CASE ~Work
    BY <2>1, <2>3
    DEF Next, Commit, Advance, RetryFires, Read, Ask, Throw, Finally, Start, Reconnect, Connect,
        Listen, ConnectFails, ReleaseClient, Break, ErrorEvent, Deliver, Stop, StopReturns,
        dbVars, connVars, drainVars
  <2> QED
    BY <2>2, <2>3
<1> QED
  BY <1>1, Invariance, PTL DEF Spec, ProcessedWhenDue

(* A request made while a drain runs is never left behind.                   *)
THEOREM RequestsStayServed == Spec => []RequestsAreServed
BY Invariance, PTL DEF IInv

(* After stop() returned no drain, timer or client is left.                  *)
THEOREM ClosedStaysQuiet == Spec => []ClosedIsQuiet
<1>1. IInv => ClosedIsQuiet
  BY DEF IInv, StoppedIsDisarmed, HeldMatchesConnection, Holding, ClosedIsQuiet
<1> QED
  BY <1>1, Invariance, PTL

(* A pending retry is only ever brought forward.                             *)
THEOREM RetriesAreNotPostponed == Spec => RetryNeverPostponed
<1>1. TypeOK /\ [Next]_vars => [timer # None /\ timer' # None => timer' <= timer]_vars
  <2> SUFFICES ASSUME TypeOK, Next, timer # None, timer' # None
               PROVE  timer' <= timer
    OBVIOUS
  <2>1. timer \in Int /\ now \in Int
    BY DrainAssumption DEF TypeOK, Times
  <2>2. ASSUME NEW t, ScheduleRetry(t) PROVE timer' <= timer
    BY <2>1, <2>2, DrainAssumption DEF ScheduleRetry
  <2>3. CASE Ask
    <3>1. timer' = timer \/ \E t \in Times : ScheduleRetry(t)
      BY <2>3 DEF Ask, Open, TypeOK
    <3> QED
      BY <2>1, <2>2, <3>1
  <2>4. CASE Throw
    BY <2>2, <2>4 DEF Throw
  <2>5. CASE ~(Ask \/ Throw)
    <3>1. timer' = timer \/ timer' = None
      BY <2>5
      DEF Next, Commit, Advance, RetryFires, Read, Work, Finally, Start, Reconnect, Connect,
          Listen, ConnectFails, ReleaseClient, Break, ErrorEvent, Deliver, Stop, StopReturns,
          dbVars, connVars, drainVars
    <3> QED
      BY <2>1, <3>1
  <2> QED
    BY <2>3, <2>4, <2>5
<1> QED
  BY <1>1, TypeCorrect, PTL DEF Spec, RetryNeverPostponed

=============================================================================
