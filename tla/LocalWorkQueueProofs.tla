------------------------- MODULE LocalWorkQueueProofs -------------------------
(***************************************************************************)
(* Proofs about LocalWorkQueue, for any jobs, runtimes, attempts, restarts *)
(* and lost lock sessions.                                                 *)
(***************************************************************************)
EXTENDS LocalWorkQueue, TLAPS

(* An active row has been claimed, and by the newest claim of its job.       *)
ActiveIsNewest ==
  \A j \in Jobs : rows[j].status = "active" =>
    rows[j].attempts > 0 /\ rows[j].token = issued[j]

(* A runtime works on a job, and only while it is up.                        *)
HandsMatchRuntimes ==
  \A w \in Runtimes : hand[w].step # "idle" => hand[w].job \in Jobs /\ runtime[w] # "down"

(* The claim a runtime works on is no newer than the newest one; while it    *)
(* still holds the row, its attempt is the row's.                            *)
HandsAreClaims ==
  \A w \in Runtimes : hand[w].step # "idle" =>
    LET r == rows[hand[w].job] IN
    /\ hand[w].token <= issued[hand[w].job]
    /\ r.status = "active" /\ r.token = hand[w].token => r.attempts = hand[w].attempt

(* No two runtimes work on the same claim.                                   *)
ClaimsAreUnique ==
  \A v, w \in Runtimes :
    /\ hand[v].step # "idle" /\ hand[w].step # "idle"
    /\ hand[v].job = hand[w].job /\ hand[v].token = hand[w].token
    => v = w

(* As long as no lock session ended early, every runtime that is up holds    *)
(* the lock.                                                                 *)
LockHeldByRunning ==
  splits = 0 => \A w \in Runtimes : runtime[w] # "down" => lock = w

(* The types need an attempt to be left when a row is claimed.               *)
IInv ==
  /\ TypeOK
  /\ PendingHasAttemptLeft
  /\ ActiveIsNewest
  /\ RestartsAreFree
  /\ HandsMatchRuntimes
  /\ HandsAreClaims
  /\ ClaimsAreUnique
  /\ LockHeldByRunning

RowType ==
  [status : Statuses, attempts : 0..MaxAttempts, token : Nat,
   available : BOOLEAN, lapsed : BOOLEAN]

HandType ==
  [job : Jobs \cup {None}, token : Nat, attempt : 0..MaxAttempts,
   step : {"idle", "handling", "failing"}]

-----------------------------------------------------------------------------
(* What the row helpers return.                                              *)
LEMMA RowHasType ==
  ASSUME NEW status \in Statuses, NEW a \in 0..MaxAttempts, NEW t \in Nat, NEW v \in BOOLEAN
  PROVE  /\ Row(status, a, t, v) \in RowType
         /\ Row(status, a, t, v).status = status
         /\ Row(status, a, t, v).attempts = a
         /\ Row(status, a, t, v).token = t
BY DEF Row, RowType

\* Sweeping the lapsed leases keeps a row a row.
LEMMA SweptHasType ==
  ASSUME NEW r \in RowType
  PROVE  /\ Swept(r) \in RowType
         /\ Swept(r).attempts = r.attempts
         /\ Swept(r).status # r.status =>
              Swept(r).status = IF r.attempts < MaxAttempts THEN "pending" ELSE "failed"
         /\ Swept(r).status = "active" => Swept(r) = r
         /\ Swept(r).status # r.status => r.status = "active"
         /\ Swept(r).status = "completed" => r.status = "completed"
         /\ r.status = "completed" => Swept(r) = r
<1>1. CASE ~(r.status = "active" /\ r.lapsed)
  BY <1>1 DEF Swept, RowType
<1>2. CASE r.status = "active" /\ r.lapsed
  <2> DEFINE status == IF r.attempts >= MaxAttempts THEN "failed" ELSE "pending"
  <2>1. Swept(r) = Row(status, r.attempts, 0, r.available)
    BY <1>2 DEF Swept
  <2>2. status \in Statuses /\ r.attempts \in 0..MaxAttempts /\ r.available \in BOOLEAN
    BY DEF Statuses, RowType
  <2>3. Swept(r) \in RowType /\ Swept(r).status = status /\ Swept(r).attempts = r.attempts
    BY <2>1, <2>2, RowHasType
  <2>4. status = IF r.attempts < MaxAttempts THEN "pending" ELSE "failed"
    BY <2>2, WorkQueueAssumption
  <2> QED
    BY <1>2, <2>3, <2>4
<1> QED
  BY <1>1, <1>2

-----------------------------------------------------------------------------
(* What a step does to one row: it moves it along one of these ways.  An     *)
(* active row leaves by a lost attempt, by the word of a runtime that holds  *)
(* it, or by a restart.                                                      *)
RowMoves(j) ==
  LET r == rows[j]  s == rows'[j] IN
  \/ s = r /\ spent'[j] = spent[j] /\ issued'[j] = issued[j]
  \/ /\ s.status = r.status /\ s.attempts = r.attempts /\ s.token = r.token
     /\ spent'[j] = spent[j] /\ issued'[j] = issued[j]
  \/ /\ s.status = "pending" /\ s.attempts = 0
     /\ r.status \notin {"pending", "active"} /\ spent'[j] = 0 /\ issued'[j] = issued[j]
     /\ enqueues' # enqueues
  \/ /\ r.status = "pending" /\ s.status = "active"
     /\ s.attempts = r.attempts + 1 /\ s.token = issued'[j] /\ issued'[j] = issued[j] + 1
     /\ spent'[j] = spent[j]
  \/ /\ r.status = "active"
     /\ s.status = IF r.attempts < MaxAttempts THEN "pending" ELSE "failed"
     /\ s.attempts = r.attempts /\ spent'[j] = spent[j] + 1 /\ issued'[j] = issued[j]
  \/ /\ r.status = "active" /\ s.status \in {"completed", "failed"}
     /\ \E w \in Runtimes :
          hand[w].step # "idle" /\ hand[w].job = j /\ hand[w].token = r.token
     /\ s.attempts = r.attempts /\ spent'[j] = spent[j] + 1 /\ issued'[j] = issued[j]
  \/ /\ r.status = "active" /\ s.status = "pending"
     /\ s.attempts = r.attempts - 1 /\ spent'[j] = spent[j] /\ issued'[j] = issued[j]

(* Every step moves every row along one of these ways and keeps the types.   *)
LEMMA NextMoves ==
  ASSUME IInv, Next
  PROVE  TypeOK' /\ \A j \in Jobs : RowMoves(j)
<1> USE WorkQueueAssumption
<1>0. rows \in [Jobs -> RowType] /\ hand \in [Runtimes -> HandType]
  BY DEF IInv, TypeOK, RowType, HandType
<1>00. ASSUME rows' \in [Jobs -> RowType], hand' \in [Runtimes -> HandType],
              issued' \in [Jobs -> Nat], spent' \in [Jobs -> Nat],
              enqueues' \in 0..MaxEnqueues, UNCHANGED runtimeVars
       PROVE  TypeOK'
  BY <1>00 DEF IInv, TypeOK, RowType, HandType, runtimeVars
<1>1. ASSUME NEW j \in Jobs, Enqueue(j) PROVE TypeOK' /\ \A k \in Jobs : RowMoves(k)
  <2>1. Row("pending", 0, 0, TRUE) \in RowType
        /\ Row("pending", 0, 0, TRUE).status = "pending"
        /\ Row("pending", 0, 0, TRUE).attempts = 0
    <3>1. "pending" \in Statuses /\ 0 \in 0..MaxAttempts /\ 0 \in Nat /\ TRUE \in BOOLEAN
      BY DEF Statuses
    <3> QED
      BY <3>1 DEF Row, RowType
  <2>2. rows' \in [Jobs -> RowType] /\ spent' \in [Jobs -> Nat]
    BY <1>0, <1>1, <2>1 DEF Enqueue, IInv, TypeOK
  <2>3. enqueues' \in 0..MaxEnqueues /\ enqueues' # enqueues
    BY <1>1 DEF Enqueue, IInv, TypeOK
  <2>4. TypeOK'
    BY <1>0, <1>00, <1>1, <2>2, <2>3 DEF Enqueue, IInv, TypeOK
  <2>5. ASSUME NEW k \in Jobs PROVE RowMoves(k)
    BY <1>0, <1>1, <2>1, <2>3 DEF Enqueue, IInv, TypeOK, RowMoves
  <2> QED
    BY <2>4, <2>5
<1>2. ASSUME NEW j \in Jobs, BackoffElapses(j) \/ LeaseLapses(j)
      PROVE  TypeOK' /\ \A k \in Jobs : RowMoves(k)
  <2>0. rows[j] \in RowType
    BY <1>0
  <2>1. rows' \in [Jobs -> RowType]
    <3>1. CASE BackoffElapses(j)
      <4>1. [rows[j] EXCEPT !.available = TRUE] \in RowType
        BY <2>0 DEF RowType
      <4> QED
        BY <1>0, <3>1, <4>1 DEF BackoffElapses
    <3>2. CASE LeaseLapses(j)
      <4>1. [rows[j] EXCEPT !.lapsed = TRUE] \in RowType
        BY <2>0 DEF RowType
      <4> QED
        BY <1>0, <3>2, <4>1 DEF LeaseLapses
    <3> QED
      BY <1>2, <3>1, <3>2
  <2>2. TypeOK'
    BY <1>0, <1>00, <1>2, <2>1 DEF BackoffElapses, LeaseLapses, IInv, TypeOK
  <2>3. ASSUME NEW k \in Jobs PROVE RowMoves(k)
    BY <1>0, <1>2 DEF BackoffElapses, LeaseLapses, RowType, RowMoves, IInv, TypeOK
  <2> QED
    BY <2>2, <2>3
<1>3. ASSUME NEW w \in Runtimes, Claim(w) PROVE TypeOK' /\ \A k \in Jobs : RowMoves(k)
  <2> DEFINE swept == [j \in Jobs |-> Swept(rows[j])]
  <2>1. swept \in [Jobs -> RowType]
    BY <1>0, SweptHasType
  <2>2. spent' = [j \in Jobs |->
                    IF swept[j].status # rows[j].status THEN spent[j] + 1 ELSE spent[j]]
    BY <1>3 DEF Claim
  <2>3. spent' \in [Jobs -> Nat]
    BY <2>2 DEF IInv, TypeOK
  <2>4. ASSUME NEW k \in Jobs, rows'[k] = swept[k], issued'[k] = issued[k]
        PROVE  RowMoves(k)
    <3>1. rows[k] \in RowType /\ swept[k] = Swept(rows[k])
      BY <1>0
    <3>2. CASE swept[k].status = rows[k].status
      <4>1. swept[k] = rows[k]
        BY <3>1, <3>2 DEF Swept, Row, RowType
      <4> QED
        BY <2>2, <2>4, <3>2, <4>1 DEF RowMoves
    <3>3. CASE swept[k].status # rows[k].status
      <4>1. /\ rows[k].status = "active"
            /\ swept[k].status = IF rows[k].attempts < MaxAttempts THEN "pending" ELSE "failed"
            /\ swept[k].attempts = rows[k].attempts
        BY <3>1, <3>3, SweptHasType
      <4>2. spent'[k] = spent[k] + 1
        BY <2>2, <3>3
      <4> QED
        BY <2>4, <4>1, <4>2 DEF RowMoves
    <3> QED
      BY <3>2, <3>3
  <2>5. CASE rows' = swept /\ UNCHANGED <<issued, hand>>
    <3>1. TypeOK'
      BY <1>0, <1>00, <1>3, <2>1, <2>3, <2>5 DEF Claim, IInv, TypeOK
    <3> QED
      BY <2>4, <2>5, <3>1
  <2>6. ASSUME NEW j \in Jobs, NEW arrives \in BOOLEAN,
               rows[j].status = "pending",
               rows' = [swept EXCEPT ![j] = Row("active", rows[j].attempts + 1, issued[j] + 1, TRUE)],
               issued' = [issued EXCEPT ![j] = issued[j] + 1],
               hand' = IF arrives
                       THEN [hand EXCEPT ![w] = [job |-> j, token |-> issued[j] + 1,
                               attempt |-> rows[j].attempts + 1, step |-> "handling"]]
                       ELSE hand
        PROVE  TypeOK' /\ \A k \in Jobs : RowMoves(k)
    <3> DEFINE taken == Row("active", rows[j].attempts + 1, issued[j] + 1, TRUE)
    <3>1. rows[j].attempts + 1 \in 0..MaxAttempts
      BY <1>0, <2>6 DEF IInv, PendingHasAttemptLeft, RowType
    <3>2. issued[j] + 1 \in Nat
      BY DEF IInv, TypeOK
    <3>3. taken \in RowType /\ taken.status = "active"
          /\ taken.attempts = rows[j].attempts + 1 /\ taken.token = issued[j] + 1
      <4>1. "active" \in Statuses /\ TRUE \in BOOLEAN
        BY DEF Statuses
      <4> QED
        BY <3>1, <3>2, <4>1 DEF Row, RowType
    <3> HIDE DEF taken
    <3>4. rows' = [swept EXCEPT ![j] = taken]
      BY <2>6 DEF taken
    <3>5. rows' \in [Jobs -> RowType]
      BY <2>1, <3>3, <3>4
    <3>6. hand' \in [Runtimes -> HandType]
      BY <1>0, <2>6, <3>1, <3>2 DEF HandType
    <3>7. issued' \in [Jobs -> Nat]
      BY <2>6, <3>2 DEF IInv, TypeOK
    <3>8. TypeOK'
      BY <1>00, <1>3, <2>3, <3>5, <3>6, <3>7 DEF Claim, IInv, TypeOK
    <3>9. RowMoves(j)
      <4>1. rows'[j] = taken /\ issued'[j] = issued[j] + 1
        BY <2>1, <2>6, <3>4 DEF IInv, TypeOK
      <4>2. swept[j].status = rows[j].status
        BY <2>6 DEF Swept
      <4>3. spent'[j] = spent[j]
        BY <2>2, <4>2
      <4> QED
        BY <2>6, <3>3, <4>1, <4>3 DEF RowMoves
    <3>10. ASSUME NEW k \in Jobs, k # j PROVE RowMoves(k)
      <4>1. rows'[k] = swept[k] /\ issued'[k] = issued[k]
        BY <2>1, <2>6, <3>4, <3>10 DEF IInv, TypeOK
      <4> QED
        BY <2>4, <4>1
    <3> QED
      BY <3>8, <3>9, <3>10
  <2> QED
    BY <1>3, <2>5, <2>6 DEF Claim
<1>4. ASSUME NEW w \in Runtimes, Complete(w) PROVE TypeOK' /\ \A k \in Jobs : RowMoves(k)
  <2> DEFINE j == hand[w].job
  <2>1. j \in Jobs
    BY <1>4 DEF Complete, IInv, HandsMatchRuntimes
  <2>2. hand' \in [Runtimes -> HandType]
    BY <1>0, <1>4 DEF Complete, HandType, Idle
  <2>3. CASE UNCHANGED <<rows, spent>>
    BY <1>0, <1>00, <1>4, <2>2, <2>3 DEF Complete, IInv, TypeOK, RowMoves
  <2>4. CASE /\ Held(w)
             /\ rows' = [rows EXCEPT ![j] = Row("completed", @.attempts, 0, @.available)]
             /\ spent' = [spent EXCEPT ![j] = @ + 1]
    <3> DEFINE s == Row("completed", rows[j].attempts, 0, rows[j].available)
    <3>1. s \in RowType /\ s.status = "completed" /\ s.attempts = rows[j].attempts
      BY <1>0, <2>1, RowHasType DEF Statuses, RowType
    <3> HIDE DEF s
    <3>2. rows' = [rows EXCEPT ![j] = s]
      BY <1>0, <2>1, <2>4 DEF s
    <3>3. rows' \in [Jobs -> RowType] /\ spent' \in [Jobs -> Nat]
      <4>1. rows' \in [Jobs -> RowType]
        BY <1>0, <3>1, <3>2
      <4>2. spent' \in [Jobs -> Nat]
        BY <2>1, <2>4 DEF IInv, TypeOK
      <4> QED
        BY <4>1, <4>2
    <3>4. TypeOK'
      BY <1>00, <1>4, <2>2, <3>3 DEF Complete, IInv, TypeOK
    <3>5. ASSUME NEW k \in Jobs PROVE RowMoves(k)
      BY <1>0, <1>4, <2>1, <2>4, <3>1, <3>2 DEF Complete, Held, IInv, TypeOK, RowMoves
    <3> QED
      BY <3>4, <3>5
  <2> QED
    BY <1>4, <2>3, <2>4 DEF Complete
<1>5. ASSUME NEW w \in Runtimes, HandlerThrows(w) PROVE TypeOK' /\ \A k \in Jobs : RowMoves(k)
  <2>1. hand' \in [Runtimes -> HandType]
    BY <1>0, <1>5 DEF HandlerThrows, HandType
  <2> QED
    BY <1>0, <1>00, <1>5, <2>1 DEF HandlerThrows, queueVars, IInv, TypeOK, RowMoves
<1>6. ASSUME NEW w \in Runtimes, Fail(w) PROVE TypeOK' /\ \A k \in Jobs : RowMoves(k)
  <2> DEFINE j == hand[w].job
  <2>1. j \in Jobs
    BY <1>6 DEF Fail, IInv, HandsMatchRuntimes
  <2>2. hand' \in [Runtimes -> HandType]
    BY <1>0, <1>6 DEF Fail, HandType, Idle
  <2>3. CASE UNCHANGED <<rows, spent>>
    BY <1>0, <1>00, <1>6, <2>2, <2>3 DEF Fail, IInv, TypeOK, RowMoves
  <2>4. ASSUME NEW s \in {Row("pending", rows[j].attempts, 0, FALSE),
                          Row("failed", rows[j].attempts, 0, rows[j].available)},
               s.status = "pending" => rows[j].attempts < MaxAttempts,
               Held(w), rows' = [rows EXCEPT ![j] = s], spent' = [spent EXCEPT ![j] = @ + 1]
        PROVE  TypeOK' /\ \A k \in Jobs : RowMoves(k)
    <3>1. s \in RowType /\ s.status \in {"pending", "failed"} /\ s.attempts = rows[j].attempts
      <4>1. rows[j].attempts \in 0..MaxAttempts /\ rows[j].available \in BOOLEAN
            /\ "pending" \in Statuses /\ "failed" \in Statuses /\ 0 \in Nat /\ FALSE \in BOOLEAN
        BY <1>0, <2>1 DEF Statuses, RowType
      <4>2. CASE s = Row("pending", rows[j].attempts, 0, FALSE)
        BY <4>1, <4>2 DEF Row, RowType
      <4>3. CASE s = Row("failed", rows[j].attempts, 0, rows[j].available)
        BY <4>1, <4>3 DEF Row, RowType
      <4> QED
        BY <2>4, <4>2, <4>3
    <3>2. rows' \in [Jobs -> RowType] /\ spent' \in [Jobs -> Nat]
      <4>1. rows' \in [Jobs -> RowType]
        BY <1>0, <2>4, <3>1
      <4>2. spent' \in [Jobs -> Nat]
        BY <2>1, <2>4 DEF IInv, TypeOK
      <4> QED
        BY <4>1, <4>2
    <3>3. TypeOK'
      BY <1>00, <1>6, <2>2, <3>2 DEF Fail, IInv, TypeOK
    <3>4. ASSUME NEW k \in Jobs PROVE RowMoves(k)
      BY <1>0, <1>6, <2>1, <2>4, <3>1 DEF Fail, Held, IInv, TypeOK, RowMoves
    <3> QED
      BY <3>3, <3>4
  <2>5. ASSUME Held(w), NEW transient \in BOOLEAN, Retry(w, transient)
        PROVE  rows[j].attempts < MaxAttempts
    BY <1>6, <2>5 DEF Fail, Held, Retry, IInv, HandsAreClaims
  <2>6. ASSUME NEW transient \in BOOLEAN, Held(w),
               rows' = [rows EXCEPT ![j] =
                          IF Retry(w, transient) THEN Row("pending", @.attempts, 0, FALSE)
                          ELSE Row("failed", @.attempts, 0, @.available)],
               spent' = [spent EXCEPT ![j] = @ + 1]
        PROVE  TypeOK' /\ \A k \in Jobs : RowMoves(k)
    <3>1. CASE Retry(w, transient)
      BY <1>0, <2>1, <2>4, <2>5, <2>6, <3>1
    <3>2. CASE ~Retry(w, transient)
      <4>1. Row("failed", rows[j].attempts, 0, rows[j].available).status # "pending"
        BY DEF Row
      <4> QED
        BY <1>0, <2>1, <2>4, <2>6, <3>2, <4>1
    <3> QED
      BY <3>1, <3>2
  <2> QED
    BY <1>6, <2>3, <2>6 DEF Fail
<1>7. ASSUME NEW w \in Runtimes, Recover(w) PROVE TypeOK' /\ \A k \in Jobs : RowMoves(k)
  <2> DEFINE s(k) == Row("pending",
                         IF rows[k].attempts > 0 THEN rows[k].attempts - 1 ELSE 0, 0, TRUE)
  <2>1. ASSUME NEW k \in Jobs, rows[k].status = "active"
        PROVE  s(k) \in RowType /\ s(k).status = "pending" /\ s(k).attempts = rows[k].attempts - 1
    <3>1. rows[k].attempts > 0 /\ rows[k].attempts - 1 \in 0..MaxAttempts
      BY <1>0, <2>1 DEF IInv, ActiveIsNewest, RowType
    <3>2. "pending" \in Statuses /\ TRUE \in BOOLEAN /\ 0 \in Nat
      BY DEF Statuses
    <3>3. s(k) = Row("pending", rows[k].attempts - 1, 0, TRUE)
      BY <3>1
    <3> QED
      BY <3>1, <3>2, <3>3 DEF Row, RowType
  <2> HIDE DEF s
  <2>2. rows' = [k \in Jobs |-> IF rows[k].status = "active" THEN s(k) ELSE rows[k]]
    BY <1>7 DEF Recover, s
  <2>3. rows' \in [Jobs -> RowType]
    BY <1>0, <2>1, <2>2
  <2>4. runtime' \in [Runtimes -> {"down", "recovering", "polling", "draining"}]
    BY <1>7 DEF Recover, IInv, TypeOK
  <2>5. TypeOK'
    BY <1>0, <1>7, <2>3, <2>4 DEF Recover, IInv, TypeOK, RowType
  <2>6. ASSUME NEW k \in Jobs PROVE RowMoves(k)
    BY <1>7, <2>1, <2>2 DEF Recover, RowMoves
  <2> QED
    BY <2>5, <2>6
<1>8. ASSUME NEW w \in Runtimes,
             Start(w) \/ Die(w) \/ Close(w) \/ CloseReturns(w)
      PROVE  TypeOK' /\ \A k \in Jobs : RowMoves(k)
  <2>1. UNCHANGED queueVars
    BY <1>8 DEF Start, Die, Close, CloseReturns
  <2>2. lock' \in Runtimes \cup {None}
    BY <1>8 DEF Start, Die, Close, CloseReturns, Unlocked, IInv, TypeOK
  <2>3. runtime' \in [Runtimes -> {"down", "recovering", "polling", "draining"}]
    BY <1>8 DEF Start, Die, Close, CloseReturns, IInv, TypeOK
  <2>4. stops' \in 0..MaxStops /\ splits' \in 0..MaxSplits
    BY <1>8 DEF Start, Die, Close, CloseReturns, IInv, TypeOK
  <2>5. hand' \in [Runtimes -> HandType]
    BY <1>0, <1>8 DEF Start, Die, Close, CloseReturns, Idle, HandType
  <2>6. TypeOK'
    BY <2>1, <2>2, <2>3, <2>4, <2>5 DEF queueVars, IInv, TypeOK, HandType
  <2> QED
    BY <2>1, <2>6 DEF queueVars, RowMoves
<1>9. CASE LockSessionEnds
  <2>1. splits' \in 0..MaxSplits
    BY <1>9 DEF LockSessionEnds, IInv, TypeOK
  <2>2. TypeOK'
    BY <1>9, <2>1 DEF LockSessionEnds, queueVars, IInv, TypeOK
  <2> QED
    BY <1>9, <2>2 DEF LockSessionEnds, queueVars, RowMoves
<1> QED
  BY <1>1, <1>2, <1>3, <1>4, <1>5, <1>6, <1>7, <1>8, <1>9 DEF Next

-----------------------------------------------------------------------------
\* The initial states satisfy the invariant.
LEMMA InitHolds == Init => IInv
<1> SUFFICES ASSUME Init PROVE IInv
  OBVIOUS
<1> USE WorkQueueAssumption
<1>1. TypeOK
  <2>1. rows \in [Jobs -> RowType]
    BY DEF Init, Row, RowType, Statuses
  <2>2. hand \in [Runtimes -> HandType]
    BY DEF Init, Idle, HandType
  <2>3. issued \in [Jobs -> Nat] /\ spent \in [Jobs -> Nat]
    BY DEF Init
  <2>4. enqueues \in 0..MaxEnqueues /\ stops \in 0..MaxStops /\ splits \in 0..MaxSplits
    BY DEF Init
  <2>5. lock \in Runtimes \cup {None}
        /\ runtime \in [Runtimes -> {"down", "recovering", "polling", "draining"}]
    BY DEF Init
  <2> QED
    BY <2>1, <2>2, <2>3, <2>4, <2>5 DEF TypeOK, RowType, HandType
<1>2. PendingHasAttemptLeft /\ ActiveIsNewest /\ RestartsAreFree
  BY DEF Init, Row, PendingHasAttemptLeft, ActiveIsNewest, RestartsAreFree
<1>3. HandsMatchRuntimes /\ HandsAreClaims /\ ClaimsAreUnique /\ LockHeldByRunning
  BY DEF Init, Idle, HandsMatchRuntimes, HandsAreClaims, ClaimsAreUnique, LockHeldByRunning
<1> QED
  BY <1>1, <1>2, <1>3 DEF IInv

(* The clauses about rows follow from the ways rows move.                    *)
LEMMA RowsHold ==
  ASSUME IInv, Next
  PROVE  PendingHasAttemptLeft' /\ ActiveIsNewest' /\ RestartsAreFree'
<1> USE WorkQueueAssumption
<1>1. ASSUME NEW j \in Jobs
      PROVE  /\ rows'[j].status = "pending" => rows'[j].attempts < MaxAttempts
             /\ rows'[j].status = "active" =>
                  rows'[j].attempts > 0 /\ rows'[j].token = issued'[j]
             /\ rows'[j].attempts =
                  spent'[j] + (IF rows'[j].status = "active" THEN 1 ELSE 0)
  <2>1. RowMoves(j)
    BY NextMoves
  <2>2. rows[j].attempts \in 0..MaxAttempts /\ spent[j] \in Nat /\ issued[j] \in Nat
    BY DEF IInv, TypeOK
  <2>3. /\ rows[j].status = "pending" => rows[j].attempts < MaxAttempts
        /\ rows[j].status = "active" => rows[j].attempts > 0 /\ rows[j].token = issued[j]
        /\ rows[j].attempts = spent[j] + (IF rows[j].status = "active" THEN 1 ELSE 0)
    BY DEF IInv, PendingHasAttemptLeft, ActiveIsNewest, RestartsAreFree
  <2> QED
    BY <2>1, <2>2, <2>3 DEF RowMoves
<1> QED
  BY <1>1 DEF PendingHasAttemptLeft, ActiveIsNewest, RestartsAreFree

(* A claim that is kept in hand stays a claim.                               *)
LEMMA KeptHand ==
  ASSUME IInv, Next, NEW w \in Runtimes, hand[w].step # "idle",
         hand'[w].job = hand[w].job, hand'[w].token = hand[w].token,
         hand'[w].attempt = hand[w].attempt
  PROVE  LET r == rows'[hand'[w].job] IN
         /\ hand'[w].token <= issued'[hand'[w].job]
         /\ r.status = "active" /\ r.token = hand'[w].token => r.attempts = hand'[w].attempt
<1> DEFINE j == hand[w].job
<1>1. j \in Jobs
  BY DEF IInv, HandsMatchRuntimes
<1>2. RowMoves(j)
  BY <1>1, NextMoves
<1>3. hand[w].token \in Nat /\ issued[j] \in Nat
  BY <1>1 DEF IInv, TypeOK
<1>4. /\ hand[w].token <= issued[j]
      /\ rows[j].status = "active" /\ rows[j].token = hand[w].token =>
           rows[j].attempts = hand[w].attempt
  BY DEF IInv, HandsAreClaims
<1> QED
  BY <1>1, <1>2, <1>3, <1>4 DEF RowMoves

\* Every step keeps the relation between runtimes and the jobs in their hands.
LEMMA HandsHold ==
  ASSUME IInv, Next
  PROVE  HandsMatchRuntimes' /\ HandsAreClaims' /\ LockHeldByRunning'
<1> USE WorkQueueAssumption
<1>0. hand \in [Runtimes -> HandType]
      /\ runtime \in [Runtimes -> {"down", "recovering", "polling", "draining"}]
      /\ splits \in Nat /\ lock \in Runtimes \cup {None}
  BY DEF IInv, TypeOK, HandType
<1>1. ASSUME UNCHANGED <<hand, runtime>>
      PROVE  HandsMatchRuntimes' /\ HandsAreClaims'
  BY <1>1, KeptHand DEF IInv, HandsMatchRuntimes, HandsAreClaims
<1>2. ASSUME UNCHANGED runtimeVars PROVE LockHeldByRunning'
  BY <1>2 DEF runtimeVars, IInv, LockHeldByRunning
<1>3. ASSUME NEW j \in Jobs, Enqueue(j) \/ BackoffElapses(j) \/ LeaseLapses(j)
      PROVE  HandsMatchRuntimes' /\ HandsAreClaims' /\ LockHeldByRunning'
  BY <1>1, <1>2, <1>3 DEF Enqueue, BackoffElapses, LeaseLapses, runtimeVars
<1>4. ASSUME NEW w \in Runtimes, Claim(w)
      PROVE  HandsMatchRuntimes' /\ HandsAreClaims' /\ LockHeldByRunning'
  <2>1. CASE UNCHANGED hand
    BY <1>1, <1>2, <1>4, <2>1 DEF Claim, runtimeVars
  <2>2. ASSUME NEW j \in Jobs,
               rows'[j] = Row("active", rows[j].attempts + 1, issued[j] + 1, TRUE),
               issued'[j] = issued[j] + 1,
               hand' = [hand EXCEPT ![w] = [job |-> j, token |-> issued[j] + 1,
                          attempt |-> rows[j].attempts + 1, step |-> "handling"]]
        PROVE  HandsMatchRuntimes' /\ HandsAreClaims' /\ LockHeldByRunning'
    <3>1. HandsMatchRuntimes'
      BY <1>0, <1>4, <2>2 DEF Claim, runtimeVars, IInv, HandsMatchRuntimes
    <3>2. ASSUME NEW v \in Runtimes, hand'[v].step # "idle"
          PROVE  LET r == rows'[hand'[v].job] IN
                 /\ hand'[v].token <= issued'[hand'[v].job]
                 /\ r.status = "active" /\ r.token = hand'[v].token =>
                      r.attempts = hand'[v].attempt
      <4>1. CASE v = w
        <5>1. hand'[v] = [job |-> j, token |-> issued[j] + 1,
                          attempt |-> rows[j].attempts + 1, step |-> "handling"]
          BY <1>0, <2>2, <4>1
        <5>2. issued[j] \in Nat
          BY DEF IInv, TypeOK
        <5> QED
          BY <2>2, <5>1, <5>2 DEF Row
      <4>2. CASE v # w
        <5>1. hand'[v] = hand[v]
          BY <1>0, <2>2, <4>2
        <5> QED
          BY <3>2, <5>1, KeptHand
      <4> QED
        BY <4>1, <4>2
    <3>3. HandsAreClaims'
      BY <3>2 DEF HandsAreClaims
    <3> QED
      BY <1>2, <1>4, <3>1, <3>3 DEF Claim
  <2>3. ASSUME ~ UNCHANGED hand
        PROVE  \E j \in Jobs :
                 /\ rows'[j] = Row("active", rows[j].attempts + 1, issued[j] + 1, TRUE)
                 /\ issued'[j] = issued[j] + 1
                 /\ hand' = [hand EXCEPT ![w] = [job |-> j, token |-> issued[j] + 1,
                               attempt |-> rows[j].attempts + 1, step |-> "handling"]]
    BY <1>4, <2>3 DEF Claim, IInv, TypeOK
  <2> QED
    BY <2>1, <2>2, <2>3
<1>5. ASSUME NEW w \in Runtimes, Complete(w) \/ HandlerThrows(w) \/ Fail(w)
      PROVE  HandsMatchRuntimes' /\ HandsAreClaims' /\ LockHeldByRunning'
  <2>1. hand[w].step # "idle"
    BY <1>5 DEF Complete, HandlerThrows, Fail
  <2>2. \/ hand' = [hand EXCEPT ![w] = Idle]
        \/ hand' = [hand EXCEPT ![w] = [@ EXCEPT !.step = "failing"]]
    BY <1>0, <1>5 DEF Complete, HandlerThrows, Fail
  <2>3. UNCHANGED runtimeVars
    BY <1>5 DEF Complete, HandlerThrows, Fail
  <2>4. ASSUME NEW v \in Runtimes, hand'[v].step # "idle"
        PROVE  /\ hand[v].step # "idle" /\ hand'[v].job = hand[v].job
               /\ hand'[v].token = hand[v].token /\ hand'[v].attempt = hand[v].attempt
    BY <1>0, <2>1, <2>2, <2>4 DEF Idle, HandType
  <2>5. HandsMatchRuntimes'
    BY <2>3, <2>4 DEF runtimeVars, IInv, HandsMatchRuntimes
  <2>6. HandsAreClaims'
    BY <2>4, KeptHand DEF HandsAreClaims
  <2> QED
    BY <1>2, <2>3, <2>5, <2>6
<1>6. ASSUME NEW w \in Runtimes, Start(w) \/ Recover(w) \/ Close(w)
      PROVE  HandsMatchRuntimes' /\ HandsAreClaims' /\ LockHeldByRunning'
  <2>1. UNCHANGED <<hand, splits>>
    BY <1>6 DEF Start, Recover, Close
  <2>2. \A v \in Runtimes : hand[v].step # "idle" => runtime'[v] # "down"
    BY <1>0, <1>6 DEF Start, Recover, Close, IInv, HandsMatchRuntimes
  <2>3. HandsMatchRuntimes' /\ HandsAreClaims'
    BY <2>1, <2>2, KeptHand DEF IInv, HandsMatchRuntimes, HandsAreClaims
  <2>4. LockHeldByRunning'
    <3>1. CASE Start(w)
      BY <1>0, <2>1, <3>1 DEF Start, IInv, LockHeldByRunning
    <3>2. CASE Recover(w)
      BY <1>0, <2>1, <3>2 DEF Recover, IInv, LockHeldByRunning
    <3>3. CASE Close(w)
      BY <1>0, <2>1, <3>3 DEF Close, IInv, LockHeldByRunning
    <3> QED
      BY <1>6, <3>1, <3>2, <3>3
  <2> QED
    BY <2>3, <2>4
<1>7. ASSUME NEW w \in Runtimes, Die(w) \/ CloseReturns(w)
      PROVE  HandsMatchRuntimes' /\ HandsAreClaims' /\ LockHeldByRunning'
  <2>1. /\ runtime' = [runtime EXCEPT ![w] = "down"] /\ lock' = Unlocked(w)
        /\ UNCHANGED splits
        /\ runtime[w] # "down"
    BY <1>7 DEF Die, CloseReturns
  <2>2. hand'[w].step = "idle" /\ \A v \in Runtimes : v # w => hand'[v] = hand[v]
    BY <1>0, <1>7 DEF Die, CloseReturns, Idle
  <2>3. HandsMatchRuntimes'
    BY <1>0, <2>1, <2>2 DEF IInv, HandsMatchRuntimes
  <2>4. HandsAreClaims'
    BY <2>2, KeptHand DEF HandsAreClaims
  <2>5. LockHeldByRunning'
    BY <1>0, <2>1 DEF Unlocked, IInv, LockHeldByRunning
  <2> QED
    BY <2>3, <2>4, <2>5
<1>8. CASE LockSessionEnds
  <2>1. splits' # 0
    BY <1>0, <1>8 DEF LockSessionEnds
  <2> QED
    BY <1>1, <1>8, <2>1 DEF LockSessionEnds, LockHeldByRunning
<1> QED
  BY <1>3, <1>4, <1>5, <1>6, <1>7, <1>8 DEF Next

-----------------------------------------------------------------------------
(* What a step does to a claim in hand: it is kept, or it is the newest one, *)
(* given out by this very step.                                              *)
Kept(w) ==
  /\ hand[w].step # "idle" /\ hand'[w].job = hand[w].job
  /\ hand'[w].token = hand[w].token /\ hand'[w].attempt = hand[w].attempt

Given(w) ==
  /\ hand'[w].job \in Jobs
  /\ issued'[hand'[w].job] = issued[hand'[w].job] + 1
  /\ hand'[w].token = issued[hand'[w].job] + 1

(* Every step keeps the claims in hand, drops some, or gives out a new one.  *)
LEMMA NextHands ==
  ASSUME IInv, Next
  PROVE  /\ \A v \in Runtimes : hand'[v].step = "idle" \/ Kept(v) \/ Given(v)
         /\ \A u, v \in Runtimes :
              u = v \/ hand'[u].step = "idle" \/ hand'[v].step = "idle" \/ Kept(u) \/ Kept(v)
<1>0. hand \in [Runtimes -> HandType]
  BY DEF IInv, TypeOK, HandType
<1>1. SUFFICES \E w \in Runtimes \cup {None} : \A v \in Runtimes :
                 \/ hand'[v].step = "idle" \/ Kept(v)
                 \/ v = w /\ Given(v)
  BY <1>1
<1>2. ASSUME UNCHANGED hand
      PROVE  \A v \in Runtimes : hand'[v].step = "idle" \/ Kept(v)
  BY <1>2 DEF Kept
<1>3. ASSUME NEW w \in Runtimes, Claim(w), ~ UNCHANGED hand
      PROVE  \A v \in Runtimes : hand'[v].step = "idle" \/ Kept(v) \/ (v = w /\ Given(v))
  <2>1. PICK j \in Jobs :
          /\ issued' = [issued EXCEPT ![j] = issued[j] + 1]
          /\ hand' = [hand EXCEPT ![w] = [job |-> j, token |-> issued[j] + 1,
                         attempt |-> rows[j].attempts + 1, step |-> "handling"]]
    BY <1>3 DEF Claim
  <2>2. Given(w)
    BY <1>0, <2>1 DEF Given, IInv, TypeOK
  <2>3. ASSUME NEW v \in Runtimes, v # w PROVE hand'[v].step = "idle" \/ Kept(v)
    BY <1>0, <2>1, <2>3 DEF Kept
  <2> QED
    BY <2>2, <2>3
<1>4. ASSUME NEW w \in Runtimes, Complete(w) \/ HandlerThrows(w) \/ Fail(w)
      PROVE  \A v \in Runtimes : hand'[v].step = "idle" \/ Kept(v)
  <2>1. /\ hand[w].step # "idle"
        /\ \/ hand' = [hand EXCEPT ![w] = Idle]
           \/ hand' = [hand EXCEPT ![w] = [@ EXCEPT !.step = "failing"]]
    BY <1>0, <1>4 DEF Complete, HandlerThrows, Fail
  <2> QED
    BY <1>0, <2>1 DEF Kept, Idle, HandType
<1>5. ASSUME NEW w \in Runtimes, Die(w)
      PROVE  \A v \in Runtimes : hand'[v].step = "idle" \/ Kept(v)
  BY <1>0, <1>5 DEF Die, Kept, Idle
<1>6. ASSUME NEW j \in Jobs, Enqueue(j) \/ BackoffElapses(j) \/ LeaseLapses(j)
      PROVE  UNCHANGED hand
  BY <1>6 DEF Enqueue, BackoffElapses, LeaseLapses
<1>7. ASSUME NEW w \in Runtimes, Start(w) \/ Recover(w) \/ Close(w) \/ CloseReturns(w)
      PROVE  UNCHANGED hand
  BY <1>7 DEF Start, Recover, Close, CloseReturns
<1>8. LockSessionEnds => UNCHANGED hand
  BY DEF LockSessionEnds
<1> QED
  BY <1>2, <1>3, <1>4, <1>5, <1>6, <1>7, <1>8 DEF Next

(* A claim given out is newer than every claim in hand, so none is shared.   *)
LEMMA UniquenessHolds ==
  ASSUME IInv, Next PROVE ClaimsAreUnique'
<1> SUFFICES ASSUME NEW v \in Runtimes, NEW w \in Runtimes,
                    hand'[v].step # "idle", hand'[w].step # "idle",
                    hand'[v].job = hand'[w].job, hand'[v].token = hand'[w].token
             PROVE  v = w
  BY DEF ClaimsAreUnique
<1>1. ASSUME NEW x \in Runtimes, NEW y \in Runtimes, Kept(x), Given(y),
             hand'[x].job = hand'[y].job
      PROVE  hand'[x].token # hand'[y].token
  <2>1. hand[x].token <= issued[hand[x].job]
    BY <1>1 DEF Kept, IInv, HandsAreClaims
  <2>2. hand[x].token \in Nat /\ issued[hand'[y].job] \in Nat
    BY <1>1 DEF Given, IInv, TypeOK
  <2> QED
    BY <1>1, <2>1, <2>2 DEF Kept, Given
<1>2. CASE Kept(v) /\ Kept(w)
  BY <1>2 DEF Kept, IInv, ClaimsAreUnique
<1>3. CASE ~(Kept(v) /\ Kept(w))
  BY <1>1, <1>3, NextHands
<1> QED
  BY <1>2, <1>3

(* The inductive invariant holds in every reachable state.                   *)
LEMMA Invariance == Spec => []IInv
<1>1. IInv /\ [Next]_vars => IInv'
  <2>1. IInv /\ Next => IInv'
    BY NextMoves, RowsHold, HandsHold, UniquenessHolds DEF IInv
  <2>2. IInv /\ UNCHANGED vars => IInv'
    BY DEF vars, IInv, TypeOK, PendingHasAttemptLeft, ActiveIsNewest, RestartsAreFree,
           HandsMatchRuntimes, HandsAreClaims, ClaimsAreUnique, LockHeldByRunning
  <2> QED
    BY <2>1, <2>2
<1> QED
  BY <1>1, InitHolds, PTL DEF Spec

-----------------------------------------------------------------------------
(* Every reachable state is well typed; in particular no row counts more     *)
(* attempts than it may have.                                                *)
THEOREM TypeCorrect == Spec => []TypeOK
BY Invariance, PTL DEF IInv

(* A row that may be claimed has an attempt left.                            *)
THEOREM PendingRowsHaveAttempts == Spec => []PendingHasAttemptLeft
BY Invariance, PTL DEF IInv

(* Restarts cost no attempt, however many there are.                         *)
THEOREM RestartsStayFree == Spec => []RestartsAreFree
BY Invariance, PTL DEF IInv

(* As long as no lock session ends before its process, no job is handled by  *)
(* two processes.                                                            *)
THEOREM OneHandler == Spec => []OneHandlerPerJob
<1>1. IInv => OneHandlerPerJob
  BY DEF IInv, HandsMatchRuntimes, LockHeldByRunning, OneHandlerPerJob
<1> QED
  BY <1>1, Invariance, PTL

(* Only the newest claim of a job completes it.                              *)
THEOREM CompletionsAreCurrent == Spec => CompletedByNewestClaim
<1>1. IInv /\ [Next]_vars =>
        [\A j \in Jobs :
           rows[j].status # "completed" /\ rows'[j].status = "completed" =>
             \E w \in Runtimes : hand[w].job = j /\ hand[w].token = issued[j]]_vars
  <2> SUFFICES ASSUME IInv, Next, NEW j \in Jobs,
                      rows[j].status # "completed", rows'[j].status = "completed"
               PROVE  \E w \in Runtimes : hand[w].job = j /\ hand[w].token = issued[j]
    OBVIOUS
  <2>1. RowMoves(j)
    BY NextMoves
  <2> QED
    BY <2>1 DEF RowMoves, IInv, ActiveIsNewest
<1> QED
  BY <1>1, Invariance, PTL DEF Spec, CompletedByNewestClaim

(* A completed job only runs again after another enqueue.                    *)
THEOREM CompletedJobsStay == Spec => CompletedIsFinal
<1>1. IInv /\ [Next]_vars =>
        [\A j \in Jobs :
           rows[j].status = "completed" /\ rows'[j].status # "completed" =>
             enqueues' # enqueues]_vars
  <2> SUFFICES ASSUME IInv, Next, NEW j \in Jobs,
                      rows[j].status = "completed", rows'[j].status # "completed"
               PROVE  enqueues' # enqueues
    OBVIOUS
  <2>1. RowMoves(j)
    BY NextMoves
  <2> QED
    BY <2>1 DEF RowMoves
<1> QED
  BY <1>1, Invariance, PTL DEF Spec, CompletedIsFinal

-----------------------------------------------------------------------------
(* What the refinement mapping makes of one row.                             *)
LEMMA PhaseOfStatus ==
  ASSUME NEW j \in Jobs, TypeOK
  PROVE  /\ rows[j].status = "absent" => Phase(j) = "none"
         /\ rows[j].status = "pending" => Phase(j) = "waiting"
         /\ rows[j].status = "active" => Phase(j) = "running"
         /\ rows[j].status = "completed" => Phase(j) = "done"
         /\ rows[j].status = "failed" => Phase(j) = "abandoned"
         /\ Phase(j) \in Ledger!Phases
<1>1. rows[j].status \in Statuses
  BY DEF TypeOK
<1> QED
  BY <1>1 DEF Phase, Statuses, Ledger!Phases

(* As long as a row keeps its claim it gains no holder.                      *)
LEMMA HoldersOnlyLeave ==
  ASSUME IInv, Next, NEW j \in Jobs,
         rows'[j].status = rows[j].status, rows'[j].token = rows[j].token,
         issued'[j] = issued[j]
  PROVE  Holders(j)' \subseteq Holders(j)
<1> SUFFICES ASSUME NEW w \in Runtimes, w \in Holders(j)' PROVE w \in Holders(j)
  BY DEF Holders
<1>1. /\ hand'[w].step # "idle" /\ hand'[w].job = j
      /\ rows'[j].status = "active" /\ rows'[j].token = hand'[w].token
  BY DEF Holders, Held
<1>2. Kept(w) \/ Given(w)
  BY <1>1, NextHands
<1>3. issued[j] \in Nat
  BY DEF IInv, TypeOK
<1>4. Kept(w)
  BY <1>1, <1>2, <1>3 DEF Given
<1> QED
  BY <1>1, <1>4 DEF Kept, Holders, Held

(* What a step does to one job is nothing or a step of RetryLedger.          *)
LEMMA JobMoves ==
  ASSUME IInv, Next, IInv', NEW j \in Jobs
  PROVE  Ledger!Stay(j) \/ Ledger!Change(j)
<1> DEFINE r == rows[j]  s == rows'[j]
           ph == [k \in Jobs |-> Phase(k)]
           ch == [k \in Jobs |-> Charged(k)]
           ho == [k \in Jobs |-> Holders(k)]
<1>0. /\ ph[j] = Phase(j) /\ ph'[j] = Phase(j)'
      /\ ch[j] = Charged(j) /\ ch'[j] = Charged(j)'
      /\ ho[j] = Holders(j) /\ ho'[j] = Holders(j)'
  OBVIOUS
<1>1. RowMoves(j)
  BY NextMoves
<1>2. /\ r.attempts \in 0..MaxAttempts /\ s.attempts \in 0..MaxAttempts
      /\ r.status \in Statuses /\ s.status \in Statuses
  BY DEF IInv, TypeOK
<1>3. /\ r.status = "absent" => Phase(j) = "none"
      /\ r.status = "pending" => Phase(j) = "waiting"
      /\ r.status = "active" => Phase(j) = "running"
      /\ r.status = "completed" => Phase(j) = "done"
      /\ r.status = "failed" => Phase(j) = "abandoned"
  BY PhaseOfStatus DEF IInv
<1>4. /\ s.status = "absent" => Phase(j)' = "none"
      /\ s.status = "pending" => Phase(j)' = "waiting"
      /\ s.status = "active" => Phase(j)' = "running"
      /\ s.status = "completed" => Phase(j)' = "done"
      /\ s.status = "failed" => Phase(j)' = "abandoned"
  BY <1>2 DEF Phase, Statuses
<1>5. /\ r.status # "active" => Holders(j) = {} /\ Charged(j) = r.attempts
      /\ s.status # "active" => Holders(j)' = {} /\ Charged(j)' = s.attempts
      /\ r.status = "active" => Charged(j) = r.attempts - 1
      /\ s.status = "active" => Charged(j)' = s.attempts - 1
  BY <1>2 DEF Holders, Held, Charged
<1> HIDE DEF ph, ch, ho
<1>6. CASE s.status = r.status /\ s.attempts = r.attempts /\ s.token = r.token
           /\ issued'[j] = issued[j]
  <2>1. Phase(j)' = Phase(j) /\ Charged(j)' = Charged(j)
    BY <1>2, <1>3, <1>4, <1>5, <1>6 DEF Statuses
  <2>2. Holders(j)' \subseteq Holders(j)
    BY <1>6, HoldersOnlyLeave
  <2>3. CASE r.status = "active"
    <3>1. Ledger!Orphan(j)
      BY <1>0, <1>2, <1>3, <1>5, <2>1, <2>2, <2>3
      DEF ph, ch, ho, Ledger!Orphan, Ledger!Move, Ledger!Charge
    <3> QED
      BY <3>1 DEF Ledger!Change
  <2>4. CASE r.status # "active"
    BY <1>0, <1>5, <1>6, <2>1, <2>4 DEF ph, ch, ho, Ledger!Stay
  <2> QED
    BY <2>3, <2>4
<1>7. CASE s.status = "pending" /\ s.attempts = 0 /\ r.status \notin {"pending", "active"}
  <2>1. Ledger!Request(j)
    BY <1>0, <1>2, <1>3, <1>4, <1>5, <1>7
    DEF ph, ch, ho, Statuses, Ledger!Request, Ledger!Move, Ledger!Release
  <2> QED
    BY <2>1 DEF Ledger!Change
<1>8. CASE r.status = "pending" /\ s.status = "active" /\ s.attempts = r.attempts + 1
           /\ s.token = issued'[j]
  <2>1. \A v, w \in Holders(j)' : v = w
    BY DEF Holders, Held, IInv, ClaimsAreUnique
  <2>2. Charged(j) < MaxAttempts /\ Charged(j)' = Charged(j) + 0
    BY <1>2, <1>5, <1>8 DEF IInv, PendingHasAttemptLeft
  <2>3. Ledger!Take(j)
    BY <1>0, <1>3, <1>4, <1>8, <2>1, <2>2
    DEF ph, ch, ho, Ledger!Take, Ledger!Move, Ledger!Charge
  <2> QED
    BY <2>3 DEF Ledger!Change
<1>9. CASE r.status = "active" /\ s.attempts = r.attempts
           /\ s.status = IF r.attempts < MaxAttempts THEN "pending" ELSE "failed"
  <2>1. Charged(j)' = Charged(j) + 1 /\ (Charged(j) + 1 < MaxAttempts <=> r.attempts < MaxAttempts)
    BY <1>2, <1>5, <1>9
  <2>2. Phase(j)' = IF Charged(j) + 1 < MaxAttempts THEN "waiting" ELSE "abandoned"
    BY <1>4, <1>9, <2>1
  <2>3. Ledger!Lose(j)
    BY <1>0, <1>3, <1>5, <1>9, <2>1, <2>2
    DEF ph, ch, ho, Ledger!Lose, Ledger!Move, Ledger!Charge, Ledger!Release
  <2> QED
    BY <2>3 DEF Ledger!Change
<1>10. CASE /\ r.status = "active" /\ s.status \in {"completed", "failed"}
            /\ s.attempts = r.attempts
            /\ \E w \in Runtimes :
                 hand[w].step # "idle" /\ hand[w].job = j /\ hand[w].token = r.token
  <2>1. Holders(j) # {}
    BY <1>10 DEF Holders, Held
  <2>2. Charged(j)' = Charged(j) + 1
    BY <1>2, <1>5, <1>10
  <2>3. Ledger!Settle(j)
    BY <1>0, <1>3, <1>4, <1>5, <1>10, <2>1, <2>2
    DEF ph, ch, ho, Ledger!Settle, Ledger!Move, Ledger!Charge, Ledger!Release
  <2> QED
    BY <2>3 DEF Ledger!Change
<1>11. CASE r.status = "active" /\ s.status = "pending" /\ s.attempts = r.attempts - 1
  <2>1. Charged(j)' = Charged(j) + 0
    BY <1>2, <1>5, <1>11
  <2>2. Ledger!Return(j)
    BY <1>0, <1>3, <1>4, <1>5, <1>11, <2>1
    DEF ph, ch, ho, Ledger!Return, Ledger!Move, Ledger!Charge, Ledger!Release
  <2> QED
    BY <2>2 DEF Ledger!Change
<1> QED
  BY <1>1, <1>6, <1>7, <1>8, <1>9, <1>10, <1>11 DEF RowMoves

(* The queue keeps the account of RetryLedger, whatever dies, is lost or     *)
(* comes late.                                                               *)
THEOREM LedgerIsKept == Spec => KeepsLedger
<1>1. Init => Ledger!Init
  <2> SUFFICES ASSUME Init PROVE Ledger!Init
    OBVIOUS
  <2>1. ASSUME NEW j \in Jobs PROVE Phase(j) = "none" /\ Charged(j) = 0 /\ Holders(j) = {}
    BY DEF Init, Row, Idle, Phase, Charged, Holders
  <2> QED
    BY <2>1 DEF Ledger!Init
<1>2. IInv /\ IInv' /\ [Next]_vars => [Ledger!Next]_(Ledger!vars)
  <2>1. ASSUME IInv, IInv', Next PROVE Ledger!Next
    <3>1. ASSUME NEW j \in Jobs
          PROVE  /\ Phase(j)' \in Ledger!Phases
                 /\ Charged(j)' \in 0..MaxAttempts
                 /\ Holders(j)' \in SUBSET Runtimes
      <4>1. rows'[j].attempts \in 0..MaxAttempts /\ rows'[j].status \in Statuses
            /\ (rows'[j].status = "active" => rows'[j].attempts > 0)
        BY <2>1 DEF IInv, TypeOK, ActiveIsNewest
      <4>2. Charged(j)' \in 0..MaxAttempts
        BY <4>1, WorkQueueAssumption DEF Charged
      <4>3. Phase(j)' \in Ledger!Phases
        BY <4>1 DEF Phase, Statuses, Ledger!Phases
      <4> QED
        BY <4>2, <4>3 DEF Holders
    <3> QED
      BY <2>1, <3>1, JobMoves DEF Ledger!Next
  <2>2. ASSUME UNCHANGED vars PROVE UNCHANGED Ledger!vars
    BY <2>2 DEF vars, Ledger!vars, Phase, Charged, Holders, Held
  <2> QED
    BY <2>1, <2>2
<1> QED
  BY <1>1, <1>2, Invariance, PTL DEF Spec, KeepsLedger, Ledger!Spec

=============================================================================
