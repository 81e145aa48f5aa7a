------------------------ MODULE MemoryAnswerTaskProofs ------------------------
(***************************************************************************)
(* Proofs about MemoryAnswerTask, for any number of tasks, processes,      *)
(* Teams and attempts.                                                     *)
(***************************************************************************)
EXTENDS MemoryAnswerTask, FiniteSetTheorems, TLAPS

(* The inductive invariant: the answer clause needs the fences to be unique  *)
(* and not ahead of their rows, the cancellation clause needs the answer     *)
(* clause, and all need the types.                                           *)
IInv ==
  /\ TypeOK
  /\ Fencing
  /\ AnsweredByNewestClaim
  /\ CancellationSticks

-----------------------------------------------------------------------------
(* Types: what the row helpers return *)

\* The row of a task that does not exist is a row.
LEMMA EmptyRowType ==
  ASSUME NEW status \in Statuses
  PROVE  EmptyRow(status) \in Rows
BY ScopeAssumption, BoundAssumption DEF EmptyRow, Rows, Scopes

\* An inserted task is a row.
LEMMA NewRowType ==
  ASSUME NEW k \in Keys \cup {NoKey}, NEW s \in Scopes
  PROVE  NewRow(k, s) \in Rows
<1>1. EmptyRow("accepted") \in Rows
  BY EmptyRowType DEF Statuses
<1> QED
  BY <1>1 DEF NewRow, Rows

\* Settling a row keeps its shape.
LEMMA SettledType ==
  ASSUME NEW r \in Rows, NEW status \in Statuses
  PROVE  /\ Settled(r, status) \in Rows
         /\ Settled(r, status) =
              [r EXCEPT !.status = status, !.owner = Nobody, !.live = FALSE]
BY DEF Settled, Rows

\* Retiring a row keeps its shape.
LEMMA RetiredType ==
  ASSUME NEW r \in Rows, NEW status \in Statuses
  PROVE  Retired(r, status) \in Rows
<1> DEFINE asked == r.cancelAsked \/ status = "cancelled"
<1>1. Settled(r, status) \in Rows /\ Settled(r, status).cancelAsked = r.cancelAsked
  BY SettledType DEF Settled, Rows
<1>2. asked \in BOOLEAN /\ r.fence + 1 \in Nat
  BY DEF Rows
<1>3. Retired(r, status) =
        [Settled(r, status) EXCEPT !.fence = r.fence + 1, !.cancelAsked = asked]
  BY <1>1 DEF Retired
<1> HIDE DEF asked
<1> QED
  BY <1>1, <1>2, <1>3 DEF Rows

\* Claiming a row keeps its shape.
LEMMA TakenType ==
  ASSUME NEW a \in Actors, NEW r \in Rows, ~(r.attempt >= MaxAttempts)
  PROVE  Taken(a, r) \in Rows
<1>1. r.attempt + 1 \in 0..MaxAttempts /\ r.fence + 1 \in Nat
  BY BoundAssumption DEF Rows
<1>2. "running" \in Statuses
  BY DEF Statuses
<1> QED
  BY <1>1, <1>2 DEF Taken, Rows

\* Failing an attempt keeps the shape of a row.
LEMMA FailedType ==
  ASSUME NEW r \in Rows, NEW retry \in BOOLEAN
  PROVE  Failed(r, retry) \in Rows
BY DEF Failed, Settled, Rows, Statuses

\* Reconciling a row keeps its shape.
LEMMA ReconciledType ==
  ASSUME TypeOK, NEW t \in Tasks
  PROVE  Reconciled(t) \in Rows
<1>1. row[t] \in Rows
  BY DEF TypeOK
<1>2. {"failed", "cancelled"} \subseteq Statuses
  BY DEF Statuses
<1> QED
  BY <1>1, <1>2, SettledType, RetiredType DEF Reconciled

-----------------------------------------------------------------------------
\* The initial states have the types.
LEMMA InitType == Init => TypeOK
<1>1. "absent" \in Statuses
  BY DEF Statuses
<1> QED
  BY <1>1, EmptyRowType, BoundAssumption DEF Init, TypeOK

\* Every step keeps the types.
LEMMA NextType == TypeOK /\ [Next]_vars => TypeOK'
<1> SUFFICES ASSUME TypeOK, [Next]_vars PROVE TypeOK'
  OBVIOUS
<1>0. \A t \in Tasks : row[t] \in Rows
  BY DEF TypeOK
<1>1. ASSUME NEW a \in Actors, NEW t \in Tasks, NEW k \in Keys \cup {NoKey},
             NEW s \in Scopes, Accept(a, t, k, s)
      PROVE  TypeOK'
  BY <1>1, NewRowType DEF Accept, TypeOK
<1>2. ASSUME NEW a \in Actors, NEW team \in BOOLEAN, Claim(a, team)
      PROVE  TypeOK'
  <2>1. PICK settle \in SUBSET Tasks, take \in SUBSET Tasks :
          /\ \A t \in take : ~MustReconcile(t)
          /\ row' = [t \in Tasks |->
                       IF t \in settle THEN Reconciled(t)
                       ELSE IF t \in take THEN Taken(a, row[t])
                       ELSE row[t]]
          /\ claims' = claims \cup
               {[task |-> t, owner |-> a, fence |-> row[t].fence + 1] : t \in take}
          /\ renewals' = [t \in Tasks |-> IF t \in take THEN 0 ELSE renewals[t]]
          /\ UNCHANGED <<revoked, answer>>
    BY <1>2 DEF Claim
  <2>2. \A t \in take : Taken(a, row[t]) \in Rows
    BY <1>0, <2>1, TakenType DEF MustReconcile
  <2>3. row' \in [Tasks -> Rows]
    BY <1>0, <2>1, <2>2, ReconciledType
  <2>4. claims' \subseteq Claims
    BY <1>0, <2>1 DEF TypeOK, Claims, Rows
  <2>5. renewals' \in [Tasks -> 0..MaxRenewals]
    BY <2>1, BoundAssumption DEF TypeOK
  <2> QED
    BY <2>1, <2>3, <2>4, <2>5 DEF TypeOK
<1>3. ASSUME NEW c \in claims, Heartbeat(c) PROVE TypeOK'
  <2>1. c.task \in Tasks
    BY DEF TypeOK, Claims
  <2>2. [row[c.task] EXCEPT !.live = TRUE] \in Rows
    <3>1. \A r \in Rows : [r EXCEPT !.live = TRUE] \in Rows
      BY DEF Rows
    <3> QED
      BY <1>0, <2>1, <3>1
  <2>3. row' \in [Tasks -> Rows]
    BY <1>3, <2>1, <2>2 DEF Heartbeat, TypeOK
  <2>4. renewals' \in [Tasks -> 0..MaxRenewals]
    BY <1>3, <2>1, BoundAssumption DEF Heartbeat, TypeOK
  <2> QED
    BY <1>3, <2>3, <2>4 DEF Heartbeat, TypeOK
<1>4. ASSUME NEW c \in claims, Complete(c) PROVE TypeOK'
  <2>1. c.task \in Tasks /\ c.fence \in Nat
    BY DEF TypeOK, Claims
  <2>2. Settled(row[c.task], "completed") \in Rows
    BY <1>0, <2>1, SettledType DEF Statuses
  <2> QED
    BY <1>4, <2>1, <2>2 DEF Complete, TypeOK
<1>5. ASSUME NEW c \in claims, NEW retry \in BOOLEAN, Fail(c, retry)
      PROVE  TypeOK'
  <2>1. c.task \in Tasks
    BY DEF TypeOK, Claims
  <2>2. Failed(row[c.task], retry) \in Rows
    BY <1>0, <2>1, FailedType
  <2> QED
    BY <1>5, <2>1, <2>2 DEF Fail, TypeOK
<1>6. ASSUME NEW a \in Actors, NEW t \in Tasks, Cancel(a, t) PROVE TypeOK'
  <2>1. Retired(row[t], "cancelled") \in Rows
    BY <1>0, RetiredType DEF Statuses
  <2>2. [row[t] EXCEPT !.status = CancelStatus(@), !.cancelAsked = TRUE] \in Rows
    BY <1>0 DEF Rows, CancelStatus, Statuses
  <2> QED
    BY <1>6, <2>1, <2>2 DEF Cancel, TypeOK
<1>7. ASSUME NEW a \in Actors, DeleteExpired(a) PROVE TypeOK'
  <2>1. EmptyRow("deleted") \in Rows
    BY EmptyRowType DEF Statuses
  <2> QED
    BY <1>7, <2>1 DEF DeleteExpired, TypeOK
<1>8. ASSUME NEW t \in Tasks, LeaseLapses(t) \/ DelayPasses(t) \/ RetentionPasses(t)
      PROVE  TypeOK'
  <2>1. /\ [row[t] EXCEPT !.live = FALSE] \in Rows
        /\ [row[t] EXCEPT !.due = TRUE] \in Rows
        /\ [row[t] EXCEPT !.expired = TRUE] \in Rows
    BY <1>0 DEF Rows
  <2> QED
    BY <1>8, <2>1 DEF LeaseLapses, DelayPasses, RetentionPasses, TypeOK
<1>9. ASSUME NEW m \in Teams, RevokeTeam(m) PROVE TypeOK'
  BY <1>9 DEF RevokeTeam, TypeOK
<1>10. CASE UNCHANGED vars
  BY <1>10 DEF vars, TypeOK
<1> QED
  BY <1>1, <1>2, <1>3, <1>4, <1>5, <1>6, <1>7, <1>8, <1>9, <1>10 DEF Next

(* Every reachable state is well typed, whatever the number of tasks and     *)
(* attempts: in particular no claim ever exceeds its attempt budget.         *)
THEOREM TypeCorrect == Spec => []TypeOK
BY InitType, NextType, PTL DEF Spec

-----------------------------------------------------------------------------
(* How one transaction may move one row.  Every safety proof below rests on   *)
(* these facts instead of on the actions.                                     *)

\* A row is never un-accepted, un-deleted or un-settled; while it is there
\* its fence does not fall, its invocation key and a recorded cancellation
\* stay, and a lapsed lease revives only under a higher fence.
RowMoves(r, s) ==
  /\ s.status = "absent" => r.status = "absent"
  /\ r.status = "absent" => s.status \in {"absent", "accepted"}
  /\ r.status = "deleted" => s.status = "deleted"
  /\ s.status = "deleted" =>
       /\ r.status \in Terminal \cup {"deleted"}
       /\ s.cancelAsked => r.status = "deleted" /\ r.cancelAsked
  /\ s.status = "completed" => r.status \in {"completed", "running"}
  /\ r.status \in Terminal => s.status \in {r.status, "deleted"}
  /\ r.status # "absent" /\ s.status # "deleted" =>
       /\ s.fence >= r.fence
       /\ s.key = r.key
       /\ r.cancelAsked => s.cancelAsked
       /\ ~r.live /\ s.live => s.fence > r.fence
  /\ r.status \in {"cancel_requested", "cancelled", "failed"} =>
       s.status \in {"cancel_requested", "cancelled", "failed", "deleted"}
  /\ s.cancelAsked /\ ~r.cancelAsked =>
       /\ r.status \in Open
       /\ s.status \in {"cancel_requested", "cancelled"}

\* A row that does not change is an allowed move.
LEMMA StillMoves ==
  ASSUME NEW r \in Rows
  PROVE  RowMoves(r, r)
BY DEF RowMoves, Rows, Terminal

\* What a claim call does to one of its candidates.
LEMMA ReconciledMoves ==
  ASSUME TypeOK, NEW t \in Tasks, row[t].status \in Open, ~row[t].live \/ row[t].status = "accepted"
  PROVE  RowMoves(row[t], Reconciled(t))
<1>1. row[t] \in Rows
  BY DEF TypeOK
<1>2. CASE t \in revoked
  <2>1. /\ Retired(row[t], "failed").status = "failed"
        /\ Retired(row[t], "failed").fence = row[t].fence + 1
        /\ Retired(row[t], "failed").key = row[t].key
        /\ ~Retired(row[t], "failed").live
    BY <1>1 DEF Retired, Settled, Rows
  <2>2. Retired(row[t], "failed").cancelAsked = row[t].cancelAsked
    BY <1>1 DEF Retired, Settled, Rows
  <2> QED
    BY <1>1, <1>2, <2>1, <2>2 DEF Reconciled, RowMoves, Rows, Open, Terminal, Leased
<1>3. CASE t \notin revoked
  BY <1>1, <1>3 DEF Reconciled, Settled, RowMoves, Rows, Open, Terminal, Leased
<1> QED
  BY <1>2, <1>3

\* Claiming a row is an allowed move.
LEMMA TakenMoves ==
  ASSUME NEW a \in Actors, NEW r \in Rows, r.status \in {"accepted", "running"}
  PROVE  RowMoves(r, Taken(a, r))
BY DEF Taken, RowMoves, Rows, Terminal

\* Every step moves every row in an allowed way.
LEMMA NextMoves ==
  ASSUME TypeOK, [Next]_vars, NEW t \in Tasks
  PROVE  RowMoves(row[t], row'[t])
<1>0. /\ \A u \in Tasks : row[u] \in Rows
      /\ DOMAIN row = Tasks
  BY DEF TypeOK
<1>1. ASSUME NEW a \in Actors, NEW u \in Tasks, NEW k \in Keys \cup {NoKey},
             NEW s \in Scopes, Accept(a, u, k, s)
      PROVE  RowMoves(row[t], row'[t])
  <2>1. row'[t] = IF t = u THEN NewRow(k, s) ELSE row[t]
    BY <1>0, <1>1 DEF Accept
  <2>2. t = u => RowMoves(row[t], NewRow(k, s))
    BY <1>1 DEF Accept, NewRow, EmptyRow, RowMoves, Terminal
  <2> QED
    BY <1>0, <2>1, <2>2, StillMoves
<1>2. ASSUME NEW a \in Actors, NEW team \in BOOLEAN, Claim(a, team)
      PROVE  RowMoves(row[t], row'[t])
  <2>1. PICK settle \in SUBSET Tasks, take \in SUBSET Tasks :
          /\ \A u \in settle : Eligible(a, u, team)
          /\ \A u \in take : Eligible(a, u, team) /\ ~MustReconcile(u)
          /\ row' = [u \in Tasks |->
                       IF u \in settle THEN Reconciled(u)
                       ELSE IF u \in take THEN Taken(a, row[u])
                       ELSE row[u]]
    BY <1>2 DEF Claim
  <2>2. ASSUME t \in settle PROVE RowMoves(row[t], Reconciled(t))
    BY <2>1, <2>2, ReconciledMoves DEF Eligible, Open, Leased
  <2>3. ASSUME t \in take PROVE RowMoves(row[t], Taken(a, row[t]))
    BY <1>0, <2>1, <2>3, TakenMoves DEF Eligible, MustReconcile
  <2> QED
    BY <1>0, <2>1, <2>2, <2>3, StillMoves
<1>3. ASSUME NEW c \in claims, Heartbeat(c) PROVE RowMoves(row[t], row'[t])
  <2>1. row'[t] = row[t]
    BY <1>0, <1>3 DEF Heartbeat, Holds, Rows
  <2> QED
    BY <1>0, <2>1, StillMoves
<1>4. ASSUME NEW c \in claims, Complete(c) PROVE RowMoves(row[t], row'[t])
  <2>1. row'[t] = IF t = c.task THEN Settled(row[t], "completed") ELSE row[t]
    BY <1>0, <1>4 DEF Complete
  <2>2. t = c.task => RowMoves(row[t], Settled(row[t], "completed"))
    BY <1>0, <1>4 DEF Complete, Settled, RowMoves, Rows, Terminal
  <2> QED
    BY <1>0, <2>1, <2>2, StillMoves
<1>5. ASSUME NEW c \in claims, NEW retry \in BOOLEAN, Fail(c, retry)
      PROVE  RowMoves(row[t], row'[t])
  <2>1. row'[t] = IF t = c.task THEN Failed(row[t], retry) ELSE row[t]
    BY <1>0, <1>5 DEF Fail
  <2>2. t = c.task => RowMoves(row[t], Failed(row[t], retry))
    BY <1>0, <1>5 DEF Fail, Failed, Settled, RowMoves, Rows, Terminal, Leased
  <2> QED
    BY <1>0, <2>1, <2>2, StillMoves
<1>6. ASSUME NEW a \in Actors, NEW u \in Tasks, Cancel(a, u)
      PROVE  RowMoves(row[t], row'[t])
  <2>1. CASE u \in revoked
    <3>1. row'[t] = IF t = u THEN Retired(row[t], "cancelled") ELSE row[t]
      BY <1>0, <1>6, <2>1 DEF Cancel
    <3>2. row[u].status \in Open
      BY <1>6 DEF Cancel
    <3>3. /\ Retired(row[u], "cancelled").status = "cancelled"
          /\ Retired(row[u], "cancelled").fence = row[u].fence + 1
          /\ Retired(row[u], "cancelled").key = row[u].key
          /\ ~Retired(row[u], "cancelled").live
      BY <1>0 DEF Retired, Settled, Rows
    <3>4. Retired(row[u], "cancelled").cancelAsked
      BY <1>0 DEF Retired, Settled, Rows
    <3> QED
      <4>1. t = u => RowMoves(row[u], Retired(row[u], "cancelled"))
        BY <3>2, <3>3, <3>4, <1>0 DEF RowMoves, Rows, Open, Leased, Terminal
      <4> QED
        BY <1>0, <3>1, <4>1, StillMoves
  <2>2. CASE u \notin revoked
    <3>1. row'[t] = IF t = u THEN [row[t] EXCEPT !.status = CancelStatus(@),
                                                !.cancelAsked = TRUE]
                    ELSE row[t]
      BY <1>0, <1>6, <2>2 DEF Cancel
    <3>2. t = u => RowMoves(row[t], [row[t] EXCEPT !.status = CancelStatus(@),
                                                   !.cancelAsked = TRUE])
      BY <1>0, <1>6, <2>2
      DEF Cancel, CancelStatus, RowMoves, Rows, Open, Leased, Terminal
    <3> QED
      BY <1>0, <3>1, <3>2, StillMoves
  <2> QED
    BY <2>1, <2>2
<1>7. ASSUME NEW a \in Actors, DeleteExpired(a) PROVE RowMoves(row[t], row'[t])
  <2>1. row'[t] = IF t \in DeletableBy(a) THEN EmptyRow("deleted") ELSE row[t]
    BY <1>7 DEF DeleteExpired
  <2>2. t \in DeletableBy(a) => RowMoves(row[t], EmptyRow("deleted"))
    BY <1>0 DEF DeletableBy, EmptyRow, RowMoves, Terminal, Rows
  <2> QED
    BY <1>0, <2>1, <2>2, StillMoves
<1>8. ASSUME NEW u \in Tasks, LeaseLapses(u) \/ DelayPasses(u) \/ RetentionPasses(u)
      PROVE  RowMoves(row[t], row'[t])
  <2>1. \/ row'[t] = row[t]
        \/ row'[t] = [row[t] EXCEPT !.live = FALSE]
        \/ row'[t] = [row[t] EXCEPT !.due = TRUE]
        \/ row'[t] = [row[t] EXCEPT !.expired = TRUE]
    BY <1>0, <1>8 DEF LeaseLapses, DelayPasses, RetentionPasses
  <2> QED
    BY <1>0, <2>1 DEF RowMoves, Rows, Terminal
<1>9. ASSUME NEW m \in Teams, RevokeTeam(m) PROVE RowMoves(row[t], row'[t])
  BY <1>0, <1>9, StillMoves DEF RevokeTeam
<1>10. CASE UNCHANGED vars
  BY <1>0, <1>10, StillMoves DEF vars
<1> QED
  BY <1>1, <1>2, <1>3, <1>4, <1>5, <1>6, <1>7, <1>8, <1>9, <1>10 DEF Next

(* A settled task only ever leaves by deletion.                              *)
THEOREM SettledTasksStay == Spec => SettledStays
<1>1. TypeOK /\ [Next]_vars =>
        [\A t \in Tasks : row[t].status \in Terminal /\ row'[t].status # row[t].status
           => row'[t].status = "deleted"]_vars
  BY NextMoves DEF RowMoves
<1> QED
  BY <1>1, TypeCorrect, PTL DEF Spec, SettledStays

-----------------------------------------------------------------------------
(* How one transaction may extend the claims and the answers.               *)

\* A claim call hands out at most one lease, under the fence it moves the
\* row to; nothing else hands out any.
LEMMA ClaimsMove ==
  ASSUME TypeOK, [Next]_vars
  PROVE  /\ claims \subseteq claims'
         /\ \A c, d \in claims' \ claims : c = d
         /\ \A c \in claims' \ claims :
              /\ row[c.task].status \in {"accepted", "running"}
              /\ c.task \in Tasks
              /\ row'[c.task].status = "running"
              /\ row'[c.task].fence = row[c.task].fence + 1
              /\ c.fence = row[c.task].fence + 1
<1> DEFINE Goal ==
         /\ claims \subseteq claims'
         /\ \A c, d \in claims' \ claims : c = d
         /\ \A c \in claims' \ claims :
              /\ row[c.task].status \in {"accepted", "running"}
              /\ c.task \in Tasks
              /\ row'[c.task].status = "running"
              /\ row'[c.task].fence = row[c.task].fence + 1
              /\ c.fence = row[c.task].fence + 1
<1>1. ASSUME NEW a \in Actors, NEW team \in BOOLEAN, Claim(a, team)
      PROVE  Goal
  <2>1. PICK settle \in SUBSET Tasks, take \in SUBSET Tasks :
          /\ \A t \in settle : MustReconcile(t)
          /\ \A t \in take : Eligible(a, t, team) /\ ~MustReconcile(t)
          /\ \A t, u \in take : t = u
          /\ row' = [t \in Tasks |->
                       IF t \in settle THEN Reconciled(t)
                       ELSE IF t \in take THEN Taken(a, row[t])
                       ELSE row[t]]
          /\ claims' = claims \cup
               {[task |-> t, owner |-> a, fence |-> row[t].fence + 1] : t \in take}
    BY <1>1 DEF Claim
  <2>2. \A c, d \in claims' \ claims : c = d
    BY <2>1
  <2>3. ASSUME NEW c \in claims' \ claims
        PROVE  /\ c.task \in take
               /\ c.fence = row[c.task].fence + 1
    BY <2>1
  <2>4. ASSUME NEW t \in take
        PROVE  /\ row[t].status \in {"accepted", "running"}
               /\ row'[t].status = "running"
               /\ row'[t].fence = row[t].fence + 1
    <3>1. row[t] \in Rows /\ row'[t] = Taken(a, row[t])
      BY <2>1, <2>4 DEF TypeOK
    <3> QED
      BY <2>1, <2>4, <3>1 DEF Taken, Rows, Eligible, MustReconcile
  <2> QED
    BY <2>1, <2>2, <2>3, <2>4
<1>2. ASSUME claims' = claims PROVE Goal
  BY <1>2
<1> QED
  BY <1>1, <1>2 DEF Next, vars, Accept, Heartbeat, Complete, Fail, Cancel,
     DeleteExpired, LeaseLapses, DelayPasses, RetentionPasses, RevokeTeam

\* An answer is written exactly when its row becomes completed, by a claim
\* that carries the fence of the row, while the authority still holds.
LEMMA AnswerMoves ==
  ASSUME TypeOK, [Next]_vars, NEW t \in Tasks
  PROVE  IF row[t].status = "running" /\ row'[t].status = "completed"
         THEN /\ answer'[t] = row[t].fence
              /\ t \notin revoked
              /\ claims' = claims
              /\ \E c \in claims : c.task = t /\ c.fence = row[t].fence
         ELSE answer'[t] = answer[t]
<1> DEFINE Goal ==
         IF row[t].status = "running" /\ row'[t].status = "completed"
         THEN /\ answer'[t] = row[t].fence
              /\ t \notin revoked
              /\ claims' = claims
              /\ \E c \in claims : c.task = t /\ c.fence = row[t].fence
         ELSE answer'[t] = answer[t]
<1>0. \A u \in Tasks : row[u] \in Rows
  BY DEF TypeOK
<1>1. ASSUME NEW c \in claims, Complete(c) PROVE Goal
  <2>1. /\ row'[t] = IF t = c.task THEN Settled(row[t], "completed") ELSE row[t]
        /\ answer'[t] = IF t = c.task THEN c.fence ELSE answer[t]
    BY <1>1 DEF Complete, TypeOK
  <2>2. /\ row[c.task].status = "running" /\ c.fence = row[c.task].fence
        /\ c.task \notin revoked /\ claims' = claims
    BY <1>1 DEF Complete, Holds, Authorized
  <2>3. Settled(row[t], "completed").status = "completed"
    BY <1>0 DEF Settled, Rows
  <2> QED
    BY <2>1, <2>2, <2>3
<1>2. ASSUME answer' = answer,
             row[t].status = "running" => row'[t].status # "completed"
      PROVE  Goal
  BY <1>2
<1>3. ASSUME NEW a \in Actors, NEW u \in Tasks, NEW k \in Keys \cup {NoKey},
             NEW s \in Scopes, Accept(a, u, k, s)
      PROVE  Goal
  BY <1>0, <1>2, <1>3 DEF Accept, TypeOK
<1>4. ASSUME NEW a \in Actors, NEW team \in BOOLEAN, Claim(a, team)
      PROVE  Goal
  <2>1. \/ row'[t] = row[t]
        \/ row'[t] = Reconciled(t)
        \/ row'[t] = Taken(a, row[t])
    BY <1>4 DEF Claim
  <2>2. Reconciled(t).status \in {"failed", "cancelled"}
    BY <1>0 DEF Reconciled, Retired, Settled, Rows
  <2>3. Taken(a, row[t]).status = "running"
    BY <1>0 DEF Taken, Rows
  <2>4. answer' = answer
    BY <1>4 DEF Claim
  <2> QED
    BY <1>2, <2>1, <2>2, <2>3, <2>4
<1>5. ASSUME NEW c \in claims, Heartbeat(c) PROVE Goal
  BY <1>0, <1>2, <1>5 DEF Heartbeat, TypeOK, Rows
<1>6. ASSUME NEW c \in claims, NEW retry \in BOOLEAN, Fail(c, retry)
      PROVE  Goal
  BY <1>0, <1>2, <1>6 DEF Fail, Failed, Settled, TypeOK, Rows
<1>7. ASSUME NEW a \in Actors, NEW u \in Tasks, Cancel(a, u) PROVE Goal
  <2>1. Retired(row[u], "cancelled").status = "cancelled"
    BY <1>0 DEF Retired, Settled, Rows
  <2>2. CASE u \in revoked
    BY <1>0, <1>2, <1>7, <2>1, <2>2 DEF Cancel, TypeOK
  <2>3. CASE u \notin revoked
    <3> DEFINE r == [row[u] EXCEPT !.status = CancelStatus(row[u].status), !.cancelAsked = TRUE]
    <3>1. row' = [row EXCEPT ![u] = r] /\ answer' = answer
      BY <1>7, <2>3 DEF Cancel
    <3>2. r.status \in {"cancelled", "cancel_requested"}
      BY <1>0 DEF CancelStatus, Rows
    <3>3. row'[t] = IF t = u THEN r ELSE row[t]
      BY <3>1 DEF TypeOK
    <3> QED
      BY <1>2, <3>1, <3>2, <3>3
  <2> QED
    BY <2>2, <2>3
<1>8. ASSUME NEW a \in Actors, DeleteExpired(a) PROVE Goal
  BY <1>0, <1>2, <1>8 DEF DeleteExpired, EmptyRow
<1>9. ASSUME NEW u \in Tasks, LeaseLapses(u) \/ DelayPasses(u) \/ RetentionPasses(u)
      PROVE  Goal
  BY <1>0, <1>2, <1>9
  DEF LeaseLapses, DelayPasses, RetentionPasses, TypeOK, Rows
<1>10. ASSUME NEW m \in Teams, RevokeTeam(m) PROVE Goal
  BY <1>2, <1>10 DEF RevokeTeam
<1>11. CASE UNCHANGED vars
  BY <1>2, <1>11 DEF vars
<1> QED
  BY <1>1, <1>3, <1>4, <1>5, <1>6, <1>7, <1>8, <1>9, <1>10, <1>11 DEF Next

-----------------------------------------------------------------------------
(* The inductive invariant *)

\* The initial states satisfy the invariant.
LEMMA InitInvariant == Init => IInv
<1> SUFFICES ASSUME Init PROVE IInv
  OBVIOUS
<1>1. \A t \in Tasks : ~row[t].cancelAsked
  BY DEF Init, EmptyRow
<1> QED
  BY <1>1, InitType
  DEF Init, IInv, Fencing, AnsweredByNewestClaim, CancellationSticks

\* Every step keeps the fencing of claims.
LEMMA FencingStep ==
  ASSUME TypeOK, Fencing, [Next]_vars
  PROVE  Fencing'
<1>0. \A c \in claims : c.task \in Tasks /\ c.fence \in Nat
  BY DEF TypeOK, Claims
<1>1. TypeOK'
  BY NextType
<1>2. \A t \in Tasks : row[t] \in Rows /\ row'[t] \in Rows
  BY <1>1 DEF TypeOK
<1>3. ASSUME NEW c \in claims', NEW d \in claims',
             c.task = d.task, c.fence = d.fence
      PROVE  c = d
  <2>1. CASE c \in claims /\ d \in claims
    BY <1>3, <2>1 DEF Fencing
  <2>2. CASE c \notin claims /\ d \notin claims
    BY <2>2, ClaimsMove
  <2>3. ASSUME NEW x \in claims, NEW y \in claims' \ claims, x.task = y.task
        PROVE  x.fence < y.fence
    <3>1. Present(x.task) /\ y.fence = row[x.task].fence + 1
      BY <2>3, ClaimsMove DEF Present
    <3> QED
      BY <1>0, <1>2, <2>3, <3>1 DEF Fencing, Rows
  <2>4. CASE c \in claims /\ d \notin claims
    BY <1>0, <1>3, <2>3, <2>4
  <2>5. CASE c \notin claims /\ d \in claims
    BY <1>0, <1>3, <2>3, <2>5
  <2> QED
    BY <2>1, <2>2, <2>4, <2>5
<1>4. ASSUME NEW c \in claims'
      PROVE  /\ row'[c.task].status # "absent"
             /\ Present(c.task)' => c.fence \in 1..row'[c.task].fence
  <2>1. CASE c \in claims
    <3>1. row[c.task].status # "absent"
      BY <2>1 DEF Fencing
    <3>2. RowMoves(row[c.task], row'[c.task])
      BY <1>0, <2>1, NextMoves
    <3>3. Present(c.task)' => Present(c.task)
      BY <3>1, <3>2 DEF Present, RowMoves
    <3> QED
      BY <1>0, <1>2, <2>1, <3>1, <3>2, <3>3 DEF Fencing, Present, RowMoves, Rows
  <2>2. CASE c \notin claims
    BY <1>2, <2>2, ClaimsMove DEF Rows
  <2> QED
    BY <2>1, <2>2
<1> QED
  BY <1>3, <1>4 DEF Fencing

\* Every step keeps answers those of the newest claim.
LEMMA AnswerStep ==
  ASSUME TypeOK, Fencing, AnsweredByNewestClaim, [Next]_vars
  PROVE  AnsweredByNewestClaim'
<1> SUFFICES ASSUME NEW t \in Tasks, answer'[t] # 0
             PROVE  /\ row'[t].status \in {"completed", "deleted"}
                    /\ \E c \in claims' : c.task = t /\ c.fence = answer'[t]
                    /\ \A c \in claims' : c.task = t => c.fence <= answer'[t]
  BY DEF AnsweredByNewestClaim
<1>1. RowMoves(row[t], row'[t])
  BY NextMoves
<1>2. CASE row[t].status = "running" /\ row'[t].status = "completed"
  <2>1. /\ answer'[t] = row[t].fence
        /\ claims' = claims
        /\ \E c \in claims : c.task = t /\ c.fence = row[t].fence
    BY <1>2, AnswerMoves
  <2>2. row[t].fence \in Nat /\ Present(t)
    BY <1>2 DEF TypeOK, Rows, Present
  <2> QED
    BY <1>2, <2>1, <2>2 DEF Fencing
<1>3. CASE ~(row[t].status = "running" /\ row'[t].status = "completed")
  <2>1. answer'[t] = answer[t]
    BY <1>3, AnswerMoves
  <2>2. row[t].status \in {"completed", "deleted"}
    BY <2>1 DEF AnsweredByNewestClaim
  <2>3. \A c \in claims' \ claims : c.task # t
    BY <2>2, ClaimsMove
  <2> QED
    BY <1>1, <2>1, <2>2, <2>3, ClaimsMove
    DEF AnsweredByNewestClaim, RowMoves, Terminal
<1> QED
  BY <1>2, <1>3

\* Every step keeps cancelled tasks unanswered.
LEMMA CancellationStep ==
  ASSUME TypeOK, AnsweredByNewestClaim, AnsweredByNewestClaim',
         CancellationSticks, [Next]_vars
  PROVE  CancellationSticks'
<1> SUFFICES ASSUME NEW t \in Tasks, row'[t].cancelAsked
             PROVE  /\ row'[t].status \in {"cancel_requested", "cancelled", "failed"}
                    /\ answer'[t] = 0
  BY DEF CancellationSticks
<1>1. RowMoves(row[t], row'[t])
  BY NextMoves
<1>3. row'[t].status \in {"cancel_requested", "cancelled", "failed"}
  BY <1>1 DEF RowMoves, CancellationSticks
<1> QED
  BY <1>3 DEF AnsweredByNewestClaim

\* Every step keeps the invariant.
LEMMA NextInvariant == IInv /\ [Next]_vars => IInv'
BY NextType, FencingStep, AnswerStep, CancellationStep DEF IInv

\* The invariant holds always.
LEMMA InvariantHolds == Spec => []IInv
BY InitInvariant, NextInvariant, PTL DEF Spec

-----------------------------------------------------------------------------
(* The safety theorems *)

(* No two leases of a task share a fence, and none is ahead of its row: at    *)
(* most one process can pass the owner and fence conditions of the heartbeat, *)
(* completion and failure transactions.                                       *)
THEOREM FencingHolds == Spec => []Fencing
BY InvariantHolds, PTL DEF IInv

(* A final Memory Question is always the work of the newest lease: no stale   *)
(* process ever commits an answer over a later claim.                         *)
THEOREM AnswersAreCurrent == Spec => []AnsweredByNewestClaim
BY InvariantHolds, PTL DEF IInv

(* A task whose cancellation was recorded is neither retried nor answered.    *)
THEOREM CancellationHolds == Spec => []CancellationSticks
BY InvariantHolds, PTL DEF IInv

(* Work under a lapsed lease can only go on after a new claim moved the fence. *)
THEOREM LapsedLeasesStayLapsed == Spec => LapsedLeaseStaysLapsed
<1>1. TypeOK /\ [Next]_vars =>
        [\A t \in Tasks : row[t].status \in Leased /\ ~row[t].live /\ row'[t].live
           => row'[t].fence > row[t].fence]_vars
  <2> SUFFICES ASSUME TypeOK, [Next]_vars, NEW t \in Tasks,
                      row[t].status \in Leased, ~row[t].live, row'[t].live
               PROVE  row'[t].fence > row[t].fence
    OBVIOUS
  <2>1. RowMoves(row[t], row'[t])
    BY NextMoves
  <2>2. row'[t].status # "deleted"
    BY <2>1 DEF RowMoves, Leased, Terminal
  <2> QED
    BY <2>1, <2>2 DEF RowMoves, Leased
<1> QED
  BY <1>1, TypeCorrect, PTL DEF Spec, LapsedLeaseStaysLapsed

(* Once the Team authority of a task is gone, no process answers it.          *)
THEOREM RevokedTasksStayUnanswered == Spec => NoAnswerAfterRevocation
<1>1. TypeOK /\ [Next]_vars => [\A t \in revoked : answer'[t] = answer[t]]_vars
  BY AnswerMoves DEF TypeOK
<1> QED
  BY <1>1, TypeCorrect, PTL DEF Spec, NoAnswerAfterRevocation

-----------------------------------------------------------------------------
(* Counting the claims *)

\* Only a claim call moves the attempt counter of a row that is there, by one,
\* and together with the lease it hands out; a row is born with zero attempts.
LEMMA AttemptMoves ==
  ASSUME TypeOK, [Next]_vars, NEW t \in Tasks, Present(t)'
  PROVE  \/ /\ row[t].status = "absent" /\ row'[t].attempt = 0
            /\ claims' = claims
         \/ /\ Present(t) /\ row'[t].attempt = row[t].attempt
            /\ \A c \in claims' \ claims : c.task # t
         \/ /\ Present(t) /\ row'[t].attempt = row[t].attempt + 1
            /\ \E c \in Claims : /\ c.task = t /\ c.fence = row[t].fence + 1
                               /\ claims' = claims \cup {c}
<1> DEFINE Goal ==
         \/ /\ row[t].status = "absent" /\ row'[t].attempt = 0
            /\ claims' = claims
         \/ /\ Present(t) /\ row'[t].attempt = row[t].attempt
            /\ \A c \in claims' \ claims : c.task # t
         \/ /\ Present(t) /\ row'[t].attempt = row[t].attempt + 1
            /\ \E c \in Claims : /\ c.task = t /\ c.fence = row[t].fence + 1
                               /\ claims' = claims \cup {c}
<1>0. \A u \in Tasks : row[u] \in Rows
  BY DEF TypeOK
<1>a. row[t].status # "absent" => Present(t)
  BY NextMoves DEF RowMoves, Present
<1>b. ASSUME row[t].status # "absent", row'[t].attempt = row[t].attempt,
             claims' = claims
      PROVE  Goal
  BY <1>a, <1>b
<1>1. ASSUME NEW a \in Actors, NEW u \in Tasks, NEW k \in Keys \cup {NoKey},
             NEW s \in Scopes, Accept(a, u, k, s)
      PROVE  Goal
  <2>1. row'[t] = IF t = u THEN NewRow(k, s) ELSE row[t]
    BY <1>1 DEF Accept, TypeOK
  <2>2. CASE t = u
    <3>1. NewRow(k, s).attempt = 0
      BY DEF NewRow, EmptyRow
    <3>2. row[t].status = "absent" /\ claims' = claims
      BY <1>1, <2>2 DEF Accept
    <3> QED
      BY <2>1, <2>2, <3>1, <3>2
  <2>3. CASE t # u
    BY <1>1, <1>b, <2>1, <2>3 DEF Accept, Present
  <2> QED
    BY <2>2, <2>3
<1>2. ASSUME NEW a \in Actors, NEW team \in BOOLEAN, Claim(a, team)
      PROVE  Goal
  <2>1. PICK settle \in SUBSET Tasks, take \in SUBSET Tasks :
          /\ \A u \in settle \cup take : Eligible(a, u, team)
          /\ \A u, v \in take : u = v
          /\ \A u \in take : ~MustReconcile(u)
          /\ \A u \in settle : MustReconcile(u)
          /\ row' = [u \in Tasks |->
                       IF u \in settle THEN Reconciled(u)
                       ELSE IF u \in take THEN Taken(a, row[u])
                       ELSE row[u]]
          /\ claims' = claims \cup
               {[task |-> u, owner |-> a, fence |-> row[u].fence + 1] : u \in take}
    BY <1>2 DEF Claim
  <2>2. CASE t \in take
    <3>1. take = {t}
      BY <2>1, <2>2
    <3>2. row'[t] = Taken(a, row[t])
      BY <2>1, <2>2
    <3>3. Taken(a, row[t]).attempt = row[t].attempt + 1
      BY <1>0 DEF Taken, Rows
    <3>4. Present(t)
      BY <2>1, <2>2 DEF Eligible, Present
    <3> DEFINE new == [task |-> t, owner |-> a, fence |-> row[t].fence + 1]
    <3>5. new \in Claims /\ new.task = t /\ new.fence = row[t].fence + 1
      BY <1>0 DEF Claims, Rows
    <3>6. claims' = claims \cup {new}
      BY <2>1, <3>1
    <3> QED
      BY <3>2, <3>3, <3>4, <3>5, <3>6
  <2>3. CASE t \notin take
    <3>1. \A c \in claims' \ claims : c.task # t
      BY <2>1, <2>3
    <3>2. row'[t] = IF t \in settle THEN Reconciled(t) ELSE row[t]
      BY <2>1, <2>3
    <3>3. Reconciled(t).attempt = row[t].attempt
      BY <1>0 DEF Reconciled, Retired, Settled, Rows
    <3>4. row'[t].attempt = row[t].attempt
      BY <3>2, <3>3
    <3>5. row[t].status # "absent"
      <4>1. t \in settle => row[t].status # "absent"
        BY <2>1 DEF Eligible
      <4>2. t \notin settle => row'[t] = row[t]
        BY <3>2
      <4> QED
        BY <4>1, <4>2 DEF Present
    <3> QED
      BY <1>a, <3>1, <3>4, <3>5
  <2> QED
    BY <2>2, <2>3
<1>3. ASSUME NEW c \in claims, NEW retry \in BOOLEAN,
             Heartbeat(c) \/ Complete(c) \/ Fail(c, retry)
      PROVE  Goal
  <2>1. \/ row'[t] = row[t]
        \/ row'[t] = [row[t] EXCEPT !.live = TRUE]
        \/ row'[t] = Settled(row[t], "completed")
        \/ row'[t] = Failed(row[t], retry)
    BY <1>3 DEF Heartbeat, Complete, Fail, TypeOK
  <2>2. row'[t].attempt = row[t].attempt
    BY <1>0, <2>1 DEF Settled, Failed, Rows
  <2>3. row[t].status = "absent" => row'[t] = row[t]
    BY <1>3 DEF Heartbeat, Complete, Fail, TypeOK, Leased
  <2>4. claims' = claims
    BY <1>3 DEF Heartbeat, Complete, Fail
  <2> QED
    BY <1>b, <2>2, <2>3, <2>4 DEF Present
<1>4. ASSUME NEW a \in Actors, NEW u \in Tasks, Cancel(a, u) PROVE Goal
  <2>1. \/ row'[t] = row[t]
        \/ row'[t] = Retired(row[t], "cancelled")
        \/ row'[t] = [row[t] EXCEPT !.status = CancelStatus(@), !.cancelAsked = TRUE]
    BY <1>4 DEF Cancel, TypeOK
  <2>2. row'[t].attempt = row[t].attempt
    BY <1>0, <2>1 DEF Retired, Settled, Rows
  <2>3. row[t].status = "absent" => row'[t] = row[t]
    BY <1>4 DEF Cancel, TypeOK, Open, Leased
  <2>4. claims' = claims
    BY <1>4 DEF Cancel
  <2> QED
    BY <1>b, <2>2, <2>3, <2>4 DEF Present
<1>5. ASSUME NEW a \in Actors, DeleteExpired(a) PROVE Goal
  <2>1. row'[t] = IF t \in DeletableBy(a) THEN EmptyRow("deleted") ELSE row[t]
    BY <1>5 DEF DeleteExpired
  <2>2. row'[t] = row[t]
    BY <2>1 DEF EmptyRow, Present
  <2> QED
    BY <1>5, <1>b, <2>2 DEF DeleteExpired, Present
<1>6. ASSUME NEW u \in Tasks, LeaseLapses(u) \/ DelayPasses(u) \/ RetentionPasses(u)
      PROVE  Goal
  <2>1. \/ row'[t] = row[t]
        \/ row'[t] = [row[t] EXCEPT !.live = FALSE]
        \/ row'[t] = [row[t] EXCEPT !.due = TRUE]
        \/ row'[t] = [row[t] EXCEPT !.expired = TRUE]
    BY <1>6 DEF LeaseLapses, DelayPasses, RetentionPasses, TypeOK
  <2>2. row'[t].attempt = row[t].attempt /\ row'[t].status = row[t].status
    BY <1>0, <2>1 DEF Rows
  <2> QED
    BY <1>6, <1>b, <2>2 DEF LeaseLapses, DelayPasses, RetentionPasses, Present
<1>7. ASSUME NEW m \in Teams, RevokeTeam(m) PROVE Goal
  BY <1>7, <1>b DEF RevokeTeam, Present
<1>8. CASE UNCHANGED vars
  BY <1>8, <1>b DEF vars, Present
<1> QED
  BY <1>1, <1>2, <1>3, <1>4, <1>5, <1>6, <1>7, <1>8 DEF Next

\* The counting invariant: finitely many claims, as many as attempts.
Counted == IsFiniteSet(claims) /\ AttemptsAreClaims

\* The initial states have no claim to count.
LEMMA InitCounted == Init => Counted
BY FS_EmptySet DEF Init, Counted, AttemptsAreClaims, Present, EmptyRow

\* A claim call adds at most one claim, so their number stays finite.
LEMMA ClaimsStayFinite ==
  ASSUME TypeOK, IsFiniteSet(claims), [Next]_vars
  PROVE  IsFiniteSet(claims')
<1>1. CASE claims' = claims
  BY <1>1
<1>2. CASE claims' # claims
  <2>1. claims \subseteq claims' /\ \A c, d \in claims' \ claims : c = d
    BY ClaimsMove
  <2>2. PICK c \in claims' : c \notin claims
    BY <1>2, <2>1
  <2>3. claims' = claims \cup {c}
    BY <2>1, <2>2
  <2> QED
    BY <2>3, FS_AddElement
<1> QED
  BY <1>1, <1>2

\* Every step keeps the count.
LEMMA CountedStep ==
  ASSUME TypeOK, Fencing, Counted, [Next]_vars
  PROVE  Counted'
<1>1. IsFiniteSet(claims')
  BY ClaimsStayFinite DEF Counted
<1>2. ASSUME NEW t \in Tasks, Present(t)'
      PROVE  Cardinality({c \in claims' : c.task = t}) = row'[t].attempt
  <2> DEFINE ofTask == {c \in claims : c.task = t}
  <2>1. IsFiniteSet(ofTask)
    BY FS_Subset DEF Counted
  <2>2. CASE /\ row[t].status = "absent" /\ row'[t].attempt = 0
             /\ claims' = claims
    <3>1. {c \in claims' : c.task = t} = {}
      BY <2>2 DEF Fencing
    <3> QED
      BY <2>2, <3>1, FS_EmptySet
  <2>3. CASE /\ Present(t) /\ row'[t].attempt = row[t].attempt
             /\ \A c \in claims' \ claims : c.task # t
    <3>1. {c \in claims' : c.task = t} = ofTask
      BY <2>3, ClaimsMove
    <3> QED
      BY <2>3, <3>1 DEF Counted, AttemptsAreClaims
  <2>4. CASE /\ Present(t) /\ row'[t].attempt = row[t].attempt + 1
             /\ \E c \in Claims : /\ c.task = t /\ c.fence = row[t].fence + 1
                                /\ claims' = claims \cup {c}
    <3>1. PICK c \in Claims : /\ c.task = t /\ c.fence = row[t].fence + 1
                              /\ claims' = claims \cup {c}
      BY <2>4
    <3>2. c \notin ofTask
      <4>1. row[t].fence \in Nat
        BY DEF TypeOK, Rows
      <4> QED
        BY <2>4, <3>1, <4>1 DEF Fencing
    <3>3. {d \in claims' : d.task = t} = ofTask \cup {c}
      BY <3>1
    <3>4. Cardinality(ofTask \cup {c}) = Cardinality(ofTask) + 1
      BY <2>1, <3>2, FS_AddElement
    <3> QED
      BY <2>4, <3>3, <3>4 DEF Counted, AttemptsAreClaims
  <2> QED
    BY <1>2, <2>2, <2>3, <2>4, AttemptMoves
<1> QED
  BY <1>1, <1>2 DEF Counted, AttemptsAreClaims

(* A task that is there was handed out exactly as often as it counts attempts, *)
(* and the types bound those by max_attempts: no crash, lost response or       *)
(* takeover lets the claim call hand it out once more.                         *)
THEOREM AttemptsAreCounted == Spec => []AttemptsAreClaims
<1>1. Spec => []Counted
  <2>1. IInv /\ Counted /\ [Next]_vars => Counted'
    BY CountedStep DEF IInv
  <2>2. Counted /\ UNCHANGED vars => Counted'
    BY DEF Counted, AttemptsAreClaims, Present, vars
  <2> QED
    BY InitCounted, <2>1, InvariantHolds, PTL DEF Spec
<1> QED
  BY <1>1, PTL DEF Counted

-----------------------------------------------------------------------------
(* Refinement: the rows implement AnswerLifecycle *)

\* The initial states are initial states of AnswerLifecycle.
LEMMA InitPromise == Init => Promise!Init
BY DEF Init, Promise!Init, EmptyRow, PhaseOf

\* The refinement mapping has the types of AnswerLifecycle.
LEMMA PhaseType ==
  ASSUME NEW status \in Statuses
  PROVE  PhaseOf(status) \in Promise!Phases
BY DEF PhaseOf, Statuses, Promise!Phases

\* One row: its phase stays, or makes one of the abstract moves; it becomes
\* answered exactly by the abstract answer.
LEMMA PhaseMoves ==
  ASSUME NEW r \in Rows, NEW s \in Rows, RowMoves(r, s)
  PROVE  /\ \/ PhaseOf(s.status) = PhaseOf(r.status)
            \/ r.status = "absent" /\ PhaseOf(s.status) = "open"
            \/ PhaseOf(r.status) = "open"
                 /\ PhaseOf(s.status) \in {"answered", "cancelling", "closed"}
            \/ PhaseOf(r.status) = "cancelling" /\ PhaseOf(s.status) = "closed"
            \/ PhaseOf(r.status) \in {"answered", "closed"}
                 /\ PhaseOf(s.status) = "purged"
         /\ (PhaseOf(r.status) = "open" /\ PhaseOf(s.status) = "answered")
              = (r.status = "running" /\ s.status = "completed")
BY DEF RowMoves, PhaseOf, Rows, Statuses, Terminal

\* Every step is a step of AnswerLifecycle, or none.
LEMMA NextPromise == IInv /\ [Next]_vars => [Promise!Next]_(Promise!vars)
<1> SUFFICES ASSUME IInv, [Next]_vars PROVE Promise!Next
  BY DEF Promise!Next
<1> DEFINE ph == [t \in Tasks |-> PhaseOf(row[t].status)]
           answered == {t \in Tasks : answer[t] # 0}
<1>0. TypeOK /\ TypeOK'
  BY NextType DEF IInv
<1>1. \A t \in Tasks : row[t] \in Rows /\ row'[t] \in Rows
  BY <1>0 DEF TypeOK
<1>2. \A t \in Tasks : RowMoves(row[t], row'[t])
  BY <1>0, NextMoves
<1>3. ph' \in [Tasks -> Promise!Phases]
  BY <1>1, PhaseType DEF Rows
<1>4. ASSUME NEW t \in Tasks
      PROVE  ph'[t] = ph[t] \/ Promise!Change(t)
  <2>1. ph[t] = PhaseOf(row[t].status) /\ ph'[t] = PhaseOf(row'[t].status)
    OBVIOUS
  <2>2. row[t].status = "absent" => ph[t] = "none"
    BY DEF PhaseOf
  <2>3. \/ ph'[t] = ph[t]
        \/ ph[t] = "none" /\ ph'[t] = "open"
        \/ ph[t] = "open" /\ ph'[t] \in {"answered", "cancelling", "closed"}
        \/ ph[t] = "cancelling" /\ ph'[t] = "closed"
        \/ ph[t] \in {"answered", "closed"} /\ ph'[t] = "purged"
    BY <1>1, <1>2, <2>1, <2>2, PhaseMoves
  <2> QED
    BY <2>3 DEF Promise!Change, Promise!Submit, Promise!Answer,
      Promise!AskToCancel, Promise!Close, Promise!Purge, Promise!Move
<1>5. ASSUME NEW t \in Tasks
      PROVE  Promise!Answer(t)
               = (row[t].status = "running" /\ row'[t].status = "completed")
  BY <1>1, <1>2, PhaseMoves DEF Promise!Answer, Promise!Move
<1>6. ASSUME NEW t \in Tasks
      PROVE  answer'[t] # 0 <=> answer[t] # 0 \/ Promise!Answer(t)
  <2>1. CASE row[t].status = "running" /\ row'[t].status = "completed"
    <3>1. row[t].fence # 0
      <4>1. PICK c \in claims : c.task = t /\ c.fence = row[t].fence
        BY <1>0, <2>1, AnswerMoves
      <4> QED
        BY <1>1, <2>1, <4>1 DEF IInv, Fencing, Present, Rows
    <3> QED
      BY <1>0, <1>5, <2>1, <3>1, AnswerMoves
  <2>2. CASE ~(row[t].status = "running" /\ row'[t].status = "completed")
    BY <1>0, <1>5, <2>2, AnswerMoves
  <2> QED
    BY <2>1, <2>2
<1>7. answered' = answered \cup {t \in Tasks : Promise!Answer(t)}
  BY <1>6
<1> QED
  BY <1>3, <1>4, <1>7 DEF Promise!Next

(* The whole table, under any interleaving of processes, crashes, expiries,   *)
(* cancellations and revocations, implements the promise of AnswerLifecycle.  *)
THEOREM TasksKeepPromise == Spec => KeepsPromise
BY InitPromise, NextPromise, InvariantHolds, PTL
DEF Spec, KeepsPromise, Promise!Spec

=============================================================================
