------------------------ MODULE AnswerAdmissionProofs ------------------------
(***************************************************************************)
(* Proofs about AnswerAdmission, for any number of requests, slots and     *)
(* places in the queue.                                                    *)
(***************************************************************************)
EXTENDS AnswerAdmission, FiniteSetTheorems, SequenceTheorems, TLAPS

(* What SlotsHeld and NobodyWaitsInVain rest on: the queue holds the waiting *)
(* requests, each once, none of them aborted, and nobody after close().      *)
QueueIsWaiting ==
  /\ \A i \in DOMAIN queue : state[queue[i]] = "waiting" /\ queue[i] \notin aborted
  /\ \A i, j \in DOMAIN queue : queue[i] = queue[j] => i = j
  /\ \A r \in Requests : state[r] = "waiting" => \E i \in DOMAIN queue : queue[i] = r
  /\ ~open => queue = <<>>

Granted(st) == {r \in Requests : st[r] = "granted"}

IInv ==
  /\ TypeOK
  /\ QueueIsWaiting
  /\ SlotsHeld
  /\ NobodyWaitsInVain

-----------------------------------------------------------------------------
(* Sequences and counting *)

\* Positions of a queue.
LEMMA QueueType ==
  ASSUME TypeOK
  PROVE  /\ Len(queue) \in Nat
         /\ DOMAIN queue = 1..Len(queue)
         /\ \A i \in DOMAIN queue : queue[i] \in Requests
         /\ queue # <<>> => Len(queue) > 0
         /\ queue = <<>> => Len(queue) = 0
BY EmptySeq, LenProperties, ElementOfSeq DEF TypeOK

\* Splicing an entry out keeps the others in their order.
LEMMA Spliced ==
  ASSUME NEW S, NEW s \in Seq(S), NEW i \in 1..Len(s)
  PROVE  /\ RemoveAt(s, i) \in Seq(S)
         /\ Len(RemoveAt(s, i)) = Len(s) - 1
         /\ \A j \in 1..(Len(s) - 1) :
              RemoveAt(s, i)[j] = IF j < i THEN s[j] ELSE s[j + 1]
<1> DEFINE a == SubSeq(s, 1, i - 1)
           b == SubSeq(s, i + 1, Len(s))
<1>0. Len(s) \in Nat
  BY LenProperties
<1>1. /\ a \in Seq(S) /\ Len(a) = i - 1
      /\ \A j \in 1..(i - 1) : a[j] = s[j]
  BY <1>0, SubSeqProperties
<1>2. /\ b \in Seq(S) /\ Len(b) = Len(s) - i
      /\ \A j \in 1..(Len(s) - i) : b[j] = s[i + j]
  BY <1>0, SubSeqProperties
<1>3. RemoveAt(s, i) = a \o b
  BY DEF RemoveAt
<1>4. /\ a \o b \in Seq(S)
      /\ Len(a \o b) = Len(a) + Len(b)
      /\ \A j \in 1..(Len(a) + Len(b)) :
           (a \o b)[j] = IF j <= Len(a) THEN a[j] ELSE b[j - Len(a)]
  BY <1>1, <1>2, ConcatProperties
<1> HIDE DEF a, b
<1>5. ASSUME NEW j \in 1..(Len(s) - 1)
      PROVE  (a \o b)[j] = IF j < i THEN s[j] ELSE s[j + 1]
  <2>1. CASE j < i
    BY <1>0, <1>1, <1>2, <1>4, <2>1
  <2>2. CASE ~(j < i)
    <3>1. j - (i - 1) \in 1..(Len(s) - i) /\ i + (j - (i - 1)) = j + 1
      BY <1>0, <2>2
    <3>2. (a \o b)[j] = b[j - (i - 1)]
      BY <1>0, <1>1, <1>2, <1>4, <2>2
    <3>3. b[j - (i - 1)] = s[i + (j - (i - 1))]
      BY <1>2, <3>1
    <3> QED
      BY <1>0, <2>2, <3>1, <3>2, <3>3
  <2> QED
    BY <2>1, <2>2
<1> QED
  BY <1>0, <1>1, <1>2, <1>3, <1>4, <1>5

\* There are finitely many granted requests; settling or granting one
\* changes their number by one.
LEMMA GrantedCount ==
  ASSUME NEW st
  PROVE  /\ IsFiniteSet(Granted(st))
         /\ Cardinality(Granted(st)) \in Nat
<1>1. Granted(st) \in SUBSET Requests
  BY DEF Granted
<1>2. IsFiniteSet(Granted(st))
  BY <1>1, AdmissionAssumption, FS_Subset
<1> QED
  BY <1>2, FS_CardinalityType

\* One more request is granted.
LEMMA GrantOne ==
  ASSUME NEW st, NEW st2, NEW r \in Requests,
         st[r] # "granted", st2[r] = "granted",
         \A q \in Requests \ {r} : (st2[q] = "granted") <=> (st[q] = "granted")
  PROVE  Cardinality(Granted(st2)) = Cardinality(Granted(st)) + 1
<1>1. Granted(st2) = Granted(st) \cup {r} /\ r \notin Granted(st)
  BY DEF Granted
<1> QED
  BY <1>1, GrantedCount, FS_AddElement

\* One request gives its slot back.
LEMMA ReleaseOne ==
  ASSUME NEW st, NEW st2, NEW r \in Requests,
         st[r] = "granted", st2[r] # "granted",
         \A q \in Requests \ {r} : (st2[q] = "granted") <=> (st[q] = "granted")
  PROVE  Cardinality(Granted(st2)) = Cardinality(Granted(st)) - 1
<1>1. Granted(st2) = Granted(st) \ {r} /\ r \in Granted(st)
  BY DEF Granted
<1> QED
  BY <1>1, GrantedCount, FS_RemoveElement

\* The same requests are granted.
LEMMA GrantNone ==
  ASSUME NEW st, NEW st2,
         \A q \in Requests : (st2[q] = "granted") <=> (st[q] = "granted")
  PROVE  Cardinality(Granted(st2)) = Cardinality(Granted(st))
<1>1. Granted(st2) = Granted(st)
  BY DEF Granted
<1> QED
  BY <1>1

-----------------------------------------------------------------------------
(* What a freed slot does.  While somebody waits all slots are in use, so the *)
(* one that is freed goes to the head of the queue and nothing else moves.    *)
LEMMA FreedSlot ==
  ASSUME IInv, NEW st, Free(st), active > 0
  PROVE  \/ /\ queue = <<>> /\ queue' = <<>>
            /\ active' = active - 1
            /\ \A r \in Requests : state'[r] = st[r]
            /\ state' = st \/ state' = [r \in Requests |-> st[r]]
         \/ /\ queue # <<>> /\ queue' = Tail(queue)
            /\ active' = active /\ active = MaxActive
            /\ state' = [r \in Requests |-> IF r = queue[1] THEN "granted" ELSE st[r]]
<1>0. active \in 0..MaxActive /\ MaxActive \in Nat \ {0}
  BY AdmissionAssumption DEF IInv, TypeOK
<1> DEFINE used == active - 1
           liveBefore(i) == {j \in 1..(i - 1) : queue[j] \notin aborted}
           taken == {i \in DOMAIN queue : used + Cardinality(liveBefore(i)) < MaxActive}
           rejected == {queue[i] : i \in taken} \cap aborted
           granted == {queue[i] : i \in taken} \ aborted
<1> HIDE DEF used, liveBefore, taken, rejected, granted
<1>1. Len(queue) \in Nat /\ DOMAIN queue = 1..Len(queue)
      /\ (queue # <<>> => Len(queue) > 0) /\ (queue = <<>> => Len(queue) = 0)
  BY QueueType DEF IInv
<1>2. Cardinality({}) = 0
  BY FS_EmptySet
<1>3. CASE ~open
  BY <1>3 DEF Free, IInv, QueueIsWaiting
<1>4. CASE open
  <2>1. Drain(st, used)
    BY <1>4 DEF Free, used
  <2>2. /\ active' = used + Cardinality(granted)
        /\ queue' = SubSeq(queue, Cardinality(taken) + 1, Len(queue))
        /\ state' = [r \in Requests |-> CASE r \in granted -> "granted"
                                       [] r \in rejected -> "rejected"
                                       [] OTHER -> st[r]]
    BY <2>1 DEF Drain, used, liveBefore, taken, rejected, granted
  <2>3. CASE queue = <<>>
    <3>1. taken = {}
      BY <1>1, <2>3 DEF taken
    <3>2. granted = {} /\ rejected = {}
      BY <3>1 DEF granted, rejected
    <3>3. active' = active - 1
      BY <1>0, <1>2, <2>2, <3>2 DEF used
    <3>4. queue' = <<>>
      <4>1. queue' = SubSeq(queue, 1, 0)
        BY <1>1, <1>2, <2>2, <2>3, <3>1
      <4> QED
        BY <2>3, <4>1, SubSeqEmpty
    <3>5. state' = [r \in Requests |-> st[r]]
      BY <2>2, <3>2
    <3> QED
      BY <2>3, <3>3, <3>4, <3>5
  <2>4. CASE queue # <<>>
    <3>1. active = MaxActive
      BY <2>4 DEF IInv, NobodyWaitsInVain
    <3>2. ASSUME NEW i \in DOMAIN queue
          PROVE  Cardinality(liveBefore(i)) = i - 1
      <4>1. liveBefore(i) = 1..(i - 1)
        BY <1>1 DEF IInv, QueueIsWaiting, liveBefore
      <4>2. i \in Int /\ i >= 1
        BY <1>1
      <4>3. Cardinality(1..(i - 1)) = IF 1 > i - 1 THEN 0 ELSE (i - 1) - 1 + 1
        BY <4>2, FS_Interval
      <4> QED
        BY <4>1, <4>2, <4>3
    <3>3. taken = {1}
      BY <1>0, <1>1, <2>4, <3>1, <3>2 DEF taken, used
    <3>4. queue[1] \notin aborted
      BY <1>1, <2>4 DEF IInv, QueueIsWaiting
    <3>5. granted = {queue[1]} /\ rejected = {}
      BY <3>3, <3>4 DEF granted, rejected
    <3>6. Cardinality(taken) = 1 /\ Cardinality(granted) = 1
      BY <3>3, <3>5, FS_Singleton
    <3>7. active' = active
      BY <1>0, <2>2, <3>6 DEF used
    <3>8. queue' = Tail(queue)
      <4>1. queue' = SubSeq(queue, 2, Len(queue))
        BY <2>2, <3>6
      <4> QED
        BY <2>4, <4>1, TailIsSubSeq DEF IInv, TypeOK
    <3>9. state' = [r \in Requests |-> IF r = queue[1] THEN "granted" ELSE st[r]]
      BY <2>2, <3>5
    <3> QED
      BY <2>4, <3>1, <3>7, <3>8, <3>9
  <2> QED
    BY <2>3, <2>4
<1> QED
  BY <1>3, <1>4

-----------------------------------------------------------------------------
(* The inductive invariant, action by action *)

States == {"new", "waiting", "granted", "released", "rejected"}

\* The slots held, as a count of requests.
LEMMA HeldIsGranted == SlotsHeld <=> active = durable + Cardinality(Granted(state))
BY DEF SlotsHeld, Granted

\* The initial states satisfy the invariant.
LEMMA InitInvariant == Init => IInv
<1> SUFFICES ASSUME Init PROVE IInv
  OBVIOUS
<1>1. queue \in Seq(Requests) /\ Len(queue) = 0 /\ DOMAIN queue = {}
  BY EmptySeq DEF Init
<1>2. TypeOK
  BY <1>1, AdmissionAssumption DEF Init, TypeOK
<1>3. QueueIsWaiting
  BY <1>1 DEF Init, QueueIsWaiting
<1>4. SlotsHeld
  <2>1. Granted(state) = {}
    BY DEF Init, Granted
  <2>2. Cardinality(Granted(state)) = 0
    BY <2>1, FS_EmptySet
  <2> QED
    BY <2>2, HeldIsGranted DEF Init
<1>5. NobodyWaitsInVain
  BY DEF Init, NobodyWaitsInVain
<1> QED
  BY <1>2, <1>3, <1>4, <1>5 DEF IInv

\* The number of slots the scheduler holds is bounded because all slots are.
LEMMA DurableBounded ==
  ASSUME active \in 0..MaxActive, durable \in Nat, SlotsHeld
  PROVE  durable \in 0..MaxActive
<1>1. Cardinality(Granted(state)) \in Nat
  BY GrantedCount
<1>2. active = durable + Cardinality(Granted(state))
  BY HeldIsGranted
<1> QED
  BY <1>1, <1>2, AdmissionAssumption

\* A request is granted, queued or rejected.
LEMMA AcquireStep ==
  ASSUME IInv, NEW r \in Requests, Acquire(r)
  PROVE  IInv'
<1> USE DEF IInv
<1>0. /\ state \in [Requests -> States] /\ queue \in Seq(Requests)
      /\ active \in 0..MaxActive /\ MaxActive \in Nat
      /\ state[r] = "new" /\ durable' = durable /\ aborted' = aborted /\ open' = open
  BY AdmissionAssumption DEF TypeOK, Acquire, States
<1>1. \A i \in DOMAIN queue : queue[i] # r
  BY <1>0 DEF QueueIsWaiting
<1>2. SlotsHeld <=> active = durable + Cardinality(Granted(state))
  BY HeldIsGranted
<1>3. SlotsHeld' <=> active' = durable' + Cardinality(Granted(state'))
  BY DEF SlotsHeld, Granted
<1>4. ASSUME state' = [state EXCEPT ![r] = "rejected"], UNCHANGED <<active, queue>>
      PROVE  IInv'
  <2>1. TypeOK'
    BY <1>0, <1>4 DEF TypeOK, States
  <2>2. QueueIsWaiting'
    BY <1>0, <1>1, <1>4 DEF QueueIsWaiting
  <2>3. Cardinality(Granted(state')) = Cardinality(Granted(state))
    <3>1. \A q \in Requests : (state'[q] = "granted") <=> (state[q] = "granted")
      BY <1>0, <1>4
    <3> QED
      BY <3>1, GrantNone
  <2>4. NobodyWaitsInVain'
    BY <1>4 DEF NobodyWaitsInVain
  <2> QED
    BY <1>0, <1>2, <1>3, <1>4, <2>1, <2>2, <2>3, <2>4
<1>5. ASSUME active < MaxActive, state' = [state EXCEPT ![r] = "granted"],
             active' = active + 1, queue' = queue
      PROVE  IInv'
  <2>1. TypeOK'
    BY <1>0, <1>5 DEF TypeOK, States
  <2>2. QueueIsWaiting'
    BY <1>0, <1>1, <1>5 DEF QueueIsWaiting
  <2>3. Cardinality(Granted(state')) = Cardinality(Granted(state)) + 1
    <3>1. \A q \in Requests \ {r} : (state'[q] = "granted") <=> (state[q] = "granted")
      BY <1>0, <1>5
    <3>2. state[r] # "granted" /\ state'[r] = "granted"
      BY <1>0, <1>5
    <3> QED
      BY <3>1, <3>2, GrantOne
  <2>4. NobodyWaitsInVain'
    BY <1>0, <1>5 DEF NobodyWaitsInVain
  <2>5. SlotsHeld'
    <3>1. durable \in Nat /\ Cardinality(Granted(state)) \in Nat
      BY GrantedCount DEF TypeOK
    <3> QED
      BY <1>0, <1>2, <1>3, <1>5, <2>3, <3>1
  <2> QED
    BY <2>1, <2>2, <2>4, <2>5
<1>6. ASSUME r \notin aborted, open, active >= MaxActive, Len(queue) < MaxWaiting,
             state' = [state EXCEPT ![r] = "waiting"],
             queue' = Append(queue, r), active' = active
      PROVE  IInv'
  <2>0. /\ Len(queue) \in Nat /\ DOMAIN queue = 1..Len(queue)
        /\ MaxWaiting \in Nat
    BY QueueType, AdmissionAssumption
  <2>1. /\ queue' \in Seq(Requests) /\ Len(queue') = Len(queue) + 1
        /\ DOMAIN queue' = 1..(Len(queue) + 1)
        /\ \A i \in 1..Len(queue) : queue'[i] = queue[i]
        /\ queue'[Len(queue) + 1] = r
    BY <1>0, <1>6, AppendProperties, LenProperties
  <2>2. TypeOK'
    BY <1>0, <1>6, <2>0, <2>1 DEF TypeOK, States
  <2>3. \A i \in DOMAIN queue' : \/ i \in DOMAIN queue /\ queue'[i] = queue[i]
                                 \/ i = Len(queue) + 1 /\ queue'[i] = r
    BY <2>0, <2>1
  <2>4. \A i \in DOMAIN queue' : state'[queue'[i]] = "waiting" /\ queue'[i] \notin aborted
    BY <1>0, <1>1, <1>6, <2>3, QueueType DEF QueueIsWaiting
  <2>5. \A i, j \in DOMAIN queue' : queue'[i] = queue'[j] => i = j
    BY <1>1, <2>3 DEF QueueIsWaiting
  <2>6. ASSUME NEW q \in Requests, state'[q] = "waiting"
        PROVE  \E i \in DOMAIN queue' : queue'[i] = q
    <3>1. CASE q = r
      BY <2>0, <2>1, <3>1
    <3>2. CASE q # r
      <4>1. PICK i \in DOMAIN queue : queue[i] = q
        BY <1>0, <1>6, <2>6, <3>2 DEF QueueIsWaiting
      <4> QED
        BY <2>0, <2>1, <4>1
    <3> QED
      BY <3>1, <3>2
  <2>7. QueueIsWaiting'
    BY <1>0, <1>6, <2>4, <2>5, <2>6 DEF QueueIsWaiting
  <2>8. Cardinality(Granted(state')) = Cardinality(Granted(state))
    <3>1. \A q \in Requests : (state'[q] = "granted") <=> (state[q] = "granted")
      BY <1>0, <1>6
    <3> QED
      BY <3>1, GrantNone
  <2>9. NobodyWaitsInVain'
    BY <1>0, <1>6 DEF NobodyWaitsInVain
  <2> QED
    BY <1>0, <1>2, <1>3, <1>6, <2>2, <2>7, <2>8, <2>9
<1> QED
  BY <1>4, <1>5, <1>6 DEF Acquire

\* The rest of the queue after its head was served.
LEMMA TailOfQueue ==
  ASSUME TypeOK, queue # <<>>
  PROVE  /\ Tail(queue) \in Seq(Requests)
         /\ Len(Tail(queue)) = Len(queue) - 1
         /\ DOMAIN Tail(queue) = 1..(Len(queue) - 1)
         /\ \A i \in 1..(Len(queue) - 1) :
              i + 1 \in DOMAIN queue /\ Tail(queue)[i] = queue[i + 1]
<1>1. Len(queue) \in Nat /\ DOMAIN queue = 1..Len(queue) /\ Len(queue) > 0
  BY QueueType
<1>2. /\ Tail(queue) \in Seq(Requests)
      /\ Len(Tail(queue)) = Len(queue) - 1
      /\ \A i \in 1..Len(Tail(queue)) : Tail(queue)[i] = queue[i + 1]
  BY HeadTailProperties DEF TypeOK
<1>3. DOMAIN Tail(queue) = 1..(Len(queue) - 1)
  BY <1>2, LenProperties
<1> QED
  BY <1>1, <1>2, <1>3

\* A freed slot goes to the head of the queue, or stays free when nobody waits.
LEMMA FreeStep ==
  ASSUME IInv, NEW st \in [Requests -> States], Free(st), active > 0,
         UNCHANGED <<aborted, open>>,
         \A q \in Requests : (st[q] = "waiting") <=> (state[q] = "waiting")
  PROVE  /\ queue' \in Seq(Requests) /\ Len(queue') <= MaxWaiting
         /\ state' \in [Requests -> States]
         /\ active' \in 0..MaxActive
         /\ QueueIsWaiting' /\ NobodyWaitsInVain'
         /\ active' - active =
              Cardinality(Granted(state')) - Cardinality(Granted(st)) - 1
<1> USE DEF IInv
<1>0. /\ Len(queue) \in Nat /\ DOMAIN queue = 1..Len(queue)
      /\ \A i \in DOMAIN queue : queue[i] \in Requests
      /\ active \in 0..MaxActive /\ MaxActive \in Nat /\ MaxWaiting \in Nat
      /\ Len(queue) <= MaxWaiting
  BY QueueType, AdmissionAssumption DEF TypeOK
<1>1. CASE /\ queue = <<>> /\ queue' = <<>>
           /\ active' = active - 1
           /\ \A r \in Requests : state'[r] = st[r]
           /\ state' = st \/ state' = [r \in Requests |-> st[r]]
  <2>1. state' = st
    BY <1>1
  <2>2. QueueIsWaiting'
    BY <1>1, <2>1 DEF QueueIsWaiting
  <2>3. Cardinality(Granted(st)) \in Nat
    BY GrantedCount
  <2> QED
    BY <1>0, <1>1, <2>1, <2>2, <2>3 DEF NobodyWaitsInVain, TypeOK
<1>2. CASE /\ queue # <<>> /\ queue' = Tail(queue)
           /\ active' = active /\ active = MaxActive
           /\ state' = [r \in Requests |-> IF r = queue[1] THEN "granted" ELSE st[r]]
  <2> DEFINE h == queue[1]
  <2>1. 1 \in DOMAIN queue /\ h \in Requests /\ st[h] = "waiting"
    BY <1>0, <1>2, QueueType DEF QueueIsWaiting
  <2>2. /\ queue' \in Seq(Requests) /\ Len(queue') = Len(queue) - 1
        /\ DOMAIN queue' = 1..(Len(queue) - 1)
        /\ \A i \in 1..(Len(queue) - 1) :
             i + 1 \in DOMAIN queue /\ queue'[i] = queue[i + 1]
    BY <1>2, TailOfQueue
  <2>3. state' \in [Requests -> States]
    BY <1>2 DEF States
  <2>4. ASSUME NEW i \in DOMAIN queue'
        PROVE  /\ i \in Nat \ {0} /\ i + 1 \in DOMAIN queue
               /\ queue'[i] = queue[i + 1] /\ queue'[i] # h
    <3>1. /\ i \in Nat \ {0} /\ i + 1 \in DOMAIN queue
          /\ queue'[i] = queue[i + 1]
      BY <1>0, <2>2
    <3>2. i + 1 # 1
      BY <3>1
    <3> QED
      BY <2>1, <3>1, <3>2 DEF QueueIsWaiting
  <2>5. ASSUME NEW i \in DOMAIN queue'
        PROVE  state'[queue'[i]] = "waiting" /\ queue'[i] \notin aborted'
    <3>1. /\ state[queue[i + 1]] = "waiting" /\ queue[i + 1] \notin aborted
          /\ queue[i + 1] \in Requests
      BY <1>0, <2>4 DEF QueueIsWaiting
    <3> QED
      BY <1>2, <2>4, <3>1
  <2>6. ASSUME NEW i \in DOMAIN queue', NEW j \in DOMAIN queue', queue'[i] = queue'[j]
        PROVE  i = j
    <3>1. i + 1 = j + 1
      BY <2>4, <2>6 DEF QueueIsWaiting
    <3> QED
      BY <2>4, <3>1
  <2>7. ASSUME NEW q \in Requests, state'[q] = "waiting"
        PROVE  \E i \in DOMAIN queue' : queue'[i] = q
    <3>1. q # h /\ state[q] = "waiting"
      BY <1>2, <2>7
    <3>2. PICK i \in DOMAIN queue : queue[i] = q
      BY <3>1 DEF QueueIsWaiting
    <3>3. i - 1 \in DOMAIN queue' /\ queue'[i - 1] = q
      BY <1>0, <2>2, <3>1, <3>2
    <3> QED
      BY <3>3
  <2>8. open'
    BY <1>2 DEF QueueIsWaiting
  <2>9. QueueIsWaiting'
    BY <2>5, <2>6, <2>7, <2>8 DEF QueueIsWaiting
  <2>10. Cardinality(Granted(state')) = Cardinality(Granted(st)) + 1
    <3>1. /\ st[h] # "granted" /\ state'[h] = "granted"
          /\ \A q \in Requests \ {h} : (state'[q] = "granted") <=> (st[q] = "granted")
      BY <1>2, <2>1
    <3> QED
      BY <2>1, <3>1, GrantOne
  <2>11. Cardinality(Granted(st)) \in Nat
    BY GrantedCount
  <2> QED
    BY <1>0, <1>2, <2>2, <2>3, <2>9, <2>10, <2>11 DEF NobodyWaitsInVain
<1> QED
  BY <1>1, <1>2, FreedSlot

\* A blocking request gives its slot back.
LEMMA ReleaseStep ==
  ASSUME IInv, NEW r \in Requests, Release(r)
  PROVE  IInv'
<1> USE DEF IInv
<1> DEFINE st == [state EXCEPT ![r] = "released"]
<1>1. /\ state \in [Requests -> States] /\ state[r] = "granted"
      /\ Free(st) /\ UNCHANGED <<durable, aborted, open>>
  BY DEF Release, TypeOK, States
<1>2. st \in [Requests -> States]
  BY <1>1 DEF States
<1>3. Cardinality(Granted(st)) = Cardinality(Granted(state)) - 1
  <2>1. \A q \in Requests \ {r} : (st[q] = "granted") <=> (state[q] = "granted")
    BY <1>1
  <2>2. st[r] # "granted"
    BY <1>1
  <2> QED
    BY <1>1, <2>1, <2>2, ReleaseOne
<1>4. /\ active = durable + Cardinality(Granted(state))
      /\ Cardinality(Granted(state)) \in Nat /\ Cardinality(Granted(st)) \in Nat
      /\ durable \in Nat /\ active \in Nat
  BY HeldIsGranted, GrantedCount DEF TypeOK
<1>5. \A q \in Requests : (st[q] = "waiting") <=> (state[q] = "waiting")
  BY <1>1
<1> HIDE DEF st
<1>6. active > 0
  BY <1>3, <1>4
<1>7. /\ queue' \in Seq(Requests) /\ Len(queue') <= MaxWaiting
      /\ state' \in [Requests -> States]
      /\ active' \in 0..MaxActive
      /\ QueueIsWaiting' /\ NobodyWaitsInVain'
      /\ active' - active =
           Cardinality(Granted(state')) - Cardinality(Granted(st)) - 1
  BY <1>1, <1>2, <1>5, <1>6, FreeStep
<1>8. TypeOK'
  BY <1>1, <1>7 DEF TypeOK, States
<1>9. active' = durable' + Cardinality(Granted(state'))
  <2>1. Cardinality(Granted(state')) \in Nat /\ active' \in Nat
    BY <1>7, GrantedCount
  <2>2. active' - active =
          Cardinality(Granted(state')) - Cardinality(Granted(st)) - 1
    BY <1>7
  <2>3. durable' = durable
    BY <1>1
  <2> HIDE DEF IInv
  <2> QED
    BY <1>3, <1>4, <2>1, <2>2, <2>3
<1>10. SlotsHeld'
  BY <1>9 DEF SlotsHeld, Granted
<1> QED
  BY <1>7, <1>8, <1>10

\* The scheduler gives a slot back.
LEMMA DurableReleaseStep ==
  ASSUME IInv, DurableRelease
  PROVE  IInv'
<1> USE DEF IInv
<1>1. /\ state \in [Requests -> States] /\ durable > 0 /\ durable' = durable - 1
      /\ Free(state) /\ UNCHANGED <<aborted, open>>
  BY DEF DurableRelease, TypeOK, States
<1>2. /\ active = durable + Cardinality(Granted(state))
      /\ Cardinality(Granted(state)) \in Nat
      /\ durable \in 0..MaxActive /\ active \in Nat
  BY HeldIsGranted, GrantedCount DEF TypeOK
<1>3. active > 0
  BY <1>1, <1>2
<1>4. /\ queue' \in Seq(Requests) /\ Len(queue') <= MaxWaiting
      /\ state' \in [Requests -> States]
      /\ active' \in 0..MaxActive
      /\ QueueIsWaiting' /\ NobodyWaitsInVain'
      /\ active' - active =
           Cardinality(Granted(state')) - Cardinality(Granted(state)) - 1
  BY <1>1, <1>3, FreeStep
<1>5. durable' \in 0..MaxActive
  BY <1>1, <1>2, AdmissionAssumption
<1>6. TypeOK'
  BY <1>1, <1>4, <1>5 DEF TypeOK, States
<1>7. active' = durable' + Cardinality(Granted(state'))
  <2>1. Cardinality(Granted(state')) \in Nat /\ active' \in Nat
    BY <1>4, GrantedCount
  <2>2. active' - active =
          Cardinality(Granted(state')) - Cardinality(Granted(state)) - 1
    BY <1>4
  <2>3. durable' = durable - 1 /\ durable \in Int
    BY <1>1, <1>2
  <2> HIDE DEF IInv
  <2> QED
    BY <1>2, <2>1, <2>2, <2>3
<1>8. SlotsHeld'
  BY <1>7 DEF SlotsHeld, Granted
<1> QED
  BY <1>4, <1>6, <1>8

\* The scheduler takes a slot, which nobody waits for.
LEMMA DurableTakeStep ==
  ASSUME IInv, DurableTake
  PROVE  IInv'
<1> USE DEF IInv
<1>0. /\ active \in 0..MaxActive /\ MaxActive \in Nat /\ durable \in Nat
      /\ active' = active + 1 /\ durable' = durable + 1 /\ active < MaxActive
      /\ UNCHANGED <<queue, state, aborted, open>>
  BY AdmissionAssumption DEF TypeOK, DurableTake
<1>1. SlotsHeld'
  <2>1. active = durable + Cardinality(Granted(state))
    BY HeldIsGranted
  <2>2. Cardinality(Granted(state)) \in Nat
    BY GrantedCount
  <2> QED
    BY <1>0, <2>1, <2>2 DEF SlotsHeld, Granted
<1>2. active' \in 0..MaxActive /\ durable' \in Nat
  BY <1>0
<1>3. durable' \in 0..MaxActive
  <2>1. active' = durable' + Cardinality(Granted(state))
    BY <1>0, <1>1 DEF SlotsHeld, Granted
  <2>2. Cardinality(Granted(state)) \in Nat
    BY GrantedCount
  <2> QED
    BY <1>0, <1>2, <2>1, <2>2
<1>4. TypeOK'
  BY <1>0, <1>2, <1>3 DEF TypeOK
<1>5. QueueIsWaiting'
  BY <1>0 DEF QueueIsWaiting
<1>6. NobodyWaitsInVain'
  BY <1>0 DEF NobodyWaitsInVain
<1> QED
  BY <1>1, <1>4, <1>5, <1>6

\* A client goes away.
LEMMA AbortStep ==
  ASSUME IInv, NEW r \in Requests, Abort(r)
  PROVE  IInv'
<1> USE DEF IInv
<1>0. /\ state \in [Requests -> States] /\ queue \in Seq(Requests)
      /\ Len(queue) \in Nat /\ DOMAIN queue = 1..Len(queue)
      /\ \A i \in DOMAIN queue : queue[i] \in Requests
      /\ aborted' = aborted \cup {r} /\ UNCHANGED <<active, durable, open>>
      /\ Len(queue) <= MaxWaiting /\ MaxWaiting \in Nat
  BY QueueType, AdmissionAssumption DEF TypeOK, Abort, States
<1>1. CASE r \notin ToSet(queue) /\ UNCHANGED <<queue, state>>
  <2>1. \A i \in DOMAIN queue : queue[i] # r
    BY <1>0, <1>1 DEF ToSet
  <2>2. QueueIsWaiting'
    BY <1>0, <1>1, <2>1 DEF QueueIsWaiting
  <2> QED
    BY <1>0, <1>1, <2>2 DEF TypeOK, SlotsHeld, NobodyWaitsInVain
<1>2. ASSUME NEW k \in DOMAIN queue, queue[k] = r,
             queue' = RemoveAt(queue, k), state' = [state EXCEPT ![r] = "rejected"]
      PROVE  IInv'
  <2>1. /\ queue' \in Seq(Requests) /\ Len(queue') = Len(queue) - 1
        /\ \A i \in 1..(Len(queue) - 1) :
             queue'[i] = IF i < k THEN queue[i] ELSE queue[i + 1]
    BY <1>0, <1>2, Spliced
  <2>2. DOMAIN queue' = 1..(Len(queue) - 1)
    BY <2>1, LenProperties
  <2>3. TypeOK'
    BY <1>0, <1>2, <2>1 DEF TypeOK, States
  <2>4. ASSUME NEW i \in DOMAIN queue'
        PROVE  /\ i < k => i \in DOMAIN queue /\ queue'[i] = queue[i]
               /\ ~(i < k) => i + 1 \in DOMAIN queue /\ queue'[i] = queue[i + 1]
    BY <1>0, <2>1, <2>2
  <2>5. \A i \in DOMAIN queue' : queue'[i] # r
    BY <1>0, <1>2, <2>2, <2>4 DEF QueueIsWaiting
  <2>6. \A i \in DOMAIN queue' :
          state'[queue'[i]] = "waiting" /\ queue'[i] \notin aborted'
    BY <1>0, <1>2, <2>4, <2>5 DEF QueueIsWaiting
  <2>7. \A i, j \in DOMAIN queue' : queue'[i] = queue'[j] => i = j
    BY <1>0, <2>2, <2>4 DEF QueueIsWaiting
  <2>8. ASSUME NEW q \in Requests, state'[q] = "waiting"
        PROVE  \E i \in DOMAIN queue' : queue'[i] = q
    <3>1. q # r /\ state[q] = "waiting"
      BY <1>0, <1>2, <2>8
    <3>2. PICK i \in DOMAIN queue : queue[i] = q
      BY <3>1 DEF QueueIsWaiting
    <3>3. CASE i < k
      BY <1>0, <2>1, <2>2, <3>2, <3>3
    <3>4. CASE i > k
      <4>1. i - 1 \in DOMAIN queue' /\ queue'[i - 1] = q
        BY <1>0, <2>1, <2>2, <3>2, <3>4
      <4> QED
        BY <4>1
    <3> QED
      BY <1>0, <1>2, <3>1, <3>2, <3>3, <3>4
  <2>9. open
    BY <1>0, <1>2, QueueType DEF QueueIsWaiting
  <2>10. QueueIsWaiting'
    BY <1>0, <2>6, <2>7, <2>8, <2>9 DEF QueueIsWaiting
  <2>11. Cardinality(Granted(state')) = Cardinality(Granted(state))
    <3>1. state[r] = "waiting"
      BY <1>2 DEF QueueIsWaiting
    <3>2. \A q \in Requests : (state'[q] = "granted") <=> (state[q] = "granted")
      BY <1>0, <1>2, <3>1
    <3> QED
      BY <3>2, GrantNone
  <2>12. SlotsHeld'
    <3>1. active' = durable' + Cardinality(Granted(state'))
      BY <1>0, <2>11, HeldIsGranted
    <3> QED
      BY <3>1 DEF SlotsHeld, Granted
  <2>13. NobodyWaitsInVain'
    BY <1>0, <1>2, QueueType DEF NobodyWaitsInVain
  <2> QED
    BY <2>3, <2>10, <2>12, <2>13
<1> QED
  BY <1>1, <1>2 DEF Abort

\* close() rejects everybody who waits.
LEMMA CloseStep ==
  ASSUME IInv, Close
  PROVE  IInv'
<1> USE DEF IInv
<1>0. /\ state \in [Requests -> States]
      /\ queue' = <<>> /\ ~open' /\ open' \in BOOLEAN
      /\ UNCHANGED <<active, durable, aborted>>
      /\ state' = [r \in Requests |->
                     IF r \in ToSet(queue) THEN "rejected" ELSE state[r]]
  BY DEF TypeOK, Close, States
<1>1. \A r \in Requests : r \in ToSet(queue) <=> state[r] = "waiting"
  BY DEF QueueIsWaiting, ToSet
<1>2. queue' \in Seq(Requests) /\ Len(queue') = 0 /\ DOMAIN queue' = {}
  BY <1>0, EmptySeq
<1>3. TypeOK'
  BY <1>0, <1>2, AdmissionAssumption DEF TypeOK, States
<1>4. QueueIsWaiting'
  BY <1>0, <1>1, <1>2 DEF QueueIsWaiting
<1>5. SlotsHeld'
  <2>1. Cardinality(Granted(state')) = Cardinality(Granted(state))
    <3>1. \A q \in Requests : (state'[q] = "granted") <=> (state[q] = "granted")
      BY <1>0, <1>1
    <3> QED
      BY <3>1, GrantNone
  <2>2. active' = durable' + Cardinality(Granted(state'))
    BY <1>0, <2>1, HeldIsGranted
  <2> QED
    BY <2>2 DEF SlotsHeld, Granted
<1>6. NobodyWaitsInVain'
  BY <1>0 DEF NobodyWaitsInVain
<1> QED
  BY <1>3, <1>4, <1>5, <1>6

\* Every step keeps the invariant.
LEMMA NextInvariant == IInv /\ [Next]_vars => IInv'
<1>1. IInv /\ UNCHANGED vars => IInv'
  BY DEF vars, IInv, TypeOK, QueueIsWaiting, SlotsHeld, NobodyWaitsInVain
<1>2. IInv /\ Next => IInv'
  BY AcquireStep, ReleaseStep, DurableTakeStep, DurableReleaseStep, AbortStep,
     CloseStep
  DEF Next
<1> QED
  BY <1>1, <1>2

\* The invariant holds always.
LEMMA InvariantHolds == Spec => []IInv
BY InitInvariant, NextInvariant, PTL DEF Spec

-----------------------------------------------------------------------------
(* The theorems *)

(* The queue never outgrows its bound, and no more than MaxActive slots are   *)
(* ever in use, however requests, tasks and disconnects interleave.           *)
THEOREM TypeCorrect == Spec => []TypeOK
BY InvariantHolds, PTL DEF IInv

(* Every slot in use is held by exactly one granted request or task.          *)
THEOREM NoSlotIsLost == Spec => []SlotsHeld
BY InvariantHolds, PTL DEF IInv

(* No request waits while a slot is free: the wake-up of the queue is never   *)
(* lost, and the scheduler never overtakes a request that waits.              *)
THEOREM NoWakeUpIsLost == Spec => []NobodyWaitsInVain
BY InvariantHolds, PTL DEF IInv

\* A step grants a slot to the head of the queue and to nobody behind it.
LEMMA OnlyTheHead ==
  ASSUME IInv, [Next]_vars, NEW j \in DOMAIN queue, j # 1
  PROVE  state'[queue[j]] # "granted"
<1> USE DEF IInv
<1>0. /\ queue[j] \in Requests /\ state[queue[j]] = "waiting"
      /\ state \in [Requests -> States] /\ 1 \in DOMAIN queue
      /\ queue[j] # queue[1]
  <2>1. Len(queue) \in Nat /\ DOMAIN queue = 1..Len(queue) /\ queue[j] \in Requests
    BY QueueType
  <2>2. 1 \in DOMAIN queue
    BY <2>1
  <2> QED
    BY <2>1, <2>2 DEF QueueIsWaiting, TypeOK, States
<1>1. ASSUME NEW r \in Requests, Acquire(r) PROVE state'[queue[j]] # "granted"
  BY <1>0, <1>1 DEF Acquire
<1>2. ASSUME NEW st, Free(st), active > 0, st[queue[j]] = "waiting"
      PROVE  state'[queue[j]] # "granted"
  BY <1>0, <1>2, FreedSlot
<1>3. ASSUME NEW r \in Requests, Release(r) PROVE state'[queue[j]] # "granted"
  <2> DEFINE st == [state EXCEPT ![r] = "released"]
  <2>1. Free(st) /\ state[r] = "granted"
    BY <1>3 DEF Release
  <2>2. st[queue[j]] = "waiting"
    BY <1>0, <2>1
  <2>3. active > 0
    <3>1. r \in Granted(state)
      BY <2>1 DEF Granted
    <3>2. Cardinality(Granted(state)) \in Nat /\ Cardinality(Granted(state)) # 0
      BY <3>1, GrantedCount, FS_EmptySet
    <3> QED
      BY <3>2, HeldIsGranted DEF TypeOK
  <2> QED
    BY <1>2, <2>1, <2>2, <2>3
<1>4. CASE DurableRelease
  <2>1. Free(state) /\ durable > 0
    BY <1>4 DEF DurableRelease
  <2>2. active > 0
    BY <2>1, GrantedCount, HeldIsGranted DEF TypeOK
  <2> QED
    BY <1>0, <1>2, <2>1, <2>2
<1>5. CASE DurableTake \/ UNCHANGED vars
  BY <1>0, <1>5 DEF DurableTake, vars
<1>6. ASSUME NEW r \in Requests, Abort(r) PROVE state'[queue[j]] # "granted"
  BY <1>0, <1>6 DEF Abort
<1>7. CASE Close
  BY <1>0, <1>7 DEF Close
<1> QED
  BY <1>1, <1>3, <1>4, <1>5, <1>6, <1>7 DEF Next

(* Requests are served in the order in which they came.                       *)
THEOREM RequestsAreServedInOrder == Spec => FirstComeFirstServed
<1>1. IInv /\ [Next]_vars =>
        [\A i, j \in DOMAIN queue :
           i < j /\ state'[queue[i]] = "waiting" => state'[queue[j]] # "granted"]_vars
  <2> SUFFICES ASSUME IInv, [Next]_vars, NEW i \in DOMAIN queue,
                      NEW j \in DOMAIN queue, i < j
               PROVE  state'[queue[j]] # "granted"
    OBVIOUS
  <2>1. DOMAIN queue = 1..Len(queue) /\ Len(queue) \in Nat
    BY QueueType DEF IInv
  <2>2. j # 1
    BY <2>1
  <2> QED
    BY <2>2, OnlyTheHead
<1> QED
  BY <1>1, InvariantHolds, PTL DEF Spec, FirstComeFirstServed

=============================================================================
