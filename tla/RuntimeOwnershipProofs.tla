------------------------ MODULE RuntimeOwnershipProofs ------------------------
(***************************************************************************)
(* Proofs about RuntimeOwnership, for any number of processes, any         *)
(* assignment of PIDs to them and any number of faults.                    *)
(***************************************************************************)
EXTENDS RuntimeOwnership, TLAPS

Starts == {"packaged", "source"}

(* Where the code of each command can be.                                    *)
KindsAreRight ==
  \A p \in Processes :
    /\ pc[p] \in {"pin", "pinning", "unpin", "unpinned"} => kind[p] = "packaged"
    /\ pc[p] \in {"look", "select", "selecting"} => kind[p] = "source"
    /\ pc[p] \in {"open", "write", "judge", "reclaim", "reopen", "running",
                  "release", "unlink"} => kind[p] \in Starts
    /\ pc[p] = "clean" => kind[p] = "stop"
    /\ pc[p] = "enter" => kind[p] \in {"install", "activate"}
    /\ pc[p] \in {"observe", "observePin", "observeChildren"} =>
         kind[p] \in {"install", "stop"}
    /\ pc[p] \in {"compare", "remove", "removePin"} => kind[p] # "activate"
    /\ pc[p] = "check" => kind[p] = "activate"
    /\ pc[p] = "act" => kind[p] \in {"install", "activate"}
    /\ pc[p] = "leave" => kind[p] \in {"install", "activate", "stop"}

(* Who is inside the lifecycle lock, and what keeps a pinned supervisor in.  *)
Inside(p) ==
  \/ pc[p] \in {"pinning", "selecting", "compare", "remove", "removePin",
                "reopen", "unpinned", "leave", "check", "act", "unpin"}
  \/ pc[p] = "running" /\ kind[p] = "packaged"
  \/ pc[p] \in {"observe", "observePin", "observeChildren"} /\ kind[p] = "install"

InsideHolds == \A p \in Processes : Inside(p) => dir = p

(* The file between openSync and writeFileSync.                              *)
WriterHolds ==
  \A p \in Processes : pc[p] = "write" => lock = Empty(p)

(* A record is somebody's who lived, and one judged stale somebody's who     *)
(* died.  The dead do not come back.                                         *)
RecordsAreOfTheBorn == lock # None => pc[lock.by] # "unborn"

JudgedAreDead ==
  \A p \in Processes : seen[p] # None => pc[seen[p]] = "dead"

(* What is about to be removed is still the record that was judged.          *)
RemovedIsJudged ==
  \A p \in Processes :
    pc[p] = "remove" => seen[p] # None /\ lock = Record(seen[p])

(* An installer that found the runtime stopped keeps it stopped, once the    *)
(* store exists: a start that sees the store needs the lifecycle lock.       *)
Observed(p) ==
  kind[p] = "install"
    /\ pc[p] \in {"observePin", "observeChildren", "compare", "remove",
                  "removePin", "act"}
ObservedAlone(p) ==
  kind[p] = "install" /\ pc[p] \in {"compare", "remove", "removePin", "act"}

StoppedStays ==
  \A p \in Processes :
    /\ Observed(p) /\ store => \A q \in Processes : pc[q] # "running"
    /\ ObservedAlone(p) /\ store => children = {}

SecondPassHasStore ==
  \A p \in Processes :
    /\ pc[p] = "unborn" => round[p] = 0
    /\ kind[p] = "install" /\ pc[p] # "unborn" /\ round[p] = 1 => store

(* Without a fault, every file belongs to a process that will remove it.     *)
FilesAreAccounted ==
  faults = 0 =>
    /\ lock # None => pc[lock.by] \in Owning \union {"write"}
    /\ dir # None => Inside(dir)
    /\ pin # None => pc[pin] \in {"running", "unpin"}

PinsArePackaged ==
  pin # None => kind[pin] = "packaged" /\ pc[pin] # "unborn"

IInv ==
  /\ TypeOK
  /\ KindsAreRight
  /\ InsideHolds
  /\ WriterHolds
  /\ OwnersRecordStays
  /\ RecordsAreOfTheBorn
  /\ JudgedAreDead
  /\ RemovedIsJudged
  /\ StoppedStays
  /\ SecondPassHasStore
  /\ SelectionInUse
  /\ PinsArePackaged
  /\ FilesAreAccounted

-----------------------------------------------------------------------------
(* The initial states.                                                       *)
LEMMA InitHolds == Init => IInv
<1> SUFFICES ASSUME Init PROVE IInv
  OBVIOUS
<1>1. TypeOK
  <2>1. selected \in [Pointers -> Nat] /\ chosen \in [Processes -> [Pointers -> Nat]]
          /\ round \in [Processes -> 0..2] /\ faults \in 0..MaxFaults
    BY OwnershipAssumption DEF Init
  <2>2. pc \in [Processes -> Labels] /\ kind \in [Processes -> {"packaged"}]
    BY DEF Init, Labels
  <2>3. store \in BOOLEAN
    BY DEF Init
  <2> QED
    BY <2>1, <2>2, <2>3 DEF Init, TypeOK, Lives
<1>2. KindsAreRight /\ InsideHolds /\ WriterHolds /\ OwnersRecordStays
        /\ RecordsAreOfTheBorn /\ JudgedAreDead /\ RemovedIsJudged
  BY DEF Init, KindsAreRight, InsideHolds, Inside, WriterHolds,
         OwnersRecordStays, Owning, RecordsAreOfTheBorn, JudgedAreDead,
         RemovedIsJudged
<1>3. StoppedStays /\ SecondPassHasStore /\ SelectionInUse /\ PinsArePackaged
        /\ FilesAreAccounted
  BY DEF Init, StoppedStays, Observed, ObservedAlone, SecondPassHasStore,
         SelectionInUse, PinsArePackaged, FilesAreAccounted
<1> QED
  BY <1>1, <1>2, <1>3 DEF IInv

-----------------------------------------------------------------------------
(* The two texts the file can hold.                                          *)
LEMMA Texts ==
  ASSUME NEW p \in Processes, NEW q \in Processes
  PROVE  /\ Empty(p) \in Records /\ Empty(p).by = p
         /\ Empty(p) # Record(q) /\ (Empty(p) = Empty(q) => p = q)
         /\ Empty(p) # None /\ Record(q) # None
<1>1. Empty(p).by = p /\ Empty(q).by = q
  BY DEF Empty
<1>2. Empty(p).written = FALSE /\ Record(q).written = TRUE
  BY DEF Empty, Record
<1>3. Empty(p) \in Records
  BY DEF Empty, Records
<1>4. Record(q) \in Records
  BY DEF Record, Records
<1> QED
  BY <1>1, <1>2, <1>3, <1>4, OwnershipAssumption

\* A text is not the absence of a file.
LEMMA TextIsThere ==
  ASSUME NEW p \in Processes
  PROVE  Empty(p) # None /\ Record(p) # None
  BY Texts

(* A process that ends is dead; its record of what it judged is gone.        *)
LEMMA ExitShape ==
  ASSUME TypeOK, NEW p \in Processes, Exit(p)
  PROVE  /\ kind' = kind
         /\ pc' = [pc EXCEPT ![p] = "dead"]
         /\ seen' = [seen EXCEPT ![p] = None]
         /\ seenPin' = [seenPin EXCEPT ![p] = None]
         /\ round' = [round EXCEPT ![p] = 0]
         /\ chosen' \in [Processes -> [Pointers -> Nat]]
         /\ \A q \in Processes \ {p} : chosen'[q] = chosen[q]
  BY DEF Exit, Goto, TypeOK

\* The types after the end of a process.
LEMMA ExitTypes ==
  ASSUME TypeOK, NEW p \in Processes, Exit(p)
  PROVE  /\ kind' = kind /\ pc' \in [Processes -> Labels]
         /\ seen' \in [Processes -> Lives] /\ seenPin' \in [Processes -> Lives]
         /\ round' \in [Processes -> 0..2]
         /\ chosen' \in [Processes -> [Pointers -> Nat]]
<1>1. round' \in [Processes -> 0..2] /\ chosen' \in [Processes -> [Pointers -> Nat]]
  BY DEF Exit, TypeOK
<1>2. pc' \in [Processes -> Labels]
  BY DEF Exit, Goto, TypeOK, Labels
<1> QED
  BY <1>1, <1>2 DEF Exit, TypeOK, Lives

(* Types, and where each command can be.                                     *)
LEMMA TypesHold == IInv /\ [Next]_vars => TypeOK'
<1> SUFFICES ASSUME IInv, [Next]_vars
             PROVE  TypeOK'
  OBVIOUS
<1> USE OwnershipAssumption DEF
     files, local, Goto, Alive, IInv, TypeOK, Labels, Lives, Records,
     Pointers
<1>0. CASE UNCHANGED vars
  BY <1>0 DEF vars
<1>1. ASSUME NEW p \in Processes, NEW k \in Kinds, Spawn(p, k) PROVE TypeOK'
  BY <1>1 DEF Spawn, Runs
<1>2. ASSUME NEW p \in Processes, Open(p) PROVE TypeOK'
  <2>1. lock' \in Records \union {None}
    BY <1>2, Texts DEF Open
  <2>2. round' \in [Processes -> 0..2]
    BY <1>2 DEF Open
  <2>3. pc' \in [Processes -> Labels]
    BY <1>2 DEF Open
  <2> QED
    BY <2>1, <2>2, <2>3, <1>2 DEF Open
<1>3. ASSUME NEW p \in Processes, GiveUp(p) PROVE TypeOK'
  <2>1. CASE Exit(p)
    <3> HIDE DEF Goto, local
    <3>1. UNCHANGED <<lock, pin, store, selected, children>> /\ dir' \in Lives
            /\ faults' \in 0..MaxFaults
      BY <2>1, <1>3 DEF GiveUp
    <3> QED
      BY <2>1, <3>1, ExitTypes
  <2>2. CASE ~Exit(p)
    BY <2>2, <1>3 DEF GiveUp
  <2> QED
    BY <2>1, <2>2
<1>4. ASSUME NEW p \in Processes, Write(p) PROVE TypeOK'
  BY <1>4 DEF Write, Record
<1>5. ASSUME NEW p \in Processes, WriteFails(p) PROVE TypeOK'
  BY <1>5 DEF WriteFails, Exit, Fault
<1>6. ASSUME NEW p \in Processes, Judge(p) PROVE TypeOK'
  <2>1. CASE Exit(p)
    <3> HIDE DEF Goto, local
    <3>1. UNCHANGED <<lock, pin, store, selected, children>> /\ dir' \in Lives
            /\ faults' \in 0..MaxFaults
      BY <2>1, <1>6 DEF Judge, Stale, Runs
    <3> QED
      BY <2>1, <3>1, ExitTypes
  <2>2. CASE ~Exit(p)
    BY SMTT(30), <2>2, <1>6 DEF Judge, Stale, Runs
  <2> QED
    BY <2>1, <2>2
<1>7. ASSUME NEW p \in Processes, Pin(p) PROVE TypeOK'
  <2>1. pin' \in Lives /\ pc' \in [Processes -> Labels]
    BY <1>7 DEF Pin, Unpinned
  <2>2. selected' \in [Pointers -> Nat]
    <3>1. UNCHANGED selected \/ Turn("generation")
      BY <1>7 DEF Pin, Unpinned, Bundled
    <3>2. CASE Turn("generation")
      BY <3>2, "generation" \in Pointers DEF Turn
    <3> QED
      BY <3>1, <3>2
  <2>3. chosen' \in [Processes -> [Pointers -> Nat]]
    <3>1. Chosen(p) \/ UNCHANGED chosen
      BY <1>7 DEF Pin, Unpinned
    <3>2. CASE Chosen(p)
      BY <3>2, <2>2 DEF Chosen
    <3> QED
      BY <3>1, <3>2
  <2> QED
    BY <2>1, <2>2, <2>3, <1>7 DEF Pin, Unpinned
<1>8. ASSUME NEW p \in Processes, Look(p) PROVE TypeOK'
  BY <1>8 DEF Look, Chosen
<1>9. ASSUME NEW p \in Processes, Select(p) PROVE TypeOK'
  BY <1>9 DEF Select, Chosen, Record
<1>10. ASSUME NEW p \in Processes, StartFails(p) PROVE TypeOK'
  BY <1>10 DEF StartFails
<1>11. ASSUME NEW p \in Processes, StartChildren(p) PROVE TypeOK'
  BY <1>11 DEF StartChildren
<1>12. ASSUME NEW p \in Processes, Shutdown(p) PROVE TypeOK'
  BY <1>12 DEF Shutdown
<1>13. ASSUME NEW p \in Processes, CleanupFails(p) PROVE TypeOK'
  BY <1>13 DEF CleanupFails, Exit, Fault
<1>14. ASSUME NEW p \in Processes, Unpin(p) PROVE TypeOK'
  BY <1>14 DEF Unpin
<1>15. ASSUME NEW p \in Processes, Release(p) PROVE TypeOK'
  <2>1. CASE Exit(p)
    <3> HIDE DEF Goto, local
    <3>1. UNCHANGED <<lock, pin, store, selected, children>> /\ dir' \in Lives
            /\ faults' \in 0..MaxFaults
      BY <2>1, <1>15 DEF Release, Record
    <3> QED
      BY <2>1, <3>1, ExitTypes
  <2>2. CASE ~Exit(p)
    BY SMTT(30), <2>2, <1>15 DEF Release, Record
  <2> QED
    BY <2>1, <2>2
<1>16. ASSUME NEW p \in Processes, Unlink(p) PROVE TypeOK'
  BY <1>16 DEF Unlink, Exit
<1>17. ASSUME NEW p \in Processes, Enter(p) PROVE TypeOK'
  BY <1>17 DEF Enter, Entries
<1>18. ASSUME NEW p \in Processes, Refused(p) PROVE TypeOK'
  <2>1. CASE Exit(p)
    <3> HIDE DEF Goto, local
    <3>1. UNCHANGED <<lock, pin, store, selected, children>> /\ dir' \in Lives
            /\ faults' \in 0..MaxFaults
      BY <2>1, <1>18 DEF Refused, Entries, Turned
    <3> QED
      BY <2>1, <3>1, ExitTypes
  <2>2. CASE ~Exit(p)
    BY SMTT(30), <2>2, <1>18 DEF Refused, Entries, Turned
  <2> QED
    BY <2>1, <2>2
<1>19. ASSUME NEW p \in Processes, EnterFails(p) PROVE TypeOK'
  <2>1. CASE Exit(p)
    <3> HIDE DEF Goto, local
    <3>1. UNCHANGED <<lock, pin, store, selected, children>> /\ dir' \in Lives
            /\ faults' \in 0..MaxFaults
      BY <2>1, <1>19 DEF EnterFails, Entries, Turned, Fault
    <3> QED
      BY <2>1, <3>1, ExitTypes
  <2>2. CASE ~Exit(p)
    BY SMTT(30), <2>2, <1>19 DEF EnterFails, Entries, Turned, Fault
  <2> QED
    BY <2>1, <2>2
<1>20. ASSUME NEW p \in Processes, Leave(p) PROVE TypeOK'
  <2>1. CASE Exit(p)
    <3> HIDE DEF Goto, local
    <3>1. UNCHANGED <<lock, pin, store, selected, children>> /\ dir' \in Lives
            /\ faults' \in 0..MaxFaults
      BY <2>1, <1>20 DEF Leave
    <3> QED
      BY <2>1, <3>1, ExitTypes
  <2>2. CASE ~Exit(p)
    <3>1. pc' \in [Processes -> Labels]
      BY <2>2, <1>20 DEF Leave
    <3>2. seen' \in [Processes -> Lives] /\ seenPin' \in [Processes -> Lives]
      <4>1. seen \in [Processes -> Lives] /\ seenPin \in [Processes -> Lives] /\ None \in Lives
        OBVIOUS
      <4>2. seen' = seen \/ seen' = [seen EXCEPT ![p] = None]
        BY <2>2, <1>20 DEF Leave
      <4>3. seenPin' = seenPin \/ seenPin' = [seenPin EXCEPT ![p] = None]
        BY <2>2, <1>20 DEF Leave
      <4> HIDE DEF files, local, Goto, Alive, IInv, TypeOK, Labels, Lives, Records
      <4> QED
        BY <4>1, <4>2, <4>3
    <3>3. UNCHANGED <<kind, round, chosen, lock, pin, store, selected, children, faults>>
      BY <2>2, <1>20 DEF Leave
    <3>4. dir' \in Lives
      BY <1>20 DEF Leave
    <3> QED
      BY <3>1, <3>2, <3>3, <3>4
  <2> QED
    BY <2>1, <2>2
<1>21. ASSUME NEW p \in Processes, Compare(p) PROVE TypeOK'
  BY <1>21 DEF Compare, Record
<1>22. ASSUME NEW p \in Processes, Remove(p) PROVE TypeOK'
  BY <1>22 DEF Remove
<1>23. ASSUME NEW p \in Processes, RemovePin(p) PROVE TypeOK'
  BY <1>23 DEF RemovePin
<1>24. ASSUME NEW p \in Processes, ObserveLock(p) PROVE TypeOK'
  <2>1. CASE Exit(p)
    <3> HIDE DEF Goto, local
    <3>1. UNCHANGED <<lock, pin, store, selected, children>> /\ dir' \in Lives
            /\ faults' \in 0..MaxFaults
      BY <2>1, <1>24 DEF ObserveLock, Uncertain, Stale, Runs
    <3> QED
      BY <2>1, <3>1, ExitTypes
  <2>2. CASE ~Exit(p)
    <3>1. pc' \in [Processes -> Labels]
      BY <2>2, <1>24 DEF ObserveLock, Uncertain
    <3>2. UNCHANGED <<kind, seenPin, round, chosen, lock, dir, pin, store, selected, children, faults>>
      BY <2>2, <1>24 DEF ObserveLock, Uncertain
    <3>3. CASE seen' = seen
      BY <3>1, <3>2, <3>3
    <3>4. CASE Stale(lock) /\ seen' = [seen EXCEPT ![p] = lock.by]
      <4>1. lock.by \in Lives
        BY <3>4 DEF Stale
      <4> QED
        BY <3>1, <3>2, <3>4, <4>1
    <3> QED
      BY <2>2, <1>24, <3>3, <3>4 DEF ObserveLock, Uncertain
  <2> QED
    BY <2>1, <2>2
<1>25. ASSUME NEW p \in Processes, ObservePin(p) PROVE TypeOK'
  <2>1. CASE Exit(p)
    <3> HIDE DEF Goto, local
    <3>1. UNCHANGED <<lock, pin, store, selected, children>> /\ dir' \in Lives
            /\ faults' \in 0..MaxFaults
      BY <2>1, <1>25 DEF ObservePin, Uncertain, Runs
    <3> QED
      BY <2>1, <3>1, ExitTypes
  <2>2. CASE ~Exit(p)
    <3>1. seenPin' \in [Processes -> Lives]
      BY <2>2, <1>25 DEF ObservePin, Uncertain
    <3>2. pc' \in [Processes -> Labels]
      BY <2>2, <1>25 DEF ObservePin, Uncertain
    <3> QED
      BY <2>2, <1>25, <3>1, <3>2 DEF ObservePin, Uncertain
  <2> QED
    BY <2>1, <2>2
<1>26. ASSUME NEW p \in Processes, ObserveChildren(p) PROVE TypeOK'
  <2>1. CASE Exit(p)
    <3> HIDE DEF Goto, local
    <3>1. UNCHANGED <<lock, pin, store, selected, children>> /\ dir' \in Lives
            /\ faults' \in 0..MaxFaults
      BY <2>1, <1>26 DEF ObserveChildren, Uncertain
    <3> QED
      BY <2>1, <3>1, ExitTypes
  <2>2. CASE ~Exit(p)
    BY <2>2, <1>26 DEF ObserveChildren, Uncertain
  <2> QED
    BY <2>1, <2>2
<1>27. ASSUME NEW p \in Processes, Check(p) PROVE TypeOK'
  BY <1>27 DEF Check, NoActive, PinGone, Stale, Record
<1>28. ASSUME NEW p \in Processes, Act(p) PROVE TypeOK'
  <2>1. selected' \in [Pointers -> Nat] /\ round' \in [Processes -> 0..2]
    BY <1>28 DEF Act, Turn
  <2>2. store' \in BOOLEAN
    BY <1>28 DEF Act
  <2> QED
    BY <2>1, <2>2, <1>28 DEF Act
<1>29. ASSUME NEW p \in Processes, Crash(p) PROVE TypeOK'
  BY <1>29 DEF Crash, Exit, Fault
<1>30. ASSUME NEW p \in Processes, ChildExits(p) PROVE TypeOK'
  BY <1>30 DEF ChildExits
<1>31. CASE Recover
  BY <1>31 DEF Recover
<1> QED
  BY <1>0, <1>1, <1>2, <1>3, <1>4, <1>5, <1>6, <1>7, <1>8, <1>9, <1>10,
     <1>11, <1>12, <1>13, <1>14, <1>15, <1>16, <1>17, <1>18, <1>19, <1>20,
     <1>21, <1>22, <1>23, <1>24, <1>25, <1>26, <1>27, <1>28, <1>29, <1>30,
     <1>31 DEF Next, Start, Lifecycle

\* Every step leaves each command where its code can be.
LEMMA KindsHold == IInv /\ [Next]_vars => KindsAreRight'
<1> SUFFICES ASSUME IInv, [Next]_vars
             PROVE  KindsAreRight'
  OBVIOUS
<1> USE OwnershipAssumption DEF
     files, local, Goto, Alive, IInv, TypeOK, KindsAreRight, Starts
<1>0. CASE UNCHANGED vars
  BY <1>0 DEF vars
<1>1. ASSUME NEW p \in Processes, NEW k \in Kinds, Spawn(p, k) PROVE KindsAreRight'
  BY <1>1 DEF Spawn, Runs
<1>2. ASSUME NEW p \in Processes, Open(p) PROVE KindsAreRight'
  BY <1>2 DEF Open
<1>3. ASSUME NEW p \in Processes, GiveUp(p) PROVE KindsAreRight'
  BY <1>3 DEF GiveUp, Exit
<1>4. ASSUME NEW p \in Processes, Write(p) PROVE KindsAreRight'
  BY <1>4 DEF Write, Record
<1>5. ASSUME NEW p \in Processes, WriteFails(p) PROVE KindsAreRight'
  BY <1>5 DEF WriteFails, Exit, Fault
<1>6. ASSUME NEW p \in Processes, Judge(p) PROVE KindsAreRight'
  BY <1>6 DEF Judge, Exit, Stale, Runs
<1>7. ASSUME NEW p \in Processes, Pin(p) PROVE KindsAreRight'
  BY <1>7 DEF Pin, Unpinned, Bundled, Turn, NoActive, PinGone, Stale, Chosen, Record
<1>8. ASSUME NEW p \in Processes, Look(p) PROVE KindsAreRight'
  BY <1>8 DEF Look, Chosen
<1>9. ASSUME NEW p \in Processes, Select(p) PROVE KindsAreRight'
  BY <1>9 DEF Select, Chosen, Record
<1>10. ASSUME NEW p \in Processes, StartFails(p) PROVE KindsAreRight'
  BY <1>10 DEF StartFails
<1>11. ASSUME NEW p \in Processes, StartChildren(p) PROVE KindsAreRight'
  BY <1>11 DEF StartChildren
<1>12. ASSUME NEW p \in Processes, Shutdown(p) PROVE KindsAreRight'
  BY <1>12 DEF Shutdown
<1>13. ASSUME NEW p \in Processes, CleanupFails(p) PROVE KindsAreRight'
  BY <1>13 DEF CleanupFails, Exit, Fault
<1>14. ASSUME NEW p \in Processes, Unpin(p) PROVE KindsAreRight'
  BY <1>14 DEF Unpin
<1>15. ASSUME NEW p \in Processes, Release(p) PROVE KindsAreRight'
  BY <1>15 DEF Release, Exit, Record
<1>16. ASSUME NEW p \in Processes, Unlink(p) PROVE KindsAreRight'
  BY <1>16 DEF Unlink, Exit
<1>17. ASSUME NEW p \in Processes, Enter(p) PROVE KindsAreRight'
  BY <1>17 DEF Enter, Entries
<1>18. ASSUME NEW p \in Processes, Refused(p) PROVE KindsAreRight'
  BY <1>18 DEF Refused, Entries, Turned, Exit
<1>19. ASSUME NEW p \in Processes, EnterFails(p) PROVE KindsAreRight'
  BY <1>19 DEF EnterFails, Entries, Turned, Exit, Fault
<1>20. ASSUME NEW p \in Processes, Leave(p) PROVE KindsAreRight'
  BY <1>20 DEF Leave, Exit
<1>21. ASSUME NEW p \in Processes, Compare(p) PROVE KindsAreRight'
  BY <1>21 DEF Compare, Record
<1>22. ASSUME NEW p \in Processes, Remove(p) PROVE KindsAreRight'
  BY <1>22 DEF Remove
<1>23. ASSUME NEW p \in Processes, RemovePin(p) PROVE KindsAreRight'
  BY <1>23 DEF RemovePin
<1>24. ASSUME NEW p \in Processes, ObserveLock(p) PROVE KindsAreRight'
  BY <1>24 DEF ObserveLock, Exit, Uncertain, Stale, Runs
<1>25. ASSUME NEW p \in Processes, ObservePin(p) PROVE KindsAreRight'
  BY <1>25 DEF ObservePin, Exit, Uncertain, Runs
<1>26. ASSUME NEW p \in Processes, ObserveChildren(p) PROVE KindsAreRight'
  BY <1>26 DEF ObserveChildren, Exit, Uncertain
<1>27. ASSUME NEW p \in Processes, Check(p) PROVE KindsAreRight'
  BY <1>27 DEF Check, NoActive, PinGone, Stale, Record
<1>28. ASSUME NEW p \in Processes, Act(p) PROVE KindsAreRight'
  BY <1>28 DEF Act, Turn
<1>29. ASSUME NEW p \in Processes, Crash(p) PROVE KindsAreRight'
  BY <1>29 DEF Crash, Exit, Fault
<1>30. ASSUME NEW p \in Processes, ChildExits(p) PROVE KindsAreRight'
  BY <1>30 DEF ChildExits
<1>31. CASE Recover
  BY <1>31 DEF Recover
<1> QED
  BY <1>0, <1>1, <1>2, <1>3, <1>4, <1>5, <1>6, <1>7, <1>8, <1>9, <1>10,
     <1>11, <1>12, <1>13, <1>14, <1>15, <1>16, <1>17, <1>18, <1>19, <1>20,
     <1>21, <1>22, <1>23, <1>24, <1>25, <1>26, <1>27, <1>28, <1>29, <1>30,
     <1>31 DEF Next, Start, Lifecycle

-----------------------------------------------------------------------------
(* The lifecycle lock has one holder.                                        *)
LEMMA InsideStays == IInv /\ [Next]_vars => InsideHolds'
<1> SUFFICES ASSUME IInv, [Next]_vars
             PROVE  InsideHolds'
  OBVIOUS
<1> USE OwnershipAssumption DEF
     files, local, Goto, Alive, IInv, TypeOK, KindsAreRight, InsideHolds,
     Inside
<1>0. CASE UNCHANGED vars
  BY <1>0 DEF vars
<1>1. ASSUME NEW p \in Processes, NEW k \in Kinds, Spawn(p, k) PROVE InsideHolds'
  BY <1>1 DEF Spawn, Runs
<1>2. ASSUME NEW p \in Processes, Open(p) PROVE InsideHolds'
  BY <1>2 DEF Open
<1>3. ASSUME NEW p \in Processes, GiveUp(p) PROVE InsideHolds'
  BY <1>3 DEF GiveUp, Exit
<1>4. ASSUME NEW p \in Processes, Write(p) PROVE InsideHolds'
  BY <1>4 DEF Write, Record
<1>5. ASSUME NEW p \in Processes, WriteFails(p) PROVE InsideHolds'
  BY <1>5 DEF WriteFails, Exit, Fault
<1>6. ASSUME NEW p \in Processes, Judge(p) PROVE InsideHolds'
  BY <1>6 DEF Judge, Exit, Stale, Runs
<1>7. ASSUME NEW p \in Processes, Pin(p) PROVE InsideHolds'
  BY <1>7 DEF Pin, Unpinned, Bundled, Turn, NoActive, PinGone, Stale, Chosen, Record
<1>8. ASSUME NEW p \in Processes, Look(p) PROVE InsideHolds'
  BY <1>8 DEF Look, Chosen
<1>9. ASSUME NEW p \in Processes, Select(p) PROVE InsideHolds'
  BY <1>9 DEF Select, Chosen, Record
<1>10. ASSUME NEW p \in Processes, StartFails(p) PROVE InsideHolds'
  BY <1>10 DEF StartFails
<1>11. ASSUME NEW p \in Processes, StartChildren(p) PROVE InsideHolds'
  BY <1>11 DEF StartChildren
<1>12. ASSUME NEW p \in Processes, Shutdown(p) PROVE InsideHolds'
  BY <1>12 DEF Shutdown
<1>13. ASSUME NEW p \in Processes, CleanupFails(p) PROVE InsideHolds'
  BY <1>13 DEF CleanupFails, Exit, Fault
<1>14. ASSUME NEW p \in Processes, Unpin(p) PROVE InsideHolds'
  BY <1>14 DEF Unpin
<1>15. ASSUME NEW p \in Processes, Release(p) PROVE InsideHolds'
  BY <1>15 DEF Release, Exit, Record
<1>16. ASSUME NEW p \in Processes, Unlink(p) PROVE InsideHolds'
  BY <1>16 DEF Unlink, Exit
<1>17. ASSUME NEW p \in Processes, Enter(p) PROVE InsideHolds'
  BY <1>17 DEF Enter, Entries
<1>18. ASSUME NEW p \in Processes, Refused(p) PROVE InsideHolds'
  BY <1>18 DEF Refused, Entries, Turned, Exit
<1>19. ASSUME NEW p \in Processes, EnterFails(p) PROVE InsideHolds'
  BY <1>19 DEF EnterFails, Entries, Turned, Exit, Fault
<1>20. ASSUME NEW p \in Processes, Leave(p) PROVE InsideHolds'
  BY <1>20 DEF Leave, Exit
<1>21. ASSUME NEW p \in Processes, Compare(p) PROVE InsideHolds'
  BY <1>21 DEF Compare, Record
<1>22. ASSUME NEW p \in Processes, Remove(p) PROVE InsideHolds'
  BY <1>22 DEF Remove
<1>23. ASSUME NEW p \in Processes, RemovePin(p) PROVE InsideHolds'
  BY <1>23 DEF RemovePin
<1>24. ASSUME NEW p \in Processes, ObserveLock(p) PROVE InsideHolds'
  BY <1>24 DEF ObserveLock, Exit, Uncertain, Stale, Runs
<1>25. ASSUME NEW p \in Processes, ObservePin(p) PROVE InsideHolds'
  BY <1>25 DEF ObservePin, Exit, Uncertain, Runs
<1>26. ASSUME NEW p \in Processes, ObserveChildren(p) PROVE InsideHolds'
  BY <1>26 DEF ObserveChildren, Exit, Uncertain
<1>27. ASSUME NEW p \in Processes, Check(p) PROVE InsideHolds'
  BY <1>27 DEF Check, NoActive, PinGone, Stale, Record
<1>28. ASSUME NEW p \in Processes, Act(p) PROVE InsideHolds'
  BY <1>28 DEF Act, Turn
<1>29. ASSUME NEW p \in Processes, Crash(p) PROVE InsideHolds'
  BY <1>29 DEF Crash, Exit, Fault
<1>30. ASSUME NEW p \in Processes, ChildExits(p) PROVE InsideHolds'
  BY <1>30 DEF ChildExits
<1>31. CASE Recover
  BY <1>31 DEF Recover
<1> QED
  BY <1>0, <1>1, <1>2, <1>3, <1>4, <1>5, <1>6, <1>7, <1>8, <1>9, <1>10,
     <1>11, <1>12, <1>13, <1>14, <1>15, <1>16, <1>17, <1>18, <1>19, <1>20,
     <1>21, <1>22, <1>23, <1>24, <1>25, <1>26, <1>27, <1>28, <1>29, <1>30,
     <1>31 DEF Next, Start, Lifecycle

(* The dead stay dead and the born born; only the dead are judged.           *)
JudgedIsSafe == RecordsAreOfTheBorn /\ JudgedAreDead

\* Every step keeps those judged dead dead, and what is removed judged.
LEMMA JudgedStay == IInv /\ [Next]_vars => JudgedIsSafe'
<1> SUFFICES ASSUME IInv, [Next]_vars
             PROVE  JudgedIsSafe'
  OBVIOUS
<1> USE OwnershipAssumption DEF
     files, local, Goto, Alive, IInv, TypeOK, Lives, Records, WriterHolds,
     Record, Empty, JudgedIsSafe, RecordsAreOfTheBorn, JudgedAreDead
<1>0. CASE UNCHANGED vars
  BY <1>0 DEF vars
<1>1. ASSUME NEW p \in Processes, NEW k \in Kinds, Spawn(p, k) PROVE JudgedIsSafe'
  BY <1>1 DEF Spawn, Runs
<1>2. ASSUME NEW p \in Processes, Open(p) PROVE JudgedIsSafe'
  <2> HIDE DEF Record, Empty
  <2>1. CASE lock = None
    <3>1. lock' = Empty(p) /\ pc' = [pc EXCEPT ![p] = "write"] /\ UNCHANGED seen
      BY <2>1, <1>2 DEF Open
    <3> QED
      BY <3>1, <2>1, <1>2, Texts DEF Open
  <2>2. CASE lock # None
    BY <2>2, <1>2 DEF Open
  <2> QED
    BY <2>1, <2>2
<1>3. ASSUME NEW p \in Processes, GiveUp(p) PROVE JudgedIsSafe'
  BY <1>3 DEF GiveUp, Exit
<1>4. ASSUME NEW p \in Processes, Write(p) PROVE JudgedIsSafe'
  BY <1>4 DEF Write
<1>5. ASSUME NEW p \in Processes, WriteFails(p) PROVE JudgedIsSafe'
  BY <1>5 DEF WriteFails, Exit, Fault
<1>6. ASSUME NEW p \in Processes, Judge(p) PROVE JudgedIsSafe'
  BY <1>6 DEF Judge, Exit, Stale, Runs
<1>7. ASSUME NEW p \in Processes, Pin(p) PROVE JudgedIsSafe'
  BY <1>7 DEF Pin, Unpinned, Bundled, Turn, NoActive, PinGone, Stale, Chosen
<1>8. ASSUME NEW p \in Processes, Look(p) PROVE JudgedIsSafe'
  BY <1>8 DEF Look, Chosen
<1>9. ASSUME NEW p \in Processes, Select(p) PROVE JudgedIsSafe'
  BY <1>9 DEF Select, Chosen
<1>10. ASSUME NEW p \in Processes, StartFails(p) PROVE JudgedIsSafe'
  BY <1>10 DEF StartFails
<1>11. ASSUME NEW p \in Processes, StartChildren(p) PROVE JudgedIsSafe'
  BY <1>11 DEF StartChildren
<1>12. ASSUME NEW p \in Processes, Shutdown(p) PROVE JudgedIsSafe'
  BY <1>12 DEF Shutdown
<1>13. ASSUME NEW p \in Processes, CleanupFails(p) PROVE JudgedIsSafe'
  BY <1>13 DEF CleanupFails, Exit, Fault
<1>14. ASSUME NEW p \in Processes, Unpin(p) PROVE JudgedIsSafe'
  BY <1>14 DEF Unpin
<1>15. ASSUME NEW p \in Processes, Release(p) PROVE JudgedIsSafe'
  <2>1. CASE Exit(p)
    <3> HIDE DEF Goto, local
    <3>1. UNCHANGED <<lock, pin, store, selected, children>>
      BY <2>1, <1>15 DEF Release, Record
    <3>2. /\ kind' = kind /\ pc' = [pc EXCEPT ![p] = "dead"]
          /\ seen' = [seen EXCEPT ![p] = None] /\ round' = [round EXCEPT ![p] = 0]
          /\ \A q \in Processes \ {p} : chosen'[q] = chosen[q]
      BY <2>1, ExitShape
    <3> QED
      BY <3>1, <3>2
  <2>2. CASE ~Exit(p)
    BY <2>2, <1>15 DEF Release, Record
  <2> QED
    BY <2>1, <2>2
<1>16. ASSUME NEW p \in Processes, Unlink(p) PROVE JudgedIsSafe'
  BY <1>16 DEF Unlink, Exit
<1>17. ASSUME NEW p \in Processes, Enter(p) PROVE JudgedIsSafe'
  BY <1>17 DEF Enter, Entries
<1>18. ASSUME NEW p \in Processes, Refused(p) PROVE JudgedIsSafe'
  <2>1. CASE Exit(p)
    <3> HIDE DEF Goto, local
    <3>1. UNCHANGED <<lock, pin, store, selected, children>>
      BY <2>1, <1>18 DEF Refused, Entries, Turned
    <3>2. /\ kind' = kind /\ pc' = [pc EXCEPT ![p] = "dead"]
          /\ seen' = [seen EXCEPT ![p] = None] /\ round' = [round EXCEPT ![p] = 0]
          /\ \A q \in Processes \ {p} : chosen'[q] = chosen[q]
      BY <2>1, ExitShape
    <3> QED
      BY <3>1, <3>2
  <2>2. CASE ~Exit(p)
    BY <2>2, <1>18 DEF Refused, Entries, Turned
  <2> QED
    BY <2>1, <2>2
<1>19. ASSUME NEW p \in Processes, EnterFails(p) PROVE JudgedIsSafe'
  <2>1. CASE Exit(p)
    <3> HIDE DEF Goto, local
    <3>1. UNCHANGED <<lock, pin, store, selected, children>>
      BY <2>1, <1>19 DEF EnterFails, Entries, Turned, Fault
    <3>2. /\ kind' = kind /\ pc' = [pc EXCEPT ![p] = "dead"]
          /\ seen' = [seen EXCEPT ![p] = None] /\ round' = [round EXCEPT ![p] = 0]
          /\ \A q \in Processes \ {p} : chosen'[q] = chosen[q]
      BY <2>1, ExitShape
    <3> QED
      BY <3>1, <3>2
  <2>2. CASE ~Exit(p)
    BY <2>2, <1>19 DEF EnterFails, Entries, Turned, Fault
  <2> QED
    BY <2>1, <2>2
<1>20. ASSUME NEW p \in Processes, Leave(p) PROVE JudgedIsSafe'
  <2>1. CASE Exit(p)
    <3> HIDE DEF Goto, local
    <3>1. UNCHANGED <<lock, pin, store, selected, children>>
      BY <2>1, <1>20 DEF Leave
    <3>2. /\ kind' = kind /\ pc' = [pc EXCEPT ![p] = "dead"]
          /\ seen' = [seen EXCEPT ![p] = None] /\ round' = [round EXCEPT ![p] = 0]
          /\ \A q \in Processes \ {p} : chosen'[q] = chosen[q]
      BY <2>1, ExitShape
    <3> QED
      BY <3>1, <3>2
  <2>2. CASE ~Exit(p)
    BY <2>2, <1>20 DEF Leave
  <2> QED
    BY <2>1, <2>2
<1>21. ASSUME NEW p \in Processes, Compare(p) PROVE JudgedIsSafe'
  BY <1>21 DEF Compare
<1>22. ASSUME NEW p \in Processes, Remove(p) PROVE JudgedIsSafe'
  BY <1>22 DEF Remove
<1>23. ASSUME NEW p \in Processes, RemovePin(p) PROVE JudgedIsSafe'
  BY <1>23 DEF RemovePin
<1>24. ASSUME NEW p \in Processes, ObserveLock(p) PROVE JudgedIsSafe'
  <2>1. CASE Exit(p)
    <3> HIDE DEF Goto, local
    <3>1. UNCHANGED <<lock, pin, store, selected, children>>
      BY <2>1, <1>24 DEF ObserveLock, Uncertain, Stale, Runs
    <3>2. /\ kind' = kind /\ pc' = [pc EXCEPT ![p] = "dead"]
          /\ seen' = [seen EXCEPT ![p] = None] /\ round' = [round EXCEPT ![p] = 0]
          /\ \A q \in Processes \ {p} : chosen'[q] = chosen[q]
      BY <2>1, ExitShape
    <3> QED
      BY <3>1, <3>2
  <2>2. CASE ~Exit(p)
    BY <2>2, <1>24 DEF ObserveLock, Uncertain, Stale, Runs
  <2> QED
    BY <2>1, <2>2
<1>25. ASSUME NEW p \in Processes, ObservePin(p) PROVE JudgedIsSafe'
  <2>1. CASE Exit(p)
    <3> HIDE DEF Goto, local
    <3>1. UNCHANGED <<lock, pin, store, selected, children>>
      BY <2>1, <1>25 DEF ObservePin, Uncertain, Runs
    <3>2. /\ kind' = kind /\ pc' = [pc EXCEPT ![p] = "dead"]
          /\ seen' = [seen EXCEPT ![p] = None] /\ round' = [round EXCEPT ![p] = 0]
          /\ \A q \in Processes \ {p} : chosen'[q] = chosen[q]
      BY <2>1, ExitShape
    <3> QED
      BY <3>1, <3>2
  <2>2. CASE ~Exit(p)
    BY <2>2, <1>25 DEF ObservePin, Uncertain, Runs
  <2> QED
    BY <2>1, <2>2
<1>26. ASSUME NEW p \in Processes, ObserveChildren(p) PROVE JudgedIsSafe'
  <2>1. CASE Exit(p)
    <3> HIDE DEF Goto, local
    <3>1. UNCHANGED <<lock, pin, store, selected, children>>
      BY <2>1, <1>26 DEF ObserveChildren, Uncertain
    <3>2. /\ kind' = kind /\ pc' = [pc EXCEPT ![p] = "dead"]
          /\ seen' = [seen EXCEPT ![p] = None] /\ round' = [round EXCEPT ![p] = 0]
          /\ \A q \in Processes \ {p} : chosen'[q] = chosen[q]
      BY <2>1, ExitShape
    <3> QED
      BY <3>1, <3>2
  <2>2. CASE ~Exit(p)
    BY <2>2, <1>26 DEF ObserveChildren, Uncertain
  <2> QED
    BY <2>1, <2>2
<1>27. ASSUME NEW p \in Processes, Check(p) PROVE JudgedIsSafe'
  BY <1>27 DEF Check, NoActive, PinGone, Stale
<1>28. ASSUME NEW p \in Processes, Act(p) PROVE JudgedIsSafe'
  BY <1>28 DEF Act, Turn
<1>29. ASSUME NEW p \in Processes, Crash(p) PROVE JudgedIsSafe'
  BY <1>29 DEF Crash, Exit, Fault
<1>30. ASSUME NEW p \in Processes, ChildExits(p) PROVE JudgedIsSafe'
  BY <1>30 DEF ChildExits
<1>31. CASE Recover
  BY <1>31 DEF Recover
<1> QED
  BY <1>0, <1>1, <1>2, <1>3, <1>4, <1>5, <1>6, <1>7, <1>8, <1>9, <1>10,
     <1>11, <1>12, <1>13, <1>14, <1>15, <1>16, <1>17, <1>18, <1>19, <1>20,
     <1>21, <1>22, <1>23, <1>24, <1>25, <1>26, <1>27, <1>28, <1>29, <1>30,
     <1>31 DEF Next, Start, Lifecycle

(* The supervisor record changes hands only through the dead.                *)
LockIsSafe == WriterHolds /\ OwnersRecordStays /\ RemovedIsJudged

\* Every step keeps the lifecycle lock and the record of a live supervisor.
LEMMA LockStays == IInv /\ [Next]_vars => LockIsSafe'
<1> SUFFICES ASSUME IInv, [Next]_vars
             PROVE  LockIsSafe'
  OBVIOUS
<1> USE OwnershipAssumption DEF
     files, local, Goto, Alive, IInv, TypeOK, InsideHolds, Inside,
     LockIsSafe, WriterHolds, OwnersRecordStays, Owning, RecordsAreOfTheBorn,
     JudgedAreDead, RemovedIsJudged, Record, Empty
<1>0. CASE UNCHANGED vars
  BY <1>0 DEF vars
<1>1. ASSUME NEW p \in Processes, NEW k \in Kinds, Spawn(p, k) PROVE LockIsSafe'
  BY <1>1 DEF Spawn, Runs
<1>2. ASSUME NEW p \in Processes, Open(p) PROVE LockIsSafe'
  <2> HIDE DEF Record, Empty
  <2>1. CASE lock = None
    <3>1. lock' = Empty(p) /\ pc' = [pc EXCEPT ![p] = "write"] /\ UNCHANGED seen
      BY <2>1, <1>2 DEF Open
    <3>2. \A q \in Processes :
            pc[q] \notin Owning /\ pc[q] # "write" /\ pc[q] # "remove"
      BY <2>1, TextIsThere DEF Lives
    <3> QED
      BY <3>1, <3>2
  <2>2. CASE lock # None
    BY <2>2, <1>2 DEF Open
  <2> QED
    BY <2>1, <2>2
<1>3. ASSUME NEW p \in Processes, GiveUp(p) PROVE LockIsSafe'
  <2>1. CASE Exit(p)
    <3> HIDE DEF Goto, local
    <3>1. UNCHANGED <<lock, pin, store, selected, children>>
      BY <2>1, <1>3 DEF GiveUp
    <3>2. /\ kind' = kind /\ pc' = [pc EXCEPT ![p] = "dead"]
          /\ seen' = [seen EXCEPT ![p] = None] /\ round' = [round EXCEPT ![p] = 0]
          /\ \A q \in Processes \ {p} : chosen'[q] = chosen[q]
      BY <2>1, ExitShape
    <3> QED
      BY <3>1, <3>2
  <2>2. CASE ~Exit(p)
    BY <2>2, <1>3 DEF GiveUp
  <2> QED
    BY <2>1, <2>2
<1>4. ASSUME NEW p \in Processes, Write(p) PROVE LockIsSafe'
  <2>1. lock = Empty(p)
    BY <1>4 DEF Write
  <2>2. \A q \in Processes \ {p} :
          pc[q] # "write" /\ pc[q] \notin Owning /\ pc[q] # "remove"
    BY <2>1, Texts
  <2> QED
    BY <2>2, <1>4 DEF Write
<1>5. ASSUME NEW p \in Processes, WriteFails(p) PROVE LockIsSafe'
  BY <1>5 DEF WriteFails, Exit, Fault
<1>6. ASSUME NEW p \in Processes, Judge(p) PROVE LockIsSafe'
  <2>1. CASE Exit(p)
    <3> HIDE DEF Goto, local
    <3>1. UNCHANGED <<lock, pin, store, selected, children>>
      BY <2>1, <1>6 DEF Judge, Stale, Runs
    <3>2. /\ kind' = kind /\ pc' = [pc EXCEPT ![p] = "dead"]
          /\ seen' = [seen EXCEPT ![p] = None] /\ round' = [round EXCEPT ![p] = 0]
          /\ \A q \in Processes \ {p} : chosen'[q] = chosen[q]
      BY <2>1, ExitShape
    <3> QED
      BY <3>1, <3>2
  <2>2. CASE ~Exit(p)
    BY <2>2, <1>6 DEF Judge, Stale, Runs
  <2> QED
    BY <2>1, <2>2
<1>7. ASSUME NEW p \in Processes, Pin(p) PROVE LockIsSafe'
  BY <1>7 DEF Pin, Unpinned, Bundled, Turn, NoActive, PinGone, Stale, Chosen
<1>8. ASSUME NEW p \in Processes, Look(p) PROVE LockIsSafe'
  BY <1>8 DEF Look, Chosen
<1>9. ASSUME NEW p \in Processes, Select(p) PROVE LockIsSafe'
  BY <1>9 DEF Select, Chosen
<1>10. ASSUME NEW p \in Processes, StartFails(p) PROVE LockIsSafe'
  BY <1>10 DEF StartFails
<1>11. ASSUME NEW p \in Processes, StartChildren(p) PROVE LockIsSafe'
  BY <1>11 DEF StartChildren
<1>12. ASSUME NEW p \in Processes, Shutdown(p) PROVE LockIsSafe'
  BY <1>12 DEF Shutdown
<1>13. ASSUME NEW p \in Processes, CleanupFails(p) PROVE LockIsSafe'
  BY <1>13 DEF CleanupFails, Exit, Fault
<1>14. ASSUME NEW p \in Processes, Unpin(p) PROVE LockIsSafe'
  BY <1>14 DEF Unpin
<1>15. ASSUME NEW p \in Processes, Release(p) PROVE LockIsSafe'
  <2>1. CASE Exit(p)
    <3> HIDE DEF Goto, local
    <3>1. UNCHANGED <<lock, pin, store, selected, children>>
      BY <2>1, <1>15 DEF Release, Record
    <3>2. /\ kind' = kind /\ pc' = [pc EXCEPT ![p] = "dead"]
          /\ seen' = [seen EXCEPT ![p] = None] /\ round' = [round EXCEPT ![p] = 0]
          /\ \A q \in Processes \ {p} : chosen'[q] = chosen[q]
      BY <2>1, ExitShape
    <3> QED
      BY <3>1, <3>2
  <2>2. CASE ~Exit(p)
    BY <2>2, <1>15 DEF Release, Record
  <2> QED
    BY <2>1, <2>2
<1>16. ASSUME NEW p \in Processes, Unlink(p) PROVE LockIsSafe'
  BY <1>16 DEF Unlink, Exit
<1>17. ASSUME NEW p \in Processes, Enter(p) PROVE LockIsSafe'
  BY <1>17 DEF Enter, Entries
<1>18. ASSUME NEW p \in Processes, Refused(p) PROVE LockIsSafe'
  <2>1. CASE Exit(p)
    <3> HIDE DEF Goto, local
    <3>1. UNCHANGED <<lock, pin, store, selected, children>>
      BY <2>1, <1>18 DEF Refused, Entries, Turned
    <3>2. /\ kind' = kind /\ pc' = [pc EXCEPT ![p] = "dead"]
          /\ seen' = [seen EXCEPT ![p] = None] /\ round' = [round EXCEPT ![p] = 0]
          /\ \A q \in Processes \ {p} : chosen'[q] = chosen[q]
      BY <2>1, ExitShape
    <3> QED
      BY <3>1, <3>2
  <2>2. CASE ~Exit(p)
    BY <2>2, <1>18 DEF Refused, Entries, Turned
  <2> QED
    BY <2>1, <2>2
<1>19. ASSUME NEW p \in Processes, EnterFails(p) PROVE LockIsSafe'
  <2>1. CASE Exit(p)
    <3> HIDE DEF Goto, local
    <3>1. UNCHANGED <<lock, pin, store, selected, children>>
      BY <2>1, <1>19 DEF EnterFails, Entries, Turned, Fault
    <3>2. /\ kind' = kind /\ pc' = [pc EXCEPT ![p] = "dead"]
          /\ seen' = [seen EXCEPT ![p] = None] /\ round' = [round EXCEPT ![p] = 0]
          /\ \A q \in Processes \ {p} : chosen'[q] = chosen[q]
      BY <2>1, ExitShape
    <3> QED
      BY <3>1, <3>2
  <2>2. CASE ~Exit(p)
    BY <2>2, <1>19 DEF EnterFails, Entries, Turned, Fault
  <2> QED
    BY <2>1, <2>2
<1>20. ASSUME NEW p \in Processes, Leave(p) PROVE LockIsSafe'
  <2>1. CASE Exit(p)
    <3> HIDE DEF Goto, local
    <3>1. UNCHANGED <<lock, pin, store, selected, children>>
      BY <2>1, <1>20 DEF Leave
    <3>2. /\ kind' = kind /\ pc' = [pc EXCEPT ![p] = "dead"]
          /\ seen' = [seen EXCEPT ![p] = None] /\ round' = [round EXCEPT ![p] = 0]
          /\ \A q \in Processes \ {p} : chosen'[q] = chosen[q]
      BY <2>1, ExitShape
    <3> QED
      BY <3>1, <3>2
  <2>2. CASE ~Exit(p)
    BY <2>2, <1>20 DEF Leave
  <2> QED
    BY <2>1, <2>2
<1>21. ASSUME NEW p \in Processes, Compare(p) PROVE LockIsSafe'
  BY <1>21 DEF Compare
<1>22. ASSUME NEW p \in Processes, Remove(p) PROVE LockIsSafe'
  BY <1>22 DEF Remove
<1>23. ASSUME NEW p \in Processes, RemovePin(p) PROVE LockIsSafe'
  BY <1>23 DEF RemovePin
<1>24. ASSUME NEW p \in Processes, ObserveLock(p) PROVE LockIsSafe'
  <2>1. CASE Exit(p)
    <3> HIDE DEF Goto, local
    <3>1. UNCHANGED <<lock, pin, store, selected, children>>
      BY <2>1, <1>24 DEF ObserveLock, Uncertain, Stale, Runs
    <3>2. /\ kind' = kind /\ pc' = [pc EXCEPT ![p] = "dead"]
          /\ seen' = [seen EXCEPT ![p] = None] /\ round' = [round EXCEPT ![p] = 0]
          /\ \A q \in Processes \ {p} : chosen'[q] = chosen[q]
      BY <2>1, ExitShape
    <3> QED
      BY <3>1, <3>2
  <2>2. CASE ~Exit(p)
    BY <2>2, <1>24 DEF ObserveLock, Uncertain, Stale, Runs
  <2> QED
    BY <2>1, <2>2
<1>25. ASSUME NEW p \in Processes, ObservePin(p) PROVE LockIsSafe'
  <2>1. CASE Exit(p)
    <3> HIDE DEF Goto, local
    <3>1. UNCHANGED <<lock, pin, store, selected, children>>
      BY <2>1, <1>25 DEF ObservePin, Uncertain, Runs
    <3>2. /\ kind' = kind /\ pc' = [pc EXCEPT ![p] = "dead"]
          /\ seen' = [seen EXCEPT ![p] = None] /\ round' = [round EXCEPT ![p] = 0]
          /\ \A q \in Processes \ {p} : chosen'[q] = chosen[q]
      BY <2>1, ExitShape
    <3> QED
      BY <3>1, <3>2
  <2>2. CASE ~Exit(p)
    BY <2>2, <1>25 DEF ObservePin, Uncertain, Runs
  <2> QED
    BY <2>1, <2>2
<1>26. ASSUME NEW p \in Processes, ObserveChildren(p) PROVE LockIsSafe'
  <2>1. CASE Exit(p)
    <3> HIDE DEF Goto, local
    <3>1. UNCHANGED <<lock, pin, store, selected, children>>
      BY <2>1, <1>26 DEF ObserveChildren, Uncertain
    <3>2. /\ kind' = kind /\ pc' = [pc EXCEPT ![p] = "dead"]
          /\ seen' = [seen EXCEPT ![p] = None] /\ round' = [round EXCEPT ![p] = 0]
          /\ \A q \in Processes \ {p} : chosen'[q] = chosen[q]
      BY <2>1, ExitShape
    <3> QED
      BY <3>1, <3>2
  <2>2. CASE ~Exit(p)
    BY <2>2, <1>26 DEF ObserveChildren, Uncertain
  <2> QED
    BY <2>1, <2>2
<1>27. ASSUME NEW p \in Processes, Check(p) PROVE LockIsSafe'
  BY <1>27 DEF Check, NoActive, PinGone, Stale
<1>28. ASSUME NEW p \in Processes, Act(p) PROVE LockIsSafe'
  BY <1>28 DEF Act, Turn
<1>29. ASSUME NEW p \in Processes, Crash(p) PROVE LockIsSafe'
  BY <1>29 DEF Crash, Exit, Fault
<1>30. ASSUME NEW p \in Processes, ChildExits(p) PROVE LockIsSafe'
  BY <1>30 DEF ChildExits
<1>31. CASE Recover
  BY <1>31 DEF Recover
<1> QED
  BY <1>0, <1>1, <1>2, <1>3, <1>4, <1>5, <1>6, <1>7, <1>8, <1>9, <1>10,
     <1>11, <1>12, <1>13, <1>14, <1>15, <1>16, <1>17, <1>18, <1>19, <1>20,
     <1>21, <1>22, <1>23, <1>24, <1>25, <1>26, <1>27, <1>28, <1>29, <1>30,
     <1>31 DEF Next, Start, Lifecycle

-----------------------------------------------------------------------------
(* What is found stopped stays stopped, and what is chosen stays selected.   *)
SelectionIsSafe == StoppedStays /\ SecondPassHasStore /\ SelectionInUse

\* Every step keeps selections in use, and stopped runtimes stopped.
LEMMA SelectionStays == IInv /\ [Next]_vars => SelectionIsSafe'
<1> SUFFICES ASSUME IInv, [Next]_vars
             PROVE  SelectionIsSafe'
  OBVIOUS
<1> USE OwnershipAssumption DEF
     files, local, Goto, Alive, IInv, TypeOK, Pointers, KindsAreRight,
     InsideHolds, Inside, OwnersRecordStays, Owning, Record, SelectionIsSafe,
     StoppedStays, Observed, ObservedAlone, SecondPassHasStore,
     SelectionInUse
<1>0. CASE UNCHANGED vars
  BY <1>0 DEF vars
<1>1. ASSUME NEW p \in Processes, NEW k \in Kinds, Spawn(p, k) PROVE SelectionIsSafe'
  <2>1. /\ pc[p] = "unborn" /\ UNCHANGED <<files, children, seen, round, chosen, faults>>
        /\ kind' = [kind EXCEPT ![p] = k]
        /\ \E l \in {"open", "observe", "enter", "dead"} : pc' = [pc EXCEPT ![p] = l]
    BY <1>1 DEF Spawn
  <2>2. k = "install" => pc'[p] = "enter"
    BY <1>1 DEF Spawn
  <2> QED
    BY <2>1, <2>2
<1>2. ASSUME NEW p \in Processes, Open(p) PROVE SelectionIsSafe'
  <2> HIDE DEF Record
  <2>1. UNCHANGED <<store, selected, children, kind, chosen>>
    BY <1>2 DEF Open
  <2>2. pc' = [pc EXCEPT ![p] = "write"] \/ pc' = [pc EXCEPT ![p] = "judge"]
    BY <1>2 DEF Open
  <2>3. \A q \in Processes \ {p} : round'[q] = round[q]
    BY <1>2 DEF Open
  <2>4. kind[p] # "install" /\ pc'[p] # "unborn"
    BY <2>2, <1>2 DEF Open, Starts
  <2> QED
    BY <2>1, <2>2, <2>3, <2>4
<1>3. ASSUME NEW p \in Processes, GiveUp(p) PROVE SelectionIsSafe'
  BY <1>3 DEF GiveUp, Exit
<1>4. ASSUME NEW p \in Processes, Write(p) PROVE SelectionIsSafe'
  BY <1>4 DEF Write
<1>5. ASSUME NEW p \in Processes, WriteFails(p) PROVE SelectionIsSafe'
  BY <1>5 DEF WriteFails, Exit, Fault
<1>6. ASSUME NEW p \in Processes, Judge(p) PROVE SelectionIsSafe'
  BY <1>6 DEF Judge, Exit, Stale, Runs
<1>7. ASSUME NEW p \in Processes, Pin(p) PROVE SelectionIsSafe'
  BY <1>7 DEF Pin, Unpinned, Bundled, Turn, NoActive, PinGone, Stale, Chosen
<1>8. ASSUME NEW p \in Processes, Look(p) PROVE SelectionIsSafe'
  BY <1>8 DEF Look, Chosen
<1>9. ASSUME NEW p \in Processes, Select(p) PROVE SelectionIsSafe'
  BY <1>9 DEF Select, Chosen
<1>10. ASSUME NEW p \in Processes, StartFails(p) PROVE SelectionIsSafe'
  BY <1>10 DEF StartFails
<1>11. ASSUME NEW p \in Processes, StartChildren(p) PROVE SelectionIsSafe'
  BY <1>11 DEF StartChildren
<1>12. ASSUME NEW p \in Processes, Shutdown(p) PROVE SelectionIsSafe'
  BY <1>12 DEF Shutdown
<1>13. ASSUME NEW p \in Processes, CleanupFails(p) PROVE SelectionIsSafe'
  BY <1>13 DEF CleanupFails, Exit, Fault
<1>14. ASSUME NEW p \in Processes, Unpin(p) PROVE SelectionIsSafe'
  BY <1>14 DEF Unpin
<1>15. ASSUME NEW p \in Processes, Release(p) PROVE SelectionIsSafe'
  BY <1>15 DEF Release, Exit
<1>16. ASSUME NEW p \in Processes, Unlink(p) PROVE SelectionIsSafe'
  BY <1>16 DEF Unlink, Exit
<1>17. ASSUME NEW p \in Processes, Enter(p) PROVE SelectionIsSafe'
  BY <1>17 DEF Enter, Entries
<1>18. ASSUME NEW p \in Processes, Refused(p) PROVE SelectionIsSafe'
  <2>1. CASE Exit(p)
    <3> HIDE DEF Goto, local
    <3>1. UNCHANGED <<lock, pin, store, selected, children>>
      BY <2>1, <1>18 DEF Refused, Entries, Turned
    <3>2. /\ kind' = kind /\ pc' = [pc EXCEPT ![p] = "dead"]
          /\ seen' = [seen EXCEPT ![p] = None] /\ round' = [round EXCEPT ![p] = 0]
          /\ \A q \in Processes \ {p} : chosen'[q] = chosen[q]
      BY <2>1, ExitShape
    <3> QED
      BY <3>1, <3>2
  <2>2. CASE ~Exit(p)
    BY <2>2, <1>18 DEF Refused, Entries, Turned
  <2> QED
    BY <2>1, <2>2
<1>19. ASSUME NEW p \in Processes, EnterFails(p) PROVE SelectionIsSafe'
  <2>1. CASE Exit(p)
    <3> HIDE DEF Goto, local
    <3>1. UNCHANGED <<lock, pin, store, selected, children>>
      BY <2>1, <1>19 DEF EnterFails, Entries, Turned, Fault
    <3>2. /\ kind' = kind /\ pc' = [pc EXCEPT ![p] = "dead"]
          /\ seen' = [seen EXCEPT ![p] = None] /\ round' = [round EXCEPT ![p] = 0]
          /\ \A q \in Processes \ {p} : chosen'[q] = chosen[q]
      BY <2>1, ExitShape
    <3> QED
      BY <3>1, <3>2
  <2>2. CASE ~Exit(p)
    BY <2>2, <1>19 DEF EnterFails, Entries, Turned, Fault
  <2> QED
    BY <2>1, <2>2
<1>20. ASSUME NEW p \in Processes, Leave(p) PROVE SelectionIsSafe'
  BY <1>20 DEF Leave, Exit
<1>21. ASSUME NEW p \in Processes, Compare(p) PROVE SelectionIsSafe'
  BY <1>21 DEF Compare
<1>22. ASSUME NEW p \in Processes, Remove(p) PROVE SelectionIsSafe'
  BY <1>22 DEF Remove
<1>23. ASSUME NEW p \in Processes, RemovePin(p) PROVE SelectionIsSafe'
  BY <1>23 DEF RemovePin
<1>24. ASSUME NEW p \in Processes, ObserveLock(p) PROVE SelectionIsSafe'
  <2>1. CASE Exit(p)
    <3> HIDE DEF Goto, local
    <3>1. UNCHANGED <<lock, pin, store, selected, children>>
      BY <2>1, <1>24 DEF ObserveLock, Uncertain, Stale, Runs
    <3>2. /\ kind' = kind /\ pc' = [pc EXCEPT ![p] = "dead"]
          /\ seen' = [seen EXCEPT ![p] = None] /\ round' = [round EXCEPT ![p] = 0]
          /\ \A q \in Processes \ {p} : chosen'[q] = chosen[q]
      BY <2>1, ExitShape
    <3> QED
      BY <3>1, <3>2
  <2>2. CASE ~Exit(p)
    <3>1. ASSUME NEW q \in Processes, pc[q] = "running" PROVE pc'[p] # "observePin"
      <4>1. lock = Record(q) /\ Alive(q)
        BY <3>1
      <4>2. lock # None /\ ~Stale(lock)
        BY <4>1, Texts DEF Stale
      <4> QED
        BY <4>2, <2>2, <1>24 DEF ObserveLock, Uncertain
    <3>2. /\ UNCHANGED <<files, children, kind, round, chosen>>
          /\ \E l \in {"observePin", "leave"} : pc' = [pc EXCEPT ![p] = l]
      BY <2>2, <1>24 DEF ObserveLock, Uncertain
    <3> QED
      BY <3>1, <3>2
  <2> QED
    BY <2>1, <2>2
<1>25. ASSUME NEW p \in Processes, ObservePin(p) PROVE SelectionIsSafe'
  BY <1>25 DEF ObservePin, Exit, Uncertain, Runs
<1>26. ASSUME NEW p \in Processes, ObserveChildren(p) PROVE SelectionIsSafe'
  <2>1. CASE Exit(p)
    <3> HIDE DEF Goto, local
    <3>1. UNCHANGED <<lock, pin, store, selected, children>>
      BY <2>1, <1>26 DEF ObserveChildren, Uncertain
    <3>2. /\ kind' = kind /\ pc' = [pc EXCEPT ![p] = "dead"]
          /\ seen' = [seen EXCEPT ![p] = None] /\ round' = [round EXCEPT ![p] = 0]
          /\ \A q \in Processes \ {p} : chosen'[q] = chosen[q]
      BY <2>1, ExitShape
    <3> QED
      BY <3>1, <3>2
  <2>2. CASE ~Exit(p)
    BY <2>2, <1>26 DEF ObserveChildren, Uncertain
  <2> QED
    BY <2>1, <2>2
<1>27. ASSUME NEW p \in Processes, Check(p) PROVE SelectionIsSafe'
  BY <1>27 DEF Check, NoActive, PinGone, Stale
<1>28. ASSUME NEW p \in Processes, Act(p) PROVE SelectionIsSafe'
  BY <1>28 DEF Act, Turn
<1>29. ASSUME NEW p \in Processes, Crash(p) PROVE SelectionIsSafe'
  BY <1>29 DEF Crash, Exit, Fault
<1>30. ASSUME NEW p \in Processes, ChildExits(p) PROVE SelectionIsSafe'
  BY <1>30 DEF ChildExits
<1>31. CASE Recover
  BY <1>31 DEF Recover
<1> QED
  BY <1>0, <1>1, <1>2, <1>3, <1>4, <1>5, <1>6, <1>7, <1>8, <1>9, <1>10,
     <1>11, <1>12, <1>13, <1>14, <1>15, <1>16, <1>17, <1>18, <1>19, <1>20,
     <1>21, <1>22, <1>23, <1>24, <1>25, <1>26, <1>27, <1>28, <1>29, <1>30,
     <1>31 DEF Next, Start, Lifecycle

-----------------------------------------------------------------------------
(* Without faults every file has an owner that will remove it.               *)
AccountsHold == PinsArePackaged /\ FilesAreAccounted

\* Without a fault, every step keeps the files accounted for.
LEMMA AccountsStay == IInv /\ [Next]_vars => AccountsHold'
<1> SUFFICES ASSUME IInv, [Next]_vars
             PROVE  AccountsHold'
  OBVIOUS
<1> USE OwnershipAssumption DEF
     files, local, Goto, Alive, IInv, TypeOK, Lives, Records, KindsAreRight,
     Starts, InsideHolds, Inside, WriterHolds, OwnersRecordStays, Owning,
     Record, Empty, AccountsHold, PinsArePackaged, FilesAreAccounted
<1>0. CASE UNCHANGED vars
  BY <1>0 DEF vars
<1>1. ASSUME NEW p \in Processes, NEW k \in Kinds, Spawn(p, k) PROVE AccountsHold'
  <2>1. /\ pc[p] = "unborn" /\ UNCHANGED <<files, children, seen, round, chosen, faults>>
        /\ kind' = [kind EXCEPT ![p] = k]
        /\ \E l \in {"open", "observe", "enter", "dead"} : pc' = [pc EXCEPT ![p] = l]
    BY <1>1 DEF Spawn
  <2>2. k = "install" => pc'[p] = "enter"
    BY <1>1 DEF Spawn
  <2> QED
    BY <2>1, <2>2
<1>2. ASSUME NEW p \in Processes, Open(p) PROVE AccountsHold'
  <2> HIDE DEF Record, Empty
  <2>1. CASE lock = None
    <3>1. lock' = Empty(p) /\ pc' = [pc EXCEPT ![p] = "write"]
            /\ UNCHANGED <<dir, pin, kind, faults>>
      BY <2>1, <1>2 DEF Open
    <3> QED
      BY <3>1, <1>2, Texts DEF Open
  <2>2. CASE lock # None
    BY <2>2, <1>2 DEF Open
  <2> QED
    BY <2>1, <2>2
<1>3. ASSUME NEW p \in Processes, GiveUp(p) PROVE AccountsHold'
  BY <1>3 DEF GiveUp, Exit
<1>4. ASSUME NEW p \in Processes, Write(p) PROVE AccountsHold'
  BY <1>4 DEF Write
<1>5. ASSUME NEW p \in Processes, WriteFails(p) PROVE AccountsHold'
  BY <1>5 DEF WriteFails, Exit, Fault
<1>6. ASSUME NEW p \in Processes, Judge(p) PROVE AccountsHold'
  BY <1>6 DEF Judge, Exit, Stale, Runs
<1>7. ASSUME NEW p \in Processes, Pin(p) PROVE AccountsHold'
  BY <1>7 DEF Pin, Unpinned, Bundled, Turn, NoActive, PinGone, Stale, Chosen
<1>8. ASSUME NEW p \in Processes, Look(p) PROVE AccountsHold'
  BY <1>8 DEF Look, Chosen
<1>9. ASSUME NEW p \in Processes, Select(p) PROVE AccountsHold'
  BY <1>9 DEF Select, Chosen
<1>10. ASSUME NEW p \in Processes, StartFails(p) PROVE AccountsHold'
  BY <1>10 DEF StartFails
<1>11. ASSUME NEW p \in Processes, StartChildren(p) PROVE AccountsHold'
  BY <1>11 DEF StartChildren
<1>12. ASSUME NEW p \in Processes, Shutdown(p) PROVE AccountsHold'
  BY <1>12 DEF Shutdown
<1>13. ASSUME NEW p \in Processes, CleanupFails(p) PROVE AccountsHold'
  BY <1>13 DEF CleanupFails, Exit, Fault
<1>14. ASSUME NEW p \in Processes, Unpin(p) PROVE AccountsHold'
  BY <1>14 DEF Unpin
<1>15. ASSUME NEW p \in Processes, Release(p) PROVE AccountsHold'
  BY <1>15 DEF Release, Exit
<1>16. ASSUME NEW p \in Processes, Unlink(p) PROVE AccountsHold'
  BY <1>16 DEF Unlink, Exit
<1>17. ASSUME NEW p \in Processes, Enter(p) PROVE AccountsHold'
  BY <1>17 DEF Enter, Entries
<1>18. ASSUME NEW p \in Processes, Refused(p) PROVE AccountsHold'
  BY <1>18 DEF Refused, Entries, Turned, Exit
<1>19. ASSUME NEW p \in Processes, EnterFails(p) PROVE AccountsHold'
  BY <1>19 DEF EnterFails, Entries, Turned, Exit, Fault
<1>20. ASSUME NEW p \in Processes, Leave(p) PROVE AccountsHold'
  BY <1>20 DEF Leave, Exit
<1>21. ASSUME NEW p \in Processes, Compare(p) PROVE AccountsHold'
  BY <1>21 DEF Compare
<1>22. ASSUME NEW p \in Processes, Remove(p) PROVE AccountsHold'
  BY <1>22 DEF Remove
<1>23. ASSUME NEW p \in Processes, RemovePin(p) PROVE AccountsHold'
  BY <1>23 DEF RemovePin
<1>24. ASSUME NEW p \in Processes, ObserveLock(p) PROVE AccountsHold'
  BY <1>24 DEF ObserveLock, Exit, Uncertain, Stale, Runs
<1>25. ASSUME NEW p \in Processes, ObservePin(p) PROVE AccountsHold'
  BY <1>25 DEF ObservePin, Exit, Uncertain, Runs
<1>26. ASSUME NEW p \in Processes, ObserveChildren(p) PROVE AccountsHold'
  BY <1>26 DEF ObserveChildren, Exit, Uncertain
<1>27. ASSUME NEW p \in Processes, Check(p) PROVE AccountsHold'
  BY <1>27 DEF Check, NoActive, PinGone, Stale
<1>28. ASSUME NEW p \in Processes, Act(p) PROVE AccountsHold'
  BY <1>28 DEF Act, Turn
<1>29. ASSUME NEW p \in Processes, Crash(p) PROVE AccountsHold'
  BY <1>29 DEF Crash, Exit, Fault
<1>30. ASSUME NEW p \in Processes, ChildExits(p) PROVE AccountsHold'
  BY <1>30 DEF ChildExits
<1>31. CASE Recover
  BY <1>31 DEF Recover
<1> QED
  BY <1>0, <1>1, <1>2, <1>3, <1>4, <1>5, <1>6, <1>7, <1>8, <1>9, <1>10,
     <1>11, <1>12, <1>13, <1>14, <1>15, <1>16, <1>17, <1>18, <1>19, <1>20,
     <1>21, <1>22, <1>23, <1>24, <1>25, <1>26, <1>27, <1>28, <1>29, <1>30,
     <1>31 DEF Next, Start, Lifecycle

-----------------------------------------------------------------------------
\* Every step keeps the invariant.
LEMMA StepHolds == IInv /\ [Next]_vars => IInv'
<1> SUFFICES ASSUME IInv, [Next]_vars
             PROVE  IInv'
  OBVIOUS
<1>1. LockIsSafe' /\ JudgedIsSafe' /\ SelectionIsSafe' /\ AccountsHold'
  BY LockStays, JudgedStay, SelectionStays, AccountsStay
<1>2. TypeOK' /\ KindsAreRight' /\ InsideHolds'
  BY TypesHold, KindsHold, InsideStays
<1> QED
  BY <1>1, <1>2 DEF
       IInv, LockIsSafe, JudgedIsSafe, SelectionIsSafe, AccountsHold

\* The inductive invariant holds in every reachable state.
THEOREM Invariance == Spec => []IInv
  BY InitHolds, StepHolds, PTL DEF Spec

(* The state keeps its shape.                                                *)
THEOREM TypeCorrect == Spec => []TypeOK
<1>1. IInv => TypeOK
  BY DEF IInv
<1> QED
  BY <1>1, Invariance, PTL

(* However many processes, crashes and reused PIDs: the record of a live     *)
(* supervisor stays in the file until that supervisor removes it.            *)
THEOREM RecordsStay == Spec => []OwnersRecordStays
<1>1. IInv => OwnersRecordStays
  BY DEF IInv
<1> QED
  BY <1>1, Invariance, PTL

(* So at most one process is the supervisor of a KOED_HOME: the file cannot  *)
(* hold two records.                                                         *)
THEOREM SupervisorIsUnique == Spec => []OneSupervisor
<1>1. IInv => OneSupervisor
  BY DEF IInv, OwnersRecordStays, OneSupervisor, Record
<1> QED
  BY <1>1, Invariance, PTL

(* Nothing replaces the pointers under a running supervisor.                 *)
THEOREM SelectionsStay == Spec => []SelectionInUse
<1>1. IInv => SelectionInUse
  BY DEF IInv
<1> QED
  BY <1>1, Invariance, PTL

(* The native selection is replaced only while nothing started from it runs. *)
THEOREM ReplacedWhenQuiet == Spec => []NativeIsQuiet
<1>1. IInv => NativeIsQuiet
  BY DEF IInv, NativeIsQuiet, StoppedStays, ObservedAlone, SecondPassHasStore
<1> QED
  BY <1>1, Invariance, PTL

(* Every failure path short of a fault gives back what it took before the    *)
(* process that took it ends.                                                *)
THEOREM FilesAreOfTheLiving == Spec => []HeldByTheLiving
<1>1. IInv => HeldByTheLiving
  BY DEF IInv, FilesAreAccounted, HeldByTheLiving, Inside, Owning, Alive
<1> QED
  BY <1>1, Invariance, PTL

(* So nothing is left when everything has stopped.                           *)
THEOREM NothingStays == Spec => []NothingLeftBehind
<1>1. IInv => NothingLeftBehind
  <2> SUFFICES ASSUME IInv, faults = 0, \A p \in Processes : ~Alive(p)
               PROVE  lock = None /\ dir = None /\ pin = None
    BY DEF NothingLeftBehind
  <2>1. HeldByTheLiving
    BY DEF IInv, FilesAreAccounted, HeldByTheLiving, Inside, Owning, Alive
  <2> QED
    BY <2>1 DEF HeldByTheLiving, IInv, TypeOK, Lives, Records
<1> QED
  BY <1>1, Invariance, PTL

(* What the documents say of stop holds until something is killed or fails   *)
(* to clean up.                                                              *)
THEOREM LeftToTheLivingAtFirst == Spec => LeftToTheLivingUntilFault
<1>1. HeldByTheLiving /\ [Next]_vars =>
        [faults = 0 => \A p \in Processes :
           pc[p] = "clean" /\ Refused(p) => dir # None /\ Alive(dir)]_vars
  BY DEF HeldByTheLiving, Refused
<1> QED
  BY <1>1, FilesAreOfTheLiving, PTL DEF Spec, LeftToTheLivingUntilFault
=============================================================================
