--------------------------- MODULE RuntimeOwnership ---------------------------
(***************************************************************************)
(* Which process owns a KOED_HOME.  packages/koed-server/src: the          *)
(* supervisor lock (supervisor-lock.ts), the lifecycle lock and the        *)
(* generation pin (generation-lifecycle.ts), the strict observer of a      *)
(* stopped runtime (stopped-runtime.ts), and the commands that use them:   *)
(* start (start.ts, packaged and source execution), the cleanup of stop    *)
(* (stop.ts), the installer of native runtimes (runtime-release.ts) and    *)
(* the activation of a generation.                                         *)
(*                                                                         *)
(* A member of Processes is one life of one operating system process: its  *)
(* process identity.  Two lives may have the same PID, one after another.  *)
(* An action is one access to a shared file, or several when the lifecycle *)
(* lock covers them.  The text of a record holds the identity and the time *)
(* it was taken at, so two records are equal when their lives are.         *)
(***************************************************************************)
EXTENDS Integers, FiniteSets

CONSTANTS
  Processes,
  PID,       \* PID[p]: the process ID of a life
  Kinds,     \* the commands that are run
  MaxFaults, \* bound: crashes, writes that fail, cleanups that fail
  None

\* What the supervisor lock can hold.
Records == [by : Processes, written : BOOLEAN]

ASSUME OwnershipAssumption ==
  /\ None \notin Processes /\ None \notin Records
  /\ Kinds \subseteq {"packaged", "source", "stop", "install", "activate"}
  /\ MaxFaults \in Nat

VARIABLES
  lock,     \* run/koed-server.lock: whose, and whether the text is written
  dir,      \* run/generation-lifecycle.lock: whose
  pin,      \* run/runtime-generation.json: whose
  store,    \* KOED_HOME/runtime/native exists
  selected, \* the pointers to the generation and to the native runtime
  children, \* lives whose native child processes still run
  kind, pc,
  seen,     \* the stale supervisor record a process has read
  seenPin,  \* the stale pin it has read
  round,    \* attempts of a start; passes of an installer
  chosen,   \* the pointers a supervisor has started its children from
  faults

files == <<lock, dir, pin, store, selected>>
local == <<kind, seen, seenPin, round, chosen>>
vars == <<files, children, pc, local, faults>>

Pointers == {"generation", "native"}
Alive(p) == pc[p] \notin {"unborn", "dead"}
Runs(pid) == \E p \in Processes : Alive(p) /\ PID[p] = pid
Record(p) == [by |-> p, written |-> TRUE]
Empty(p) == [by |-> p, written |-> FALSE]

\* What identifies a dead owner to start: its identity is gone.
Stale(r) == IF r = None THEN FALSE ELSE r.written /\ ~Alive(r.by)

\* A KOED_HOME that is at rest, with or without a native store from before.
Init ==
  /\ lock = None /\ dir = None /\ pin = None
  /\ store \in BOOLEAN /\ selected = [x \in Pointers |-> 0]
  /\ children = {}
  /\ kind \in [Processes -> {"packaged"}] /\ pc = [p \in Processes |-> "unborn"]
  /\ seen = [p \in Processes |-> None] /\ seenPin = [p \in Processes |-> None]
  /\ round = [p \in Processes |-> 0]
  /\ chosen = [p \in Processes |-> selected]
  /\ faults = 0

-----------------------------------------------------------------------------
Goto(p, label) == pc' = [pc EXCEPT ![p] = label]

\* The process ends and leaves the files and its children as they are.
Exit(p) ==
  /\ Goto(p, "dead")
  /\ seen' = [seen EXCEPT ![p] = None]
  /\ seenPin' = [seenPin EXCEPT ![p] = None]
  /\ round' = [round EXCEPT ![p] = 0]
  /\ chosen' = [chosen EXCEPT ![p] = [x \in Pointers |-> 0]]
  /\ UNCHANGED kind

Fault == faults < MaxFaults /\ faults' = faults + 1

\* A stop that finds no native store (releaseManaged) neither observes the
\* runtime nor touches its records: of the files here it does nothing.
Spawn(p, k) ==
  /\ pc[p] = "unborn" /\ ~Runs(PID[p])
  /\ kind' = [kind EXCEPT ![p] = k]
  /\ Goto(p, CASE k \in {"packaged", "source"} -> "open"
               [] k = "stop" -> IF store THEN "observe" ELSE "dead"
               [] OTHER -> "enter")
  /\ UNCHANGED <<files, children, seen, seenPin, round, chosen, faults>>

Crash(p) ==
  /\ Alive(p) /\ Fault /\ Exit(p)
  /\ UNCHANGED <<files, children>>

-----------------------------------------------------------------------------
(* acquireKoedServerSupervisorLock                                         *)

\* Mutant: the loop has no second bound.
OpenForever(p) ==
  /\ pc[p] = "open" /\ round' = [round EXCEPT ![p] = @ + 1]
  /\ \/ lock = None /\ lock' = Empty(p) /\ Goto(p, "write")
     \/ lock # None /\ lock' = lock /\ Goto(p, "judge")
  /\ UNCHANGED <<dir, pin, store, selected, children, kind, seen, seenPin,
                 chosen, faults>>

\* openSync "wx": creates the file or learns that it exists.
Open(p) ==
  /\ pc[p] = "open" /\ round[p] < 2 /\ round' = [round EXCEPT ![p] = @ + 1]
  /\ \/ lock = None /\ lock' = Empty(p) /\ Goto(p, "write")
     \/ lock # None /\ lock' = lock /\ Goto(p, "judge")
  /\ UNCHANGED <<dir, pin, store, selected, children, kind, seen, seenPin,
                 chosen, faults>>

\* Two attempts, and another start took the file after each of them.
GiveUp(p) ==
  /\ pc[p] = "open" /\ round[p] = 2 /\ Exit(p)
  /\ UNCHANGED <<files, children, faults>>

Write(p) ==
  /\ pc[p] = "write"
  /\ lock' = Record(p)
  /\ Goto(p, IF kind[p] = "packaged" THEN "pin" ELSE "look")
  /\ UNCHANGED <<dir, pin, store, selected, children, local, faults>>

\* The disk is full: the file stays, empty.
WriteFails(p) ==
  /\ pc[p] = "write" /\ Fault /\ Exit(p)
  /\ UNCHANGED <<files, children>>

\* Reads the record.  A file that is gone or unreadable, a live owner, and a
\* running PID whose identity cannot be resolved all end the start.
Judge(p) ==
  /\ pc[p] = "judge"
  /\ \/ ~Stale(lock) /\ Exit(p)
     \/ Stale(lock) /\ Runs(PID[lock.by]) /\ Exit(p)
     \/ /\ Stale(lock)
        /\ seen' = [seen EXCEPT ![p] = lock.by]
        /\ Goto(p, "reclaim")
        /\ UNCHANGED <<kind, seenPin, round, chosen>>
  /\ UNCHANGED <<files, children, faults>>

-----------------------------------------------------------------------------
(* The lifecycle lock.  Nobody waits for it: a command that finds it taken *)
(* fails, and a supervisor on its start releases the supervisor lock.      *)

Entries == {"reclaim", "clean", "pin", "select", "enter"}

Turned(p) ==
  IF pc[p] \in {"pin", "select"} THEN Goto(p, "release") /\ UNCHANGED local
  ELSE Exit(p)

\* mkdirSync and the owner record.
Enter(p) ==
  /\ pc[p] \in Entries /\ dir = None /\ dir' = p
  /\ Goto(p, CASE pc[p] = "pin" -> "pinning"
               [] pc[p] = "select" -> "selecting"
               [] pc[p] \in {"reclaim", "clean"} -> "compare"
               [] kind[p] = "install" -> "observe"
               [] OTHER -> "check")
  /\ UNCHANGED <<lock, pin, store, selected, children, local, faults>>

Refused(p) ==
  /\ pc[p] \in Entries /\ dir # None /\ Turned(p)
  /\ UNCHANGED <<files, children, faults>>

\* The directory is made and the owner record cannot be written.
EnterFails(p) ==
  /\ pc[p] \in Entries /\ dir = None /\ dir' = p
  /\ Fault /\ Turned(p)
  /\ UNCHANGED <<lock, pin, store, selected, children>>

\* Releases the lifecycle lock, which nobody else has touched.
Leave(p) ==
  /\ pc[p] \in {"reopen", "unpinned", "leave"} /\ dir' = None
  /\ \/ /\ pc[p] = "reopen" /\ Goto(p, "open")
        /\ seen' = [seen EXCEPT ![p] = None]
        /\ UNCHANGED <<kind, seenPin, round, chosen>>
     \/ pc[p] = "unpinned" /\ Goto(p, "release") /\ UNCHANGED local
     \/ /\ pc[p] = "leave" /\ kind[p] = "install" /\ round[p] = 1
        /\ Goto(p, "enter")
        /\ seen' = [seen EXCEPT ![p] = None]
        /\ seenPin' = [seenPin EXCEPT ![p] = None]
        /\ UNCHANGED <<kind, round, chosen>>
     \/ /\ pc[p] = "leave" /\ ~(kind[p] = "install" /\ round[p] = 1)
        /\ Exit(p)
  /\ UNCHANGED <<lock, pin, store, selected, children, faults>>

-----------------------------------------------------------------------------
(* Stale records are removed under the lifecycle lock, and only when they  *)
(* still hold the text that was judged.                                    *)

\* Mutant: the record is removed on the earlier judgement.
CompareNothing(p) ==
  /\ pc[p] = "compare"
  /\ Goto(p, IF seen[p] # None THEN "remove" ELSE "removePin")
  /\ UNCHANGED <<files, children, local, faults>>

Compare(p) ==
  /\ pc[p] = "compare"
  /\ Goto(p, IF seen[p] # None /\ lock = Record(seen[p]) THEN "remove"
             ELSE "removePin")
  /\ UNCHANGED <<files, children, local, faults>>

\* rmSync with force removes whatever the path holds by now.
Remove(p) ==
  /\ pc[p] = "remove"
  /\ lock' = None
  /\ Goto(p, "removePin")
  /\ UNCHANGED <<dir, pin, store, selected, children, local, faults>>

\* Pins are written under the lifecycle lock only.
RemovePin(p) ==
  /\ pc[p] = "removePin"
  /\ pin' = IF seenPin[p] # None /\ pin = seenPin[p] THEN None ELSE pin
  /\ Goto(p, CASE kind[p] \in {"packaged", "source"} -> "reopen"
               [] kind[p] = "stop" -> "leave"
               [] OTHER -> "act")
  /\ UNCHANGED <<lock, dir, store, selected, children, local, faults>>

-----------------------------------------------------------------------------
(* observeStoppedRuntime, by stop before it takes the lifecycle lock and   *)
(* by an installer under it.                                               *)

Uncertain(p) ==
  IF kind[p] = "install" THEN Goto(p, "leave") /\ UNCHANGED local
  ELSE Exit(p)

\* A record whose PID runs, as its owner or as another process, is no proof.
ObserveLock(p) ==
  /\ pc[p] = "observe"
  /\ \/ lock = None /\ Goto(p, "observePin") /\ UNCHANGED local
     \/ /\ Stale(lock) /\ ~Runs(PID[lock.by])
        /\ seen' = [seen EXCEPT ![p] = lock.by]
        /\ Goto(p, "observePin")
        /\ UNCHANGED <<kind, seenPin, round, chosen>>
     \/ lock # None /\ (Stale(lock) => Runs(PID[lock.by])) /\ Uncertain(p)
  /\ UNCHANGED <<files, children, faults>>

ObservePin(p) ==
  /\ pc[p] = "observePin"
  /\ \/ pin = None /\ Goto(p, "observeChildren") /\ UNCHANGED local
     \/ /\ pin # None /\ ~Runs(PID[pin])
        /\ seenPin' = [seenPin EXCEPT ![p] = pin]
        /\ Goto(p, "observeChildren")
        /\ UNCHANGED <<kind, seen, round, chosen>>
     \/ pin # None /\ Runs(PID[pin]) /\ Uncertain(p)
  /\ UNCHANGED <<files, children, faults>>

\* Mutant: dead supervisors have no children.
ObserveNoChildren(p) ==
  /\ pc[p] = "observeChildren"
  /\ Goto(p, IF kind[p] = "install" THEN "compare" ELSE "clean")
  /\ UNCHANGED <<files, children, local, faults>>

\* Recorded child PIDs, postmaster.pid and the process listing.
ObserveChildren(p) ==
  /\ pc[p] = "observeChildren"
  /\ \/ children # {} /\ Uncertain(p)
     \/ /\ children = {} /\ kind[p] = "install"
        /\ Goto(p, "compare") /\ UNCHANGED local
     \/ /\ children = {} /\ kind[p] = "stop"
        /\ IF seen[p] = None /\ seenPin[p] = None THEN Exit(p)
           ELSE Goto(p, "clean") /\ UNCHANGED local
  /\ UNCHANGED <<files, children, faults>>

-----------------------------------------------------------------------------
(* assertNoActivePin                                                       *)

PinGone == pin # None => ~Alive(pin)

\* own: the supervisor record may be the one of p itself.
NoActive(p, own) ==
  /\ PinGone
  /\ lock # None => Stale(lock) \/ (own /\ lock = Record(p))

\* activateGeneration; also refused when a PID runs under an identity that
\* cannot be resolved, or the candidate is not acceptable.
Check(p) ==
  /\ pc[p] = "check"
  /\ \/ /\ NoActive(p, FALSE)
        /\ pin' = None /\ Goto(p, "act")
     \/ /\ pin' \in {pin} \union (IF PinGone THEN {None} ELSE {})
        /\ Goto(p, "leave")
  /\ UNCHANGED <<lock, dir, store, selected, children, local, faults>>

Turn(x) == selected' = [selected EXCEPT ![x] = @ + 1]

\* The work under the lock.  The first pass of an installer makes the store;
\* the second, after the download, replaces the selection.  Either may fail.
Act(p) ==
  /\ pc[p] = "act" /\ Goto(p, "leave")
  /\ \/ /\ kind[p] = "activate" /\ Turn("generation")
        /\ UNCHANGED <<store, round>>
     \/ /\ kind[p] = "install" /\ round[p] = 0
        /\ store' = TRUE /\ round' = [round EXCEPT ![p] = 1]
        /\ UNCHANGED selected
     \/ /\ kind[p] = "install" /\ round[p] = 1
        /\ Turn("native") /\ round' = [round EXCEPT ![p] = 2]
        /\ UNCHANGED store
     \/ round' = [round EXCEPT ![p] = 2] /\ UNCHANGED <<store, selected>>
  /\ UNCHANGED <<lock, dir, pin, children, kind, seen, seenPin, chosen, faults>>

-----------------------------------------------------------------------------
(* The rest of a start.                                                    *)

Chosen(p) == chosen' = [chosen EXCEPT ![p] = selected']

\* The start of a Desktop bundle first selects it, unless it is selected.
Bundled == UNCHANGED selected \/ Turn("generation")

\* The pin is refused, or an error follows on the work that preceded it.
Unpinned(p) ==
  /\ \/ UNCHANGED <<pin, selected>>
     \/ PinGone /\ pin' = None /\ UNCHANGED selected
     \/ NoActive(p, TRUE) /\ pin' = None /\ Bundled
  /\ UNCHANGED local

\* Mutant: a pin that is refused keeps the lifecycle lock.
PinKept(p) ==
  /\ pc[p] = "pinning"
  /\ \/ /\ NoActive(p, TRUE) /\ Bundled /\ pin' = p /\ Chosen(p)
        /\ Goto(p, "running") /\ UNCHANGED <<kind, seen, seenPin, round>>
     \/ Unpinned(p) /\ Goto(p, "release")
  /\ UNCHANGED <<lock, dir, store, children, faults>>

\* pinGenerationForStart, pinDesktopBundleGenerationForStart, and the
\* selection of the native runtime.  A pinned start keeps the lifecycle lock
\* while it lives; one that fails releases it.
Pin(p) ==
  /\ pc[p] = "pinning"
  /\ \/ /\ NoActive(p, TRUE) /\ Bundled /\ pin' = p /\ Chosen(p)
        /\ Goto(p, "running") /\ UNCHANGED <<kind, seen, seenPin, round>>
     \/ Unpinned(p) /\ Goto(p, "unpinned")
  /\ UNCHANGED <<lock, dir, store, children, faults>>

\* Mutant: source execution never takes the lifecycle lock.
LookFreely(p) ==
  /\ pc[p] = "look"
  /\ UNCHANGED <<files, children, kind, seen, seenPin, round, faults>>
  /\ Chosen(p) /\ Goto(p, "running")

\* Source execution: hasReleaseRuntime decides whether the native selection
\* is admitted under the lifecycle lock.
Look(p) ==
  /\ pc[p] = "look"
  /\ UNCHANGED <<files, children, kind, seen, seenPin, round, faults>>
  /\ \/ store /\ Goto(p, "select") /\ UNCHANGED chosen
     \/ ~store /\ Chosen(p) /\ Goto(p, "running")

\* withSourceNativeStartLock: the record must be its own.
Select(p) ==
  /\ pc[p] = "selecting" /\ dir' = None
  /\ UNCHANGED <<lock, pin, store, selected, children, kind, seen, seenPin,
                 round, faults>>
  /\ \/ lock = Record(p) /\ Chosen(p) /\ Goto(p, "running")
     \/ UNCHANGED chosen /\ Goto(p, "release")

\* Any other step of the start fails before children run.
StartFails(p) ==
  /\ pc[p] \in {"pin", "look"} /\ Goto(p, "release")
  /\ UNCHANGED <<files, children, local, faults>>

StartChildren(p) ==
  /\ pc[p] = "running" /\ children' = children \union {p}
  /\ UNCHANGED <<files, pc, local, faults>>

\* Shut down on request or after a failure; the children are gone.
Shutdown(p) ==
  /\ pc[p] = "running" /\ children' = children \ {p}
  /\ Goto(p, IF kind[p] = "packaged" THEN "unpin" ELSE "release")
  /\ UNCHANGED <<files, local, faults>>

\* The exit of a child cannot be confirmed: pin and locks are retained.
CleanupFails(p) ==
  /\ pc[p] = "running" /\ p \in children /\ Fault /\ Exit(p)
  /\ UNCHANGED <<files, children>>

Unpin(p) ==
  /\ pc[p] = "unpin"
  /\ pin' = IF pin = p THEN None ELSE pin
  /\ Goto(p, "unpinned")
  /\ UNCHANGED <<lock, dir, store, selected, children, local, faults>>

\* releaseKoedServerSupervisorLock: reads the record, then removes the file.
Release(p) ==
  /\ pc[p] = "release"
  /\ \/ lock = Record(p) /\ Goto(p, "unlink") /\ UNCHANGED local
     \/ lock # Record(p) /\ Exit(p)
  /\ UNCHANGED <<files, children, faults>>

Unlink(p) ==
  /\ pc[p] = "unlink" /\ lock' = None /\ Exit(p)
  /\ UNCHANGED <<dir, pin, store, selected, children, faults>>

-----------------------------------------------------------------------------
(* Outside the processes.                                                  *)

ChildExits(p) ==
  /\ p \in children /\ ~Alive(p) /\ children' = children \ {p}
  /\ UNCHANGED <<files, pc, local, faults>>

\* docs/stopped-native-runtime.md: with everything stopped, the operator
\* removes a stale lifecycle or supervisor record.
Recover ==
  /\ \A p \in Processes : ~Alive(p)
  /\ children = {}
  /\ \/ dir # None /\ dir' = None /\ lock' = lock
     \/ lock # None /\ lock' = None /\ dir' = dir
  /\ UNCHANGED <<pin, store, selected, children, pc, local, faults>>

Start(p) ==
  \/ Open(p) \/ GiveUp(p) \/ Write(p) \/ WriteFails(p) \/ Judge(p)
  \/ Pin(p) \/ Look(p) \/ Select(p) \/ StartFails(p)
  \/ StartChildren(p) \/ Shutdown(p) \/ CleanupFails(p)
  \/ Unpin(p) \/ Release(p) \/ Unlink(p)

Lifecycle(p) ==
  \/ Enter(p) \/ Refused(p) \/ EnterFails(p) \/ Leave(p)
  \/ Compare(p) \/ Remove(p) \/ RemovePin(p)
  \/ ObserveLock(p) \/ ObservePin(p) \/ ObserveChildren(p)
  \/ Check(p) \/ Act(p)

Next ==
  \/ \E p \in Processes :
       \/ \E k \in Kinds : Spawn(p, k)
       \/ Start(p) \/ Lifecycle(p) \/ Crash(p) \/ ChildExits(p)
  \/ Recover

Spec == Init /\ [][Next]_vars

-----------------------------------------------------------------------------
(* Properties                                                              *)

Labels ==
  {"unborn", "dead", "open", "write", "judge", "reclaim", "clean", "pin",
   "select", "enter", "pinning", "selecting", "compare", "remove",
   "removePin", "reopen", "unpinned", "leave", "observe", "observePin",
   "observeChildren", "check", "act", "look", "running", "unpin", "release",
   "unlink"}

\* The supervisor, from the written record to the removal of the file.
Owning == {"pin", "look", "select", "pinning", "selecting", "running",
           "unpin", "unpinned", "release", "unlink"}

Lives == Processes \union {None}

\* The shape of the state.
TypeOK ==
  /\ lock \in Records \union {None}
  /\ dir \in Lives /\ pin \in Lives
  /\ store \in BOOLEAN /\ selected \in [Pointers -> Nat]
  /\ children \subseteq Processes
  /\ kind \in [Processes -> {"packaged", "source", "stop", "install", "activate"}]
  /\ pc \in [Processes -> Labels]
  /\ seen \in [Processes -> Lives] /\ seenPin \in [Processes -> Lives]
  /\ round \in [Processes -> 0..2]
  /\ chosen \in [Processes -> [Pointers -> Nat]]
  /\ faults \in 0..MaxFaults

\* docs/running-koed.md: one live supervisor owns each KOED_HOME, whatever
\* crashes, stops, stale records and reused PIDs the starts run into.
OneSupervisor ==
  \A p, q \in Processes : pc[p] \in Owning /\ pc[q] \in Owning => p = q

\* A live supervisor's record is the file: neither another start that took it
\* for stale, nor stop, nor an installer removes or replaces it.
OwnersRecordStays ==
  \A p \in Processes : pc[p] \in Owning => lock = Record(p)

\* A supervisor runs on the pointers it chose: neither activation nor an
\* installer replaces them under it.  Source execution has no generation.
SelectionInUse ==
  \A p \in Processes : pc[p] = "running" =>
    /\ chosen[p]["native"] = selected["native"]
    /\ kind[p] = "packaged" => chosen[p] = selected

\* While an installer replaces the native selection, nothing started from the
\* store runs, not even the children of a supervisor that is gone.
NativeIsQuiet ==
  \A p \in Processes :
    pc[p] = "act" /\ kind[p] = "install" /\ round[p] = 1 => children = {}

\* Without a fault, every file belongs to a process that lives: every path that
\* fails gives back what it took before it ends, and nobody recreates a file of
\* somebody who is gone.
HeldByTheLiving ==
  faults = 0 =>
    /\ lock # None => Alive(lock.by)
    /\ dir # None => Alive(dir)
    /\ pin # None => Alive(pin)

\* So nothing is left behind when everything has stopped.
NothingLeftBehind ==
  faults = 0 /\ (\A p \in Processes : ~Alive(p)) =>
    lock = None /\ dir = None /\ pin = None

\* docs/stopped-native-runtime.md: with everything stopped, "`koed stop` and
\* stopped runtime operations remove the stale records" of a killed supervisor;
\* the lifecycle lock is refused "when another lifecycle command holds it".  So
\* the cleanup of stop leaves stale records in place for a living holder only.
LeftToTheLiving ==
  [][\A p \in Processes :
       pc[p] = "clean" /\ Refused(p) => dir # None /\ Alive(dir)]_vars

\* That is what stop does as long as nothing was killed and no cleanup failed:
\* only a fault makes it leave records to the dead.
LeftToTheLivingUntilFault ==
  [][faults = 0 =>
       \A p \in Processes : pc[p] = "clean" /\ Refused(p) => dir # None /\ Alive(dir)]_vars
=============================================================================
