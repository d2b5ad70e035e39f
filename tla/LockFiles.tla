----------------------------- MODULE LockFiles -----------------------------
(***************************************************************************)
(* How processes of godot-object-compiler that share a goc directory keep  *)
(* out of each other's way, and how one learns that the last was killed:   *)
(* Application::run with LockFile, every check, write and removal of the   *)
(* two files a step of its own.                                            *)
(*                                                                         *)
(* ".lock" is waited for; ".goc_graceful_lock" is the marker that is left  *)
(* behind by a process that did not reach exit_gracefully.  An assignment  *)
(* lock = LockFile(path, ...) copies a temporary, and the destructor of    *)
(* the temporary removes the file if it exists.                            *)
(***************************************************************************)
EXTENDS Naturals

CONSTANTS
    Procs,
    WorkPanics,     \* may a PANIC end the program that is run?
    MaxLaunches,    \* bound: processes started
    MaxKills        \* bound: processes killed

ASSUME LockAssumption ==
    /\ WorkPanics \in BOOLEAN
    /\ MaxLaunches \in Nat /\ MaxKills \in Nat

Lock == ".lock"
Marker == ".goc_graceful_lock"
Files == {Lock, Marker}

(* The life of a process, stage by stage.                                  *)
Stages == {"off", "construct lock", "lock", "construct marker", "try_lock", "work",
           "unlock lock", "unlock marker", "~marker", "~lock"}
Following == [s \in Stages |->
    CASE s = "off"              -> "construct lock"
      [] s = "construct lock"   -> "lock"
      [] s = "lock"             -> "construct marker"
      [] s = "construct marker" -> "try_lock"
      [] s = "try_lock"         -> "work"
      [] s = "work"             -> "unlock lock"
      [] s = "unlock lock"      -> "unlock marker"
      [] s = "unlock marker"    -> "~marker"
      [] s = "~marker"          -> "~lock"
      [] s = "~lock"            -> "off"]
FileOf(s) == IF s \in {"construct lock", "lock", "unlock lock", "~lock"} THEN Lock ELSE Marker

(* "interrupted": while its program ran.                                   *)
Exits == {"none", "graceful", "ungraceful", "interrupted"}

(* Where each stage begins.                                                *)
FirstOp(s) ==
    CASE s \in {"construct lock", "construct marker", "~marker", "~lock"} -> "destructor"
      [] s \in {"unlock lock", "unlock marker"} -> "unlock"
      [] s = "lock" -> "wait"
      [] s = "try_lock" -> "try"
      [] s = "work" -> "setup"
      [] s = "off" -> "none"
Ops == {"none", "destructor", "unlock", "remove", "wait", "try", "open", "read", "write",
        "verify", "setup", "run"}

VARIABLES
    present,    \* which of the two files exist
    stage, op,  \* where each process is
    last_exit_graceful,     \* of each process: what try_lock told it
    cleared,    \* did this process clear the goc directory for an ungraceful exit?
    last_exit,  \* how the process that ended last did
    seen_exit,  \* last_exit when this process started
    panicked,   \* the assertions of LockFile that have failed
    overlapped, \* has a process been started while another ran?
    launches, kills

flow == <<stage, op>>
memory == <<last_exit_graceful, cleared, seen_exit>>
counts == <<overlapped, launches, kills>>
vars == <<present, flow, memory, last_exit, panicked, counts>>

Init ==
    /\ present = {}
    /\ stage = [p \in Procs |-> "off"] /\ op = [p \in Procs |-> "none"]
    /\ last_exit_graceful = [p \in Procs |-> FALSE]
    /\ cleared = [p \in Procs |-> FALSE]
    /\ last_exit = "none" /\ seen_exit = [p \in Procs |-> "none"]
    /\ panicked = {} /\ overlapped = FALSE /\ launches = 0 /\ kills = 0

At(p, o) == stage[p] # "off" /\ op[p] = o
Exists(p) == FileOf(stage[p]) \in present
GoTo(p, s) == stage' = [stage EXCEPT ![p] = s] /\ op' = [op EXCEPT ![p] = FirstOp(s)]
Continue(p) == GoTo(p, Following[stage[p]])
Goes(p, o) == op' = [op EXCEPT ![p] = o] /\ UNCHANGED stage

(* Mutant: PANIC ends the process at once.                                 *)
PanicAborts(p) ==
    /\ GoTo(p, "off")
    /\ last_exit' = IF stage[p] = "work" THEN "interrupted" ELSE "ungraceful"

(* PANIC calls exit(1): static objects are destroyed, the Application in   *)
(* main is not.  In the destructor of the static lock it ends the process. *)
Panic(p) ==
    /\ GoTo(p, IF stage[p] = "~lock" THEN "off" ELSE "~lock")
    /\ last_exit' = IF stage[p] = "work" THEN "interrupted" ELSE "ungraceful"

Launch(p) ==
    /\ stage[p] = "off" /\ launches < MaxLaunches
    /\ overlapped' = (overlapped \/ \E q \in Procs : stage[q] # "off")
    /\ Continue(p)
    /\ launches' = launches + 1
    /\ last_exit_graceful' = [last_exit_graceful EXCEPT ![p] = FALSE]
    /\ cleared' = [cleared EXCEPT ![p] = FALSE]
    /\ seen_exit' = [seen_exit EXCEPT ![p] = last_exit]
    /\ UNCHANGED <<present, last_exit, panicked, kills>>

(* Mutants of Destructor: it does not look whether the file exists; the one *)
(* of a temporary does nothing.                                            *)
DestructorBlind(p) ==
    /\ At(p, "destructor") /\ Goes(p, "remove")
    /\ UNCHANGED <<present, memory, last_exit, panicked, counts>>

DestructorOfMembers(p) ==
    /\ At(p, "destructor")
    /\ IF Exists(p) /\ stage[p] \in {"~marker", "~lock"} THEN Goes(p, "unlock")
       ELSE Continue(p)
    /\ UNCHANGED <<present, memory, last_exit, panicked, counts>>

(* LockFile::~LockFile, of the temporaries and of the two members.         *)
Destructor(p) ==
    /\ At(p, "destructor")
    /\ \/ Exists(p) /\ Goes(p, "unlock")
       \/ ~Exists(p) /\ Continue(p)
    /\ UNCHANGED <<present, memory, last_exit, panicked, counts>>

(* Mutant: exit_gracefully leaves the marker to its destructor.            *)
UnlockOnlyLock(p) ==
    /\ At(p, "unlock")
    /\ IF Exists(p) /\ stage[p] # "unlock marker" THEN Goes(p, "remove") /\ UNCHANGED last_exit
       ELSE /\ Continue(p)
            /\ last_exit' = IF stage[p] = "unlock marker" THEN "graceful" ELSE last_exit
    /\ UNCHANGED <<present, memory, panicked, counts>>

(* LockFile::unlock: a file that does not exist is worth a warning.        *)
(* exit_gracefully has done its part when the marker is released.          *)
Unlock(p) ==
    /\ At(p, "unlock")
    /\ \/ Exists(p) /\ Goes(p, "remove") /\ UNCHANGED last_exit
       \/ /\ ~Exists(p) /\ Continue(p)
          /\ last_exit' = IF stage[p] = "unlock marker" THEN "graceful" ELSE last_exit
    /\ UNCHANGED <<present, memory, panicked, counts>>

(* ... but one that vanishes after the check is a PANIC.                   *)
RemoveFile(p) ==
    /\ At(p, "remove")
    /\ \/ /\ Exists(p) /\ Continue(p)
          /\ present' = present \ {FileOf(stage[p])}
          /\ last_exit' = IF stage[p] = "unlock marker" THEN "graceful" ELSE last_exit
          /\ UNCHANGED panicked
       \/ /\ ~Exists(p) /\ Panic(p)
          /\ panicked' = panicked \cup {"Failed to remove lock file"}
          /\ UNCHANGED present
    /\ UNCHANGED <<memory, counts>>

(* LockFile::lock sleeps while the file exists.                            *)
Wait(p) ==
    /\ At(p, "wait") /\ ~Exists(p)
    /\ Goes(p, "open")
    /\ UNCHANGED <<present, memory, last_exit, panicked, counts>>

TryLock(p) ==
    /\ At(p, "try")
    /\ \/ /\ Exists(p) /\ Continue(p)
          /\ last_exit_graceful' = [last_exit_graceful EXCEPT ![p] = FALSE]
       \/ ~Exists(p) /\ Goes(p, "open") /\ UNCHANGED last_exit_graceful
    /\ UNCHANGED <<present, cleared, seen_exit, last_exit, panicked, counts>>

(* The destructor of the FileWriter leaves a file alone that exists with   *)
(* the same content: every process writes the same description.            *)
Open(p) ==
    /\ At(p, "open")
    /\ Goes(p, IF Exists(p) THEN "read" ELSE "write")
    /\ UNCHANGED <<present, memory, last_exit, panicked, counts>>

Read(p) ==
    /\ At(p, "read")
    /\ \/ Exists(p) /\ Goes(p, "verify") /\ UNCHANGED <<last_exit, panicked>>
       \/ /\ ~Exists(p) /\ Panic(p)
          /\ panicked' = panicked \cup {"Trying to read non-existing file"}
    /\ UNCHANGED <<present, memory, counts>>

Write(p) ==
    /\ At(p, "write")
    /\ present' = present \cup {FileOf(stage[p])}
    /\ Goes(p, "verify")
    /\ UNCHANGED <<memory, last_exit, panicked, counts>>

(* lock insists that the file exists now, try_lock reports it.             *)
Verify(p) ==
    /\ At(p, "verify")
    /\ \/ /\ stage[p] = "lock" /\ Exists(p) /\ Continue(p)
          /\ UNCHANGED <<last_exit_graceful, last_exit, panicked>>
       \/ /\ stage[p] = "lock" /\ ~Exists(p) /\ Panic(p)
          /\ panicked' = panicked \cup {"Failed to create lock file"}
          /\ UNCHANGED last_exit_graceful
       \/ /\ stage[p] = "try_lock" /\ Continue(p)
          /\ \/ Exists(p) /\ last_exit_graceful' = [last_exit_graceful EXCEPT ![p] = TRUE]
             \/ ~Exists(p) /\ UNCHANGED last_exit_graceful
          /\ UNCHANGED <<last_exit, panicked>>
    /\ UNCHANGED <<present, cleared, seen_exit, counts>>

(* setup_context of a program that writes: an ungraceful exit means Clear. *)
Setup(p) ==
    /\ At(p, "setup")
    /\ cleared' = [cleared EXCEPT ![p] = ~last_exit_graceful[p]]
    /\ Goes(p, "run")
    /\ UNCHANGED <<present, last_exit_graceful, seen_exit, last_exit, panicked, counts>>

(* run_program, and exit_gracefully whether or not it succeeds.            *)
Finish(p) ==
    /\ At(p, "run") /\ Continue(p)
    /\ UNCHANGED <<present, memory, last_exit, panicked, counts>>

(* A failed PANIC_COND of the program.                                     *)
WorkPanic(p) ==
    /\ WorkPanics /\ At(p, "run") /\ Panic(p)
    /\ UNCHANGED <<present, memory, panicked, counts>>

Kill(p) ==
    /\ stage[p] # "off" /\ kills < MaxKills
    /\ GoTo(p, "off")
    /\ kills' = kills + 1
    /\ last_exit' = IF stage[p] \in {"~marker", "~lock"} THEN last_exit
                    ELSE IF stage[p] = "work" THEN "interrupted" ELSE "ungraceful"
    /\ UNCHANGED <<present, memory, panicked, overlapped, launches>>

Step(p) ==
    \/ Destructor(p) \/ Unlock(p) \/ RemoveFile(p) \/ Wait(p) \/ TryLock(p)
    \/ Open(p) \/ Read(p) \/ Write(p) \/ Verify(p)
    \/ Setup(p) \/ Finish(p) \/ WorkPanic(p)

Next == \E p \in Procs : Launch(p) \/ Step(p) \/ Kill(p)

Spec == Init /\ [][Next]_vars

(* The operating system keeps running every process; a program it runs     *)
(* ends.                                                                   *)
FairSpec == Spec /\ \A p \in Procs : WF_vars(Step(p))

---------------------------------------------------------------------------
TypeOK ==
    /\ present \subseteq Files
    /\ stage \in [Procs -> Stages] /\ op \in [Procs -> Ops]
    /\ last_exit_graceful \in [Procs -> BOOLEAN] /\ cleared \in [Procs -> BOOLEAN]
    /\ last_exit \in Exits /\ seen_exit \in [Procs -> Exits]
    /\ panicked \subseteq {"Failed to remove lock file", "Failed to create lock file",
                           "Trying to read non-existing file"}
    /\ overlapped \in BOOLEAN /\ launches \in 0 .. MaxLaunches /\ kills \in 0 .. MaxKills

AllOff == \A p \in Procs : stage[p] = "off"

(* Processes run one after the other never trip over their own locks,      *)
(* whatever a killed one left behind (application.cpp:142, :151).          *)
NoLockPanic == ~overlapped => panicked = {}

(* Between such processes the marker is only there when the last exit was  *)
(* ungraceful, which is what it is for (application.cpp:112), and one that *)
(* ends gracefully leaves neither file behind.                             *)
MarkerMeansUngraceful ==
    ~overlapped /\ AllOff =>
        /\ Marker \in present => last_exit \in {"ungraceful", "interrupted"}
        /\ last_exit = "graceful" => present = {}

(* A lock left by a killed process does not block the next one.            *)
StaleLockDoesNotBlock ==
    \A p \in Procs : stage[p] = "lock" ~> stage[p] # "lock" \/ overlapped

(* As long as nobody is killed, every process gets through and ends,       *)
(* whichever others it meets.                                              *)
EveryProcessEnds == \A p \in Procs : stage[p] # "off" ~> stage[p] = "off" \/ kills > 0

(* application.cpp:112: the marker is used "to check if the last program   *)
(* exit was graceful": a program that follows an interrupted one clears.   *)
UngracefulExitIsDetected ==
    \A p \in Procs : At(p, "run") /\ seen_exit[p] = "interrupted" => cleared[p]

=============================================================================
