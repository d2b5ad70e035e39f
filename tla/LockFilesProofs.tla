-------------------------- MODULE LockFilesProofs --------------------------
(***************************************************************************)
(* What the lock files are good for as long as processes run one after the *)
(* other, for any number of processes, launches and kills.                 *)
(***************************************************************************)
EXTENDS LockFiles, TLAPS

(* At most one process is under way.                                       *)
Alone == \A p, q \in Procs : stage[p] # "off" /\ stage[q] # "off" => p = q

(* What the process under way knows of the file of its stage: nobody else  *)
(* creates or removes it after it looked.                                  *)
Knows(p) ==
    /\ op[p] = "remove" => Exists(p)
    /\ op[p] \in {"open", "write"} => ~Exists(p)
    /\ op[p] = "verify" => Exists(p)
    /\ op[p] # "read"
    /\ op[p] \in {"open", "write", "verify"} => stage[p] \in {"lock", "try_lock"}
    /\ op[p] = "wait" => stage[p] = "lock"
    /\ op[p] = "try" => stage[p] = "try_lock"
    /\ op[p] \in {"setup", "run"} => stage[p] = "work"

(* After a graceful exit, or before the first one, a file is there only    *)
(* while the process under way holds it.                                   *)
HoldsMarker == {"try_lock", "work", "unlock lock", "unlock marker"}
HoldsLock == {"lock", "construct marker", "try_lock", "work", "unlock lock"}
Held(p) ==
    /\ stage[p] = "unlock marker" => Lock \notin present
    /\ last_exit \in {"none", "graceful"} =>
        /\ Marker \in present => stage[p] \in HoldsMarker
        /\ Lock \in present => stage[p] \in HoldsLock

Sole ==
    /\ Alone /\ panicked = {}
    /\ \A p \in Procs : stage[p] # "off" => Knows(p) /\ Held(p)
    /\ AllOff /\ last_exit \in {"none", "graceful"} => present = {}

(* Nothing is known of processes once two of them have met.                *)
SoleInv == TypeOK /\ (~overlapped => Sole)

(* The stages of a process, in order.                                      *)
LEMMA NextStage ==
    /\ Following["off"] = "construct lock"
    /\ Following["construct lock"] = "lock"
    /\ Following["lock"] = "construct marker"
    /\ Following["construct marker"] = "try_lock"
    /\ Following["try_lock"] = "work"
    /\ Following["work"] = "unlock lock"
    /\ Following["unlock lock"] = "unlock marker"
    /\ Following["unlock marker"] = "~marker"
    /\ Following["~marker"] = "~lock"
    /\ Following["~lock"] = "off"
    /\ \A s \in Stages : Following[s] \in Stages
BY DEF Following, Stages

(* The operation a stage starts with tells the stage.                      *)
LEMMA FirstOpStage ==
    \A s \in Stages :
        /\ FirstOp(s) \notin {"remove", "open", "read", "write", "verify", "run"}
        /\ FirstOp(s) = "wait" => s = "lock"
        /\ FirstOp(s) = "try" => s = "try_lock"
        /\ FirstOp(s) = "setup" => s = "work"
BY DEF FirstOp, Stages

(* It is an operation.                                                     *)
LEMMA FirstOpType == \A s \in Stages : FirstOp(s) \in Ops \ {"remove", "open", "read", "write", "verify"}
BY DEF FirstOp, Stages, Ops

(* The invariant holds at the start.                                       *)
LEMMA SoleInit == Init => SoleInv
<1> SUFFICES ASSUME Init PROVE TypeOK /\ Sole
  BY DEF SoleInv
<1>1. TypeOK
  <2>1. launches \in 0 .. MaxLaunches /\ kills \in 0 .. MaxKills
    BY LockAssumption DEF Init
  <2>2. overlapped \in BOOLEAN
    BY DEF Init
  <2>3. /\ stage \in [Procs -> Stages] /\ op \in [Procs -> Ops]
        /\ last_exit \in Exits /\ seen_exit \in [Procs -> Exits]
    BY DEF Init, Stages, Ops, Exits
  <2>4. last_exit_graceful \in [Procs -> BOOLEAN] /\ cleared \in [Procs -> BOOLEAN]
    BY Zenon DEF Init
  <2> QED BY <2>1, <2>2, <2>3, <2>4 DEF Init, TypeOK
<1>2. Sole
  BY DEF Init, Sole, Alone, AllOff
<1> QED BY <1>1, <1>2

(* One more is still in the range of the counter.                          *)
LEMMA Counted == \A n \in Nat : \A k \in 0 .. n : k < n => k + 1 \in 0 .. n
OBVIOUS

(* Every step keeps the types.                                             *)
LEMMA LockTypeStep == TypeOK /\ [Next]_vars => TypeOK'
<1> SUFFICES ASSUME TypeOK, [Next]_vars PROVE TypeOK'
  OBVIOUS
<1> USE LockAssumption DEF TypeOK, flow, memory, counts
<1>1. CASE UNCHANGED vars
  BY <1>1 DEF vars
<1> SUFFICES ASSUME NEW p \in Procs, Launch(p) \/ Step(p) \/ Kill(p) PROVE TypeOK'
  BY <1>1 DEF Next
<1>a. ASSUME NEW s \in Stages, GoTo(p, s)
      PROVE  stage' \in [Procs -> Stages] /\ op' \in [Procs -> Ops]
  BY <1>a, FirstOpType DEF GoTo
<1>b. Continue(p) => stage' \in [Procs -> Stages] /\ op' \in [Procs -> Ops]
  BY <1>a, NextStage DEF Continue
<1>c. ASSUME NEW o \in Ops, Goes(p, o)
      PROVE  stage' \in [Procs -> Stages] /\ op' \in [Procs -> Ops]
  BY <1>c DEF Goes
<1>d. Panic(p) => /\ stage' \in [Procs -> Stages] /\ op' \in [Procs -> Ops]
                  /\ last_exit' \in Exits
  BY <1>a DEF Panic, Stages, Exits
<1>2. CASE Launch(p)
  <2>1. launches' \in 0 .. MaxLaunches
    BY <1>2, Counted DEF Launch
  <2> QED BY <1>b, <1>2, <2>1 DEF Launch
<1>3. CASE Destructor(p)
  BY <1>b, <1>c, <1>3 DEF Destructor, Ops
<1>4. CASE Unlock(p)
  BY <1>b, <1>c, <1>4 DEF Unlock, Ops, Exits
<1>5. CASE RemoveFile(p)
  BY <1>b, <1>d, <1>5 DEF RemoveFile, Exits
<1>6. CASE Wait(p)
  BY <1>c, <1>6 DEF Wait, Ops
<1>7. CASE TryLock(p)
  BY <1>b, <1>c, <1>7 DEF TryLock, Ops
<1>8. CASE Open(p)
  BY <1>c, <1>8 DEF Open, Ops
<1>9. CASE Read(p)
  BY <1>c, <1>d, <1>9 DEF Read, Ops
<1>10. CASE Write(p)
  BY <1>c, <1>10 DEF Write, Ops, FileOf, Files
<1>11. CASE Verify(p)
  <2>1. last_exit_graceful' \in [Procs -> BOOLEAN]
    BY <1>11 DEF Verify
  <2>2. stage' \in [Procs -> Stages] /\ op' \in [Procs -> Ops] /\ last_exit' \in Exits
    BY <1>b, <1>d, <1>11 DEF Verify
  <2> QED BY <1>d, <1>11, <2>1, <2>2 DEF Verify
<1>12. CASE Setup(p)
  BY <1>c, <1>12 DEF Setup, Ops
<1>13. CASE Finish(p)
  BY <1>b, <1>13 DEF Finish
<1>14. CASE WorkPanic(p)
  BY <1>d, <1>14 DEF WorkPanic
<1>15. CASE Kill(p)
  <2>1. kills' \in 0 .. MaxKills
    BY <1>15, Counted DEF Kill
  <2> QED BY <1>a, <1>15, <2>1 DEF Kill, Stages, Exits
<1> QED
  BY <1>2, <1>3, <1>4, <1>5, <1>6, <1>7, <1>8, <1>9, <1>10, <1>11, <1>12, <1>13, <1>14,
     <1>15 DEF Step

(* Every step keeps it.                                                    *)
LEMMA SoleStep == SoleInv /\ [Next]_vars => SoleInv'
<1> SUFFICES ASSUME SoleInv, [Next]_vars, ~overlapped' PROVE Sole'
  BY LockTypeStep DEF SoleInv
<1> USE DEF flow, memory, counts
<1>a. ~overlapped
  BY DEF Next, vars, Launch, Step, Destructor, Unlock, RemoveFile, Wait, TryLock, Open,
     Read, Write, Verify, Setup, Finish, WorkPanic, Kill
<1>0. TypeOK /\ TypeOK' /\ Sole /\ Alone /\ panicked = {}
  BY <1>a, LockTypeStep DEF SoleInv, Sole
<1>1. CASE UNCHANGED vars
  BY <1>0, <1>1 DEF vars, Sole, Alone, AllOff, Knows, Held, Exists
<1> SUFFICES ASSUME NEW p \in Procs, Launch(p) \/ Step(p) \/ Kill(p) PROVE Sole'
  BY <1>1 DEF Next
(* Nobody else moves: all others are off, before and after.                *)
<1>2. \A q \in Procs : q # p => stage[q] = "off"
  <2>1. CASE Launch(p)
    BY <2>1 DEF Launch
  <2>2. CASE stage[p] # "off"
    BY <1>0, <2>2 DEF Alone
  <2> QED BY <2>1, <2>2 DEF Step, Destructor, Unlock, RemoveFile, Wait, TryLock, Open,
          Read, Write, Verify, Setup, Finish, WorkPanic, Kill, At
<1>3. \A q \in Procs : q # p => stage'[q] = stage[q]
  BY <1>0 DEF Launch, Step, Destructor, Unlock, RemoveFile, Wait, TryLock, Open, Read,
     Write, Verify, Setup, Finish, WorkPanic, Kill, Continue, GoTo, Goes, Panic, TypeOK
<1>4. Alone' /\ (stage'[p] = "off" <=> AllOff')
  BY <1>2, <1>3 DEF Alone, AllOff
<1>5. /\ stage[p] \in Stages /\ op[p] \in Ops /\ present \subseteq Files
      /\ present' \subseteq Files
      /\ stage[p] # "off" => Knows(p) /\ Held(p)
      /\ stage[p] = "off" /\ last_exit \in {"none", "graceful"} => present = {}
  BY <1>0, <1>2 DEF Sole, TypeOK, AllOff
<1>6. ASSUME NEW s \in Stages, GoTo(p, s)
      PROVE  stage'[p] = s /\ Knows(p)'
  BY <1>0, <1>6, FirstOpStage DEF GoTo, TypeOK, Knows
<1>7. Continue(p) => stage'[p] = Following[stage[p]] /\ Knows(p)'
  BY <1>5, <1>6, NextStage DEF Continue
<1>8. ASSUME NEW o, Goes(p, o) PROVE stage'[p] = stage[p] /\ op'[p] = o
  BY <1>0, <1>8 DEF Goes, TypeOK
<1>9. Panic(p) => /\ stage'[p] \in {"off", "~lock"} /\ Knows(p)'
                  /\ last_exit' \in {"interrupted", "ungraceful"}
  BY <1>6 DEF Panic, Stages
(* What is left to show of each action.                                    *)
<1>10. ASSUME panicked' = panicked, Knows(p)', Held(p)'
       PROVE  Sole'
  <2>1. AllOff' /\ last_exit' \in {"none", "graceful"} => present' = {}
    BY <1>4, <1>5, <1>10 DEF Held, Files, HoldsMarker, HoldsLock
  <2>2. \A q \in Procs : stage'[q] # "off" => Knows(q)' /\ Held(q)'
    BY <1>2, <1>3, <1>10
  <2> QED BY <1>0, <1>4, <1>10, <2>1, <2>2 DEF Sole
(* Going on to the next stage is safe with the file of this stage gone ... *)
<1>11. ASSUME Continue(p), stage[p] # "off", Held(p),
              present' \subseteq present, FileOf(stage[p]) \notin present',
              \/ last_exit' = last_exit
              \/ stage[p] = "unlock marker" /\ last_exit' = "graceful"
       PROVE  Held(p)'
  <2>1. stage'[p] = Following[stage[p]]
    BY <1>7, <1>11
  <2>2. CASE stage[p] = "unlock marker"
    BY <1>11, <2>1, <2>2, NextStage DEF Held, FileOf, Files, HoldsMarker, HoldsLock, Lock, Marker
  <2>3. CASE stage[p] # "unlock marker"
    BY <1>5, <1>11, <2>1, <2>3, NextStage
    DEF Held, FileOf, HoldsMarker, HoldsLock, Lock, Marker, Stages
  <2> QED BY <2>2, <2>3
(* ... and where both files are kept.                                      *)
<1>12. ASSUME Continue(p), Held(p), stage[p] \in {"lock", "try_lock", "work"},
              UNCHANGED <<present, last_exit>>
       PROVE  Held(p)'
  BY <1>7, <1>12, NextStage DEF Held, HoldsMarker, HoldsLock
(* A process that stays in its stage keeps what it knows of the files.     *)
<1>13. ASSUME NEW o, Goes(p, o), Held(p), UNCHANGED <<present, last_exit>>
       PROVE  Held(p)'
  BY <1>8, <1>13 DEF Held
<1>14. CASE Launch(p)
  <2>1. stage'[p] = "construct lock" /\ Knows(p)'
    BY <1>7, <1>14, NextStage DEF Launch
  <2>2. Held(p)'
    BY <1>5, <1>14, <2>1 DEF Launch, Held
  <2> QED BY <1>10, <1>14, <2>1, <2>2 DEF Launch
<1>15. CASE Destructor(p)
  <2>1. stage[p] # "off" /\ Knows(p) /\ Held(p)
    BY <1>5, <1>15 DEF Destructor, At
  <2>2. CASE ~Exists(p) /\ Continue(p)
    <3>1. Knows(p)'
      BY <1>7, <1>15, <2>1, <2>2 DEF Destructor, At, Knows, Exists
    <3>2. Held(p)'
      BY <1>11, <1>15, <2>1, <2>2 DEF Destructor, At, Knows, Exists
    <3> QED BY <1>10, <1>15, <3>1, <3>2 DEF Destructor
  <2>3. CASE Exists(p) /\ Goes(p, "unlock")
    <3>1. Knows(p)'
      BY <1>8, <1>15, <2>1, <2>3 DEF Destructor, At, Knows, Exists
    <3>2. Held(p)'
      BY <1>13, <1>15, <2>1, <2>3 DEF Destructor, At, Knows
    <3> QED BY <1>10, <1>15, <3>1, <3>2 DEF Destructor
  <2> QED BY <1>15, <2>2, <2>3 DEF Destructor
<1>16. CASE Unlock(p)
  <2>1. stage[p] # "off" /\ Knows(p) /\ Held(p)
    BY <1>5, <1>16 DEF Unlock, At
  <2>2. CASE ~Exists(p) /\ Continue(p)
    <3>1. Knows(p)'
      BY <1>7, <1>16, <2>1, <2>2 DEF Unlock, At, Knows, Exists
    <3>2. Held(p)'
      BY <1>11, <1>16, <2>1, <2>2 DEF Unlock, At, Knows, Exists
    <3> QED BY <1>10, <1>16, <3>1, <3>2 DEF Unlock
  <2>3. CASE Exists(p) /\ Goes(p, "remove") /\ UNCHANGED last_exit
    <3>1. Knows(p)'
      <4>1. stage'[p] = stage[p] /\ op'[p] = "remove" /\ present' = present
        BY <1>8, <1>16, <2>3 DEF Unlock
      <4> QED BY <2>3, <4>1 DEF Knows, Exists
    <3>2. Held(p)'
      BY <1>13, <1>16, <2>1, <2>3 DEF Unlock, At, Knows
    <3> QED BY <1>10, <1>16, <3>1, <3>2 DEF Unlock
  <2> QED BY <1>16, <2>2, <2>3 DEF Unlock
<1>17. CASE RemoveFile(p)
  <2>1. stage[p] # "off" /\ Knows(p) /\ Held(p)
    BY <1>5, <1>17 DEF RemoveFile, At
  <2>2. /\ Exists(p) /\ Continue(p) /\ present' = present \ {FileOf(stage[p])}
        /\ last_exit' = IF stage[p] = "unlock marker" THEN "graceful" ELSE last_exit
        /\ panicked' = panicked
    BY <1>17, <2>1 DEF RemoveFile, At, Knows
  <2>3. Held(p)'
    BY <1>11, <2>1, <2>2
  <2> QED BY <1>7, <1>10, <2>2, <2>3
<1>18. CASE Wait(p)
  <2>1. stage[p] # "off" /\ Knows(p) /\ Held(p)
    BY <1>5, <1>18 DEF Wait, At
  <2>2. Knows(p)'
    BY <1>8, <1>18, <2>1 DEF Wait, At, Knows, Exists
  <2>3. Held(p)'
    BY <1>13, <1>18, <2>1 DEF Wait
  <2> QED BY <1>10, <1>18, <2>2, <2>3 DEF Wait
<1>19. CASE TryLock(p)
  <2>1. stage[p] # "off" /\ Knows(p) /\ Held(p)
    BY <1>5, <1>19 DEF TryLock, At
  <2>2. CASE Exists(p) /\ Continue(p)
    <3>1. Knows(p)'
      BY <1>7, <1>19, <2>1, <2>2 DEF TryLock, At, Knows, Exists
    <3>2. Held(p)'
      BY <1>12, <1>19, <2>1, <2>2 DEF TryLock, At, Knows
    <3> QED BY <1>10, <1>19, <3>1, <3>2 DEF TryLock
  <2>3. CASE ~Exists(p) /\ Goes(p, "open")
    <3>1. Knows(p)'
      BY <1>8, <1>19, <2>1, <2>3 DEF TryLock, At, Knows, Exists
    <3>2. Held(p)'
      BY <1>13, <1>19, <2>1, <2>3 DEF TryLock, At, Knows
    <3> QED BY <1>10, <1>19, <3>1, <3>2 DEF TryLock
  <2> QED BY <1>19, <2>2, <2>3 DEF TryLock
<1>20. CASE Open(p)
  <2>1. stage[p] # "off" /\ Knows(p) /\ Held(p)
    BY <1>5, <1>20 DEF Open, At
  <2>2. Knows(p)'
    BY <1>8, <1>20, <2>1 DEF Open, At, Knows, Exists
  <2>3. Held(p)'
    BY <1>13, <1>20, <2>1 DEF Open
  <2> QED BY <1>10, <1>20, <2>2, <2>3 DEF Open
<1>21. CASE Read(p)
  <2>1. stage[p] # "off" /\ Knows(p) /\ Held(p)
    BY <1>5, <1>21 DEF Read, At
  <2> QED BY <1>21, <2>1 DEF Read, At, Knows
<1>22. CASE Write(p)
  <2>1. stage[p] # "off" /\ Knows(p) /\ Held(p)
    BY <1>5, <1>22 DEF Write, At
  <2>2. Knows(p)'
    BY <1>8, <1>22, <2>1 DEF Write, At, Knows, Exists
  <2>3. Held(p)'
    BY <1>8, <1>22, <2>1
    DEF Write, At, Knows, Held, HoldsMarker, HoldsLock, FileOf, Lock, Marker
  <2> QED BY <1>10, <1>22, <2>2, <2>3 DEF Write
<1>23. CASE Verify(p)
  <2>1. stage[p] # "off" /\ Knows(p) /\ Held(p)
    BY <1>5, <1>23 DEF Verify, At
  <2>2. /\ Continue(p) /\ UNCHANGED <<present, last_exit, panicked>>
        /\ stage[p] \in {"lock", "try_lock"}
    BY <1>23, <2>1 DEF Verify, At, Knows
  <2> QED BY <1>7, <1>10, <1>12, <2>1, <2>2
<1>24. CASE Setup(p)
  <2>1. stage[p] # "off" /\ Knows(p) /\ Held(p)
    BY <1>5, <1>24 DEF Setup, At
  <2>2. Knows(p)'
    BY <1>8, <1>24, <2>1 DEF Setup, At, Knows, Exists
  <2>3. Held(p)'
    BY <1>13, <1>24, <2>1 DEF Setup
  <2> QED BY <1>10, <1>24, <2>2, <2>3 DEF Setup
<1>25. CASE Finish(p)
  <2>1. stage[p] # "off" /\ Knows(p) /\ Held(p)
    BY <1>5, <1>25 DEF Finish, At
  <2>2. Continue(p) /\ stage[p] = "work" /\ UNCHANGED <<present, last_exit, panicked>>
    BY <1>25, <2>1 DEF Finish, At, Knows
  <2> QED BY <1>7, <1>10, <1>12, <2>1, <2>2
<1>26. CASE WorkPanic(p)
  <2>1. stage[p] # "off" /\ Knows(p) /\ Held(p)
    BY <1>5, <1>26 DEF WorkPanic, At
  <2>2. Held(p)'
    BY <1>9, <1>26 DEF WorkPanic, Held
  <2> QED BY <1>9, <1>10, <1>26, <2>2 DEF WorkPanic
<1>27. CASE Kill(p)
  <2>1. stage[p] # "off" /\ Knows(p) /\ Held(p)
    BY <1>5, <1>27 DEF Kill, At
  <2>2. stage'[p] = "off" /\ Knows(p)'
    BY <1>6, <1>27 DEF Kill, Stages
  <2>3. Held(p)'
    BY <1>27, <2>1, <2>2 DEF Kill, Held, HoldsMarker, HoldsLock
  <2> QED BY <1>10, <1>27, <2>2, <2>3 DEF Kill
<1> QED
  BY <1>14, <1>15, <1>16, <1>17, <1>18, <1>19, <1>20, <1>21, <1>22, <1>23, <1>24, <1>25, <1>26, <1>27 DEF Step

(* It always holds.                                                        *)
LEMMA SoleAlways == Spec => []SoleInv
BY SoleInit, SoleStep, PTL DEF Spec

(* Every variable keeps its type, also of processes that meet: a process   *)
(* is in one of the stages of Application::run, the files are the two.     *)
THEOREM LockTypes == Spec => []TypeOK
<1>1. SoleInv => TypeOK
  BY DEF SoleInv
<1> QED BY <1>1, SoleAlways, PTL

(* Processes that run one after the other never fail an assertion of       *)
(* LockFile (application.cpp:142, :151), whoever is killed and whenever.   *)
THEOREM SequentialNeverPanics == Spec => []NoLockPanic
<1>1. SoleInv => NoLockPanic
  BY DEF SoleInv, Sole, NoLockPanic
<1> QED BY <1>1, SoleAlways, PTL

(* Between such processes the marker of application.cpp:112 is there only  *)
(* after an ungraceful exit, and after a graceful one neither file is.     *)
THEOREM SequentialMarker == Spec => []MarkerMeansUngraceful
<1>1. SoleInv => MarkerMeansUngraceful
  BY DEF SoleInv, Sole, TypeOK, Exits, MarkerMeansUngraceful
<1> QED BY <1>1, SoleAlways, PTL
=============================================================================
