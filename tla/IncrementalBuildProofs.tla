----------------------- MODULE IncrementalBuildProofs -----------------------
(***************************************************************************)
(* Theorems about IncrementalBuild, for every set of sources, every        *)
(* assignment of types and verdicts, and every bound.                      *)
(***************************************************************************)
EXTENDS IncrementalBuildInv, TLAPS

(* Removing outputs and writing an output keep files a table of contents.  *)
LEMMA RemoveType ==
    ASSUME files \in [Outputs -> Content \cup {Missing}], NEW os, Remove(os)
    PROVE  files' \in [Outputs -> Content \cup {Missing}]
BY DEF Remove

(* Writing files and recording them keeps the types.                       *)
LEMMA WriteType ==
    ASSUME files \in [Outputs -> Content \cup {Missing}],
           generated_from \in [Inputs -> SUBSET Outputs],
           NEW i \in Inputs, NEW os \in SUBSET Outputs, NEW c \in Content,
           Write(i, os, c)
    PROVE  /\ files' \in [Outputs -> Content \cup {Missing}]
           /\ generated_from' \in [Inputs -> SUBSET Outputs]
BY DEF Write

(* A control point the program dispatches to, with work among the inputs.  *)
LEMMA DispatchType ==
    ASSUME NEW p \in AllPrograms, Dispatch(p)
    PROVE  /\ pc' \in {"scan", "force", "bind start", "clear types", "clear generated"}
           /\ pc' \in Pcs /\ todo' \subseteq Inputs
BY DEF Dispatch, FirstPc, FirstTodo, AllPrograms, Pcs, Present, Inputs

(* A time recorded is a time.                                              *)
LEMMA StampedType ==
    ASSUME TypeOK, NEW i \in Inputs
    PROVE  Stamped(i) \in [Inputs -> Stamps]
BY DEF Stamped, TypeOK

(* The empty tables have their types.                                      *)
LEMMA StampsZero ==
    /\ 0 \in Stamps
    /\ NoStamps \in [Inputs -> Stamps]
    /\ NoOutputs \in [Inputs -> SUBSET Outputs]
    /\ [s \in Sources |-> 0] \in [Sources -> Stamps]
<1>1. 0 \in Stamps
  BY BoundsAssumption DEF Stamps
<1> QED BY <1>1 DEF NoStamps, NoOutputs

(* A process that ends leaves variables of their types.                    *)
LEMMA ForgetType ==
    ASSUME Forget
    PROVE  /\ pc' = "idle" /\ pc' \in Pcs /\ program' \in AllPrograms \cup {"none"}
           /\ todo' \subseteq Inputs /\ current' \in Inputs
           /\ last_modified_times' \in [Inputs -> Stamps]
           /\ out_last_modified_times' \in [Inputs -> Stamps]
           /\ generated_from' \in [Inputs -> SUBSET Outputs]
           /\ regenerate_files' \subseteq Inputs
           /\ upgrading' \in BOOLEAN /\ bodies' \in BOOLEAN
           /\ parsed' \in [Sources -> Stamps]
BY StampsZero DEF Forget, Pcs, Inputs

(* Loading a list of outputs gives a list of outputs, and the very same if *)
(* no path has a blank.                                                    *)
LEMMA LoadedType ==
    ASSUME NEW t \in [Inputs -> SUBSET Outputs]
    PROVE  /\ Loaded(t) \in [Inputs -> SUBSET Outputs]
           /\ \A i \in Inputs : Loaded(t)[i] \cap GenFiles \subseteq t[i]
           /\ Disciplined => Loaded(t) = t
<1>1. Truncated \in Outputs /\ Truncated \notin GenFiles
  BY DEF Outputs, Truncated, GenFiles, Gen
<1> QED BY <1>1 DEF Loaded, Disciplined

(* The variables have their types at the start.                            *)
LEMMA TypeInit == Init => TypeOK
<1> SUFFICES ASSUME Init PROVE TypeOK
  OBVIOUS
<1>1. src \in [Inputs -> Stamps]
  BY DEF Init
<1>2. files \in [Outputs -> Content \cup {Missing}]
  BY DEF Init
<1>3. /\ build \in 1 .. MaxBuild /\ crashes \in 0 .. MaxCrashes
      /\ build_number \in 0 .. MaxBuild
  BY BoundsAssumption DEF Init
<1> QED BY <1>1, <1>2, <1>3, StampsZero DEF Init, TypeOK, Pcs, Inputs

(* Every step keeps the types.                                             *)
LEMMA TypeStep == TypeOK /\ [Next]_vars => TypeOK'
<1> SUFFICES ASSUME TypeOK, [Next]_vars PROVE TypeOK'
  OBVIOUS
<1> USE DEF userVars, records, products, tables, work, session
<1>1. CASE UNCHANGED vars
  BY <1>1 DEF vars, TypeOK
<1>2. ASSUME NEW p \in Programs, Start(p) PROVE TypeOK'
  <2>1. p \in AllPrograms
    BY UsageAssumption
  <2> QED BY <1>2, <2>1, LoadedType DEF Start, TypeOK, Pcs
<1>3. CASE CleanEntry
  <2> PICK i \in todo : CleanEntry!2!(i)
    BY <1>3 DEF CleanEntry
  <2>1. i \in Inputs
    BY DEF TypeOK
  <2>2. CASE src[i] = 0
    BY <1>3, <2>1, <2>2, RemoveType DEF CleanEntry, TypeOK
  <2>3. CASE src[i] # 0
    BY <1>3, <2>1, <2>3 DEF CleanEntry, TypeOK
  <2> QED BY <2>2, <2>3
<1>4. CASE CleanDone
  BY <1>4 DEF CleanDone, TypeOK, Pcs
<1>5. CASE ApplyRegenerate
  <2>1. /\ last_modified_times' \in [Inputs -> Stamps]
        /\ out_last_modified_times' \in [Inputs -> Stamps]
    BY <1>5, StampsZero DEF ApplyRegenerate, TypeOK
  <2>2. generated_from' \in [Inputs -> SUBSET Outputs]
    BY <1>5 DEF ApplyRegenerate, TypeOK
  <2>3. CASE build_number \notin {0, build}
    BY <1>5, <2>1, <2>2, <2>3 DEF ApplyRegenerate, TypeOK, Pcs
  <2>4. CASE build_number \in {0, build}
    <3>1. Dispatch(program) /\ build_number' = build /\ UNCHANGED upgrading
      BY <1>5, <2>4 DEF ApplyRegenerate
    <3>2. /\ pc' \in Pcs \ {"bind", "parse", "classes", "emit"}
          /\ todo' \subseteq Inputs /\ program \in AllPrograms
      BY <1>5, <3>1, DispatchType DEF ApplyRegenerate, TypeOK
    <3>3. build_number' \in 0 .. MaxBuild
      BY <3>1, BoundsAssumption DEF TypeOK
    <3> QED BY <1>5, <2>1, <2>2, <3>1, <3>2, <3>3 DEF ApplyRegenerate, TypeOK
  <2> QED BY <2>3, <2>4
<1>6. CASE ClearTypeEntry
  BY <1>6, RemoveType DEF ClearTypeEntry, TypeOK
<1>7. CASE ClearTypesDone
  BY <1>7 DEF ClearTypesDone, TypeOK, Pcs
<1>8. CASE ClearGeneratedEntry
  BY <1>8, RemoveType, StampsZero DEF ClearGeneratedEntry, TypeOK
<1>9. CASE ClearGeneratedDone
  <2>1. /\ last_modified_times' \in [Inputs -> Stamps]
        /\ out_last_modified_times' \in [Inputs -> Stamps]
        /\ generated_from' \in [Inputs -> SUBSET Outputs]
    BY <1>9, StampsZero DEF ClearGeneratedDone, TypeOK
  <2>2. pc' \in Pcs \ {"bind", "parse", "classes", "emit"} /\ todo' \subseteq Inputs
    <3>1. program \in AllPrograms
      BY <1>9 DEF ClearGeneratedDone, TypeOK
    <3>2. CASE upgrading
      BY <1>9, <3>1, <3>2, DispatchType DEF ClearGeneratedDone
    <3>3. CASE ~upgrading
      BY <1>9, <3>3 DEF ClearGeneratedDone, TypeOK, Pcs
    <3> QED BY <3>2, <3>3
  <2>3. build_number' \in 0 .. MaxBuild
    <3>1. build \in 0 .. MaxBuild
      BY BoundsAssumption DEF TypeOK
    <3> QED BY <1>9, <3>1 DEF ClearGeneratedDone, TypeOK
  <2> QED BY <1>9, <2>1, <2>2, <2>3 DEF ClearGeneratedDone, TypeOK
<1>10. CASE ForceRegenerate
  <2> PICK s \in todo : ForceRegenerate!2!(s)
    BY <1>10 DEF ForceRegenerate
  <2>1. s \in Inputs
    BY DEF TypeOK
  <2> QED BY <1>10, <2>1, RemoveType, StampsZero DEF ForceRegenerate, TypeOK
<1>11. CASE ForceDone
  BY <1>11 DEF ForceDone, TypeOK, Pcs, Present
<1>12. CASE ScanCheck
  <2> PICK i \in todo : ScanCheck!2!(i)
    BY <1>12 DEF ScanCheck
  <2>1. i \in Inputs
    BY DEF TypeOK
  <2>2. CASE Modified(i)
    BY <1>12, <2>1, <2>2, StampedType DEF ScanCheck, TypeOK, Pcs
  <2>3. CASE ~Modified(i)
    BY <1>12, <2>1, <2>3, StampedType DEF ScanCheck, TypeOK, Pcs
  <2> QED BY <2>2, <2>3
<1>13. CASE ScanParse
  <2>1. CASE Judge(current, src[current]) # "unparsable"
    <3>1. /\ src[current] \in 1 .. MaxStamp
          /\ {TypeFile(t) : t \in TypesOf[current][src[current]]} \in SUBSET Outputs
      BY <2>1, TypesAssumption, BoundsAssumption
      DEF Judge, TypeOK, Stamps, Outputs, TypeFiles
    <3>2. [by |-> current, at |-> src[current], bodies |-> TRUE] \in Content
      BY DEF TypeOK, Content
    <3> QED BY <1>13, <2>1, <3>1, <3>2, WriteType DEF ScanParse, TypeOK, Pcs
  <2>2. CASE Judge(current, src[current]) = "unparsable"
    BY <1>13, <2>2 DEF ScanParse, TypeOK, Pcs
  <2> QED BY <2>1, <2>2
<1>14. CASE ScanDone
  BY <1>14 DEF ScanDone, TypeOK, Pcs
<1>15. CASE BindStart
  BY <1>15, StampedType DEF BindStart, TypeOK, Pcs, Present, Inputs
<1>16. CASE Bind
  <2> PICK s \in todo : Bind!2!(s)
    BY <1>16 DEF Bind
  <2>1. s \in Sources /\ s \in Inputs /\ todo' \subseteq Sources /\ current' = s
    BY <1>16 DEF Bind, TypeOK, Inputs
  <2>2. out_last_modified_times' \in [Inputs -> Stamps]
    BY <2>1, StampedType
  <2>3. parsed' \in [Sources -> Stamps] /\ pc' \in Pcs /\ pc' # "bind"
    BY DEF TypeOK, Pcs
  <2>4. pc # "idle"
    BY <1>16 DEF Bind
  <2> QED BY <1>16, <2>1, <2>2, <2>3, <2>4 DEF Bind, TypeOK, Inputs
<1>17. CASE Parse
  BY <1>17 DEF Parse, TypeOK, Pcs
<1>18. CASE Classes
  BY <1>18, StampedType DEF Classes, TypeOK, Pcs, Modified
<1>19. CASE Emit
  <2>1. out_last_modified_times' \in [Inputs -> Stamps]
    BY <1>19, StampedType DEF Emit, TypeOK
  <2>2. /\ files' \in [Outputs -> Content \cup {Missing}]
        /\ generated_from' \in [Inputs -> SUBSET Outputs]
    <3>1. CASE Modified(current)
      <4>1. current \in Sources /\ Gen(current) \in Outputs
        BY <1>19 DEF Emit, TypeOK, Outputs, GenFiles
      <4>2. [by |-> current, at |-> parsed[current], bodies |-> bodies] \in Content
        BY <4>1 DEF TypeOK, Content
      <4> QED BY <1>19, <3>1, <4>1, <4>2, WriteType DEF Emit, TypeOK
    <3>2. CASE ~Modified(current)
      BY <1>19, <3>2 DEF Emit, TypeOK
    <3> QED BY <3>1, <3>2
  <2> QED BY <1>19, <2>1, <2>2 DEF Emit, TypeOK, Pcs
<1>20. CASE Register
  BY <1>20 DEF Register, TypeOK, Pcs
<1>21. CASE SaveTimes
  BY <1>21 DEF SaveTimes, TypeOK, Pcs
<1>22. CASE SaveGeneratedFrom
  BY <1>22 DEF SaveGeneratedFrom, TypeOK, Pcs
<1>23. CASE Exit
  BY <1>23, ForgetType DEF Exit, TypeOK
<1>24. CASE Fail
  BY <1>24, ForgetType DEF Fail, TypeOK
<1>25. CASE Crash
  <2>1. crashes' \in 0 .. MaxCrashes
    <3>1. crashes < MaxCrashes /\ crashes' = crashes + 1
      BY <1>25 DEF Crash
    <3>2. crashes \in 0 .. MaxCrashes
      BY DEF TypeOK
    <3> QED BY <3>1, <3>2, BoundsAssumption
  <2>2. /\ last_modified_gocdb' \in [Inputs -> Stamps]
        /\ generated_from_gocdb' \in [Inputs -> SUBSET Outputs]
    BY <1>25, StampsZero DEF Crash, TypeOK
  <2> QED BY <1>25, <2>1, <2>2, ForgetType DEF Crash, TypeOK
<1>26. CASE User
  <2>1. ASSUME NEW i \in Edited, Edit(i) PROVE TypeOK'
    <3>1. clock[i] + 1 \in Stamps
      BY <2>1, UsageAssumption, BoundsAssumption DEF Edit, TypeOK, Stamps
    <3> QED BY <2>1, <3>1 DEF Edit, TypeOK
  <2>2. ASSUME NEW s \in Sources, Delete(s) PROVE TypeOK'
    BY <2>2, StampsZero DEF Delete, TypeOK
  <2>3. ASSUME NEW s \in Sources, NEW v \in Stamps, Restore(s, v) PROVE TypeOK'
    BY <2>3 DEF Restore, TypeOK
  <2>4. ASSUME NEW o \in Outputs, RemoveOutput(o) PROVE TypeOK'
    BY <2>4, RemoveType DEF RemoveOutput, TypeOK
  <2>5. CASE Install
    BY <2>5, BoundsAssumption DEF Install, TypeOK
  <2> QED BY <1>26, <2>1, <2>2, <2>3, <2>4, <2>5 DEF User
<1> QED
  BY <1>1, <1>2, <1>3, <1>4, <1>5, <1>6, <1>7, <1>8, <1>9, <1>10, <1>11, <1>12, <1>13,
     <1>14, <1>15, <1>16, <1>17, <1>18, <1>19, <1>20, <1>21, <1>22, <1>23, <1>24, <1>25,
     <1>26 DEF Next, Session

(* Every variable keeps its type in every behaviour of the tool and its    *)
(* user, disciplined or not.                                               *)
THEOREM TypeCorrect == Spec => []TypeOK
BY TypeInit, TypeStep, PTL DEF Spec

(* Times are numbers.                                                      *)
LEMMA ClockNat ==
    ASSUME TypeOK
    PROVE  /\ \A i \in Inputs : clock[i] \in Nat /\ 0 <= clock[i]
           /\ \A i \in Inputs : src[i] \in Nat
BY BoundsAssumption DEF TypeOK, Stamps

(* In disciplined use a program starts at a control point of its own.      *)
LEMMA DispatchControl ==
    ASSUME Disciplined, program \in Programs, Dispatch(program)
    PROVE  /\ pc' \in {"scan", "force"} => program \in Generating
           /\ pc' = "clear types" => program \in {"clear", "clear type_db"}
           /\ pc' = "clear generated" => program = "clear generated"
           /\ pc' \in {"scan", "force", "clear types", "clear generated"}
           /\ pc' \in WorkPcs => program \in Generating
           /\ pc' \in ClearPcs => program \notin Generating
<1>1. program \in {"generate", "regenerate", "clear", "clear generated", "clear type_db"}
  BY UsageAssumption DEF Disciplined, AllPrograms
<1> QED
  BY <1>1 DEF Dispatch, FirstPc, AllPrograms, Generating, WorkPcs, BindingPcs, ClearPcs

(* No step records a time that is still to come.                           *)
LEMMA PastStep == TypeOK /\ StampsInThePast /\ [Next]_vars => StampsInThePast'
<1> SUFFICES ASSUME TypeOK, StampsInThePast, [Next]_vars PROVE StampsInThePast'
  OBVIOUS
<1> USE DEF userVars, records, products, tables, work, session
<1> USE DEF StampsInThePast, TypeOK, Stamped, Forget, NoStamps, Stamps
<1>1. CASE UNCHANGED vars
  BY <1>1 DEF vars
<1>2. ASSUME NEW p \in Programs, Start(p) PROVE StampsInThePast'
  BY <1>2 DEF Start
<1>3. CASE CleanEntry
  BY <1>3 DEF CleanEntry
<1>4. CASE CleanDone
  BY <1>4 DEF CleanDone
<1>5. CASE ApplyRegenerate
  BY <1>5, ClockNat DEF ApplyRegenerate, StampsInThePast
<1>6. CASE ClearTypeEntry
  BY <1>6 DEF ClearTypeEntry
<1>7. CASE ClearTypesDone
  BY <1>7 DEF ClearTypesDone
<1>8. CASE ClearGeneratedEntry
  BY <1>8 DEF ClearGeneratedEntry
<1>9. CASE ClearGeneratedDone
  BY <1>9, ClockNat DEF ClearGeneratedDone, StampsInThePast, NoStamps
<1>10. CASE ForceRegenerate
  BY <1>10 DEF ForceRegenerate
<1>11. CASE ForceDone
  BY <1>11 DEF ForceDone
<1>12. CASE ScanCheck
  BY <1>12 DEF ScanCheck
<1>13. CASE ScanParse
  BY <1>13 DEF ScanParse
<1>14. CASE ScanDone
  BY <1>14 DEF ScanDone
<1>15. CASE BindStart
  BY <1>15 DEF BindStart
<1>16. CASE Bind
  BY <1>16 DEF Bind
<1>17. CASE Parse
  BY <1>17 DEF Parse
<1>18. CASE Classes
  BY <1>18 DEF Classes
<1>19. CASE Emit
  BY <1>19 DEF Emit
<1>20. CASE Register
  BY <1>20 DEF Register
<1>21. CASE SaveTimes
  BY <1>21 DEF SaveTimes
<1>22. CASE SaveGeneratedFrom
  BY <1>22 DEF SaveGeneratedFrom
<1>23. CASE Exit
  BY <1>23 DEF Exit
<1>24. CASE Fail
  BY <1>24, ClockNat DEF Fail, StampsInThePast, Forget, NoStamps
<1>25. CASE Crash
  <2>1. CASE UNCHANGED last_modified_gocdb
    BY <1>25, <2>1, ClockNat DEF Crash, StampsInThePast, Forget, NoStamps
  <2>2. CASE last_modified_gocdb' = NoStamps
    BY <1>25, <2>2, ClockNat DEF Crash, StampsInThePast, Forget, NoStamps
  <2> QED BY <1>25, <2>1, <2>2 DEF Crash
<1>26. ASSUME NEW i \in Edited, Edit(i) PROVE StampsInThePast'
  BY <1>26 DEF Edit
<1>27. ASSUME NEW s \in Sources, Delete(s) PROVE StampsInThePast'
  BY <1>27 DEF Delete
<1>28. ASSUME NEW s \in Sources, NEW v \in Stamps, Restore(s, v) PROVE StampsInThePast'
  BY <1>28 DEF Restore
<1>29. ASSUME NEW o \in Outputs, RemoveOutput(o) PROVE StampsInThePast'
  BY <1>29 DEF RemoveOutput
<1>30. CASE Install
  BY <1>30 DEF Install
<1> QED
  BY <1>1, <1>2, <1>3, <1>4, <1>5, <1>6, <1>7, <1>8, <1>9, <1>10, <1>11, <1>12, <1>13, <1>14,
     <1>15, <1>16, <1>17, <1>18, <1>19, <1>20, <1>21, <1>22, <1>23, <1>24, <1>25, <1>26, <1>27, <1>28,
     <1>29, <1>30
     DEF Next, Session, User

(* No step puts a source's file in another source's record.                *)
LEMMA OwnStep == TypeOK /\ OwnGenOnly /\ [Next]_vars => OwnGenOnly'
<1> SUFFICES ASSUME TypeOK, OwnGenOnly, [Next]_vars PROVE OwnGenOnly'
  OBVIOUS
<1> USE DEF userVars, records, products, tables, work, session
<1> USE DEF OwnGenOnly, TypeOK, Forget, NoOutputs, Write, Gen, GenFiles, TypeFile
<1>1. CASE UNCHANGED vars
  BY <1>1 DEF vars
<1>2. ASSUME NEW p \in Programs, Start(p) PROVE OwnGenOnly'
  <2>1. \A i \in Inputs : generated_from'[i] \cap GenFiles \subseteq generated_from_gocdb[i]
    BY <1>2, LoadedType DEF Start
  <2> QED BY <1>2, <2>1 DEF Start
<1>3. CASE CleanEntry
  BY <1>3 DEF CleanEntry
<1>4. CASE CleanDone
  BY <1>4 DEF CleanDone
<1>5. CASE ApplyRegenerate
  BY <1>5 DEF ApplyRegenerate
<1>6. CASE ClearTypeEntry
  BY <1>6 DEF ClearTypeEntry
<1>7. CASE ClearTypesDone
  BY <1>7 DEF ClearTypesDone
<1>8. CASE ClearGeneratedEntry
  BY <1>8 DEF ClearGeneratedEntry
<1>9. CASE ClearGeneratedDone
  BY <1>9 DEF ClearGeneratedDone
<1>10. CASE ForceRegenerate
  BY <1>10 DEF ForceRegenerate
<1>11. CASE ForceDone
  BY <1>11 DEF ForceDone
<1>12. CASE ScanCheck
  BY <1>12 DEF ScanCheck
<1>13. CASE ScanParse
  <2>1. \A i \in Inputs : generated_from'[i] \cap GenFiles = generated_from[i] \cap GenFiles
    <3>1. CASE UNCHANGED generated_from
      BY <3>1
    <3>2. CASE Write(current, {TypeFile(t) : t \in TypesOf[current][src[current]]},
                     [by |-> current, at |-> src[current], bodies |-> TRUE])
      <4>1. {TypeFile(t) : t \in TypesOf[current][src[current]]} \cap GenFiles = {}
        BY DEF GenFiles, Gen, TypeFile
      <4> QED BY <3>2, <4>1 DEF Write, TypeOK
    <3> QED BY <1>13, <3>1, <3>2 DEF ScanParse
  <2> QED BY <1>13, <2>1 DEF ScanParse, OwnGenOnly
<1>14. CASE ScanDone
  BY <1>14 DEF ScanDone
<1>15. CASE BindStart
  BY <1>15 DEF BindStart
<1>16. CASE Bind
  BY <1>16 DEF Bind
<1>17. CASE Parse
  BY <1>17 DEF Parse
<1>18. CASE Classes
  BY <1>18 DEF Classes
<1>19. CASE Emit
  BY <1>19 DEF Emit
<1>20. CASE Register
  BY <1>20 DEF Register
<1>21. CASE SaveTimes
  BY <1>21 DEF SaveTimes
<1>22. CASE SaveGeneratedFrom
  BY <1>22 DEF SaveGeneratedFrom
<1>23. CASE Exit
  BY <1>23 DEF Exit
<1>24. CASE Fail
  BY <1>24 DEF Fail
<1>25. CASE Crash
  BY <1>25 DEF Crash
<1>26. ASSUME NEW i \in Edited, Edit(i) PROVE OwnGenOnly'
  BY <1>26 DEF Edit
<1>27. ASSUME NEW s \in Sources, Delete(s) PROVE OwnGenOnly'
  BY <1>27 DEF Delete
<1>28. ASSUME NEW s \in Sources, NEW v \in Stamps, Restore(s, v) PROVE OwnGenOnly'
  BY <1>28 DEF Restore
<1>29. ASSUME NEW o \in Outputs, RemoveOutput(o) PROVE OwnGenOnly'
  BY <1>29 DEF RemoveOutput
<1>30. CASE Install
  BY <1>30 DEF Install
<1> QED
  BY <1>1, <1>2, <1>3, <1>4, <1>5, <1>6, <1>7, <1>8, <1>9, <1>10, <1>11, <1>12, <1>13, <1>14,
     <1>15, <1>16, <1>17, <1>18, <1>19, <1>20, <1>21, <1>22, <1>23, <1>24, <1>25, <1>26, <1>27, <1>28,
     <1>29, <1>30
     DEF Next, Session, User

(* Every step keeps what the control state says of the tables.             *)
LEMMA ControlStep == Disciplined /\ ControlInv /\ TypeOK /\ [Next]_vars => ControlInv'
<1> SUFFICES ASSUME Disciplined, ControlInv, TypeOK, [Next]_vars PROVE ControlInv'
  OBVIOUS
<1> USE DEF userVars, records, products, tables, work, session
<1> USE DEF ControlInv, Forget, Disciplined, Dispatch, FirstPc, Generating,
             WorkPcs, ClearPcs, BindingPcs, LoopPcs
<1>1. CASE UNCHANGED vars
  BY <1>1 DEF vars
<1>2. ASSUME NEW p \in Programs, Start(p) PROVE ControlInv'
  BY <1>2 DEF Start
<1>3. CASE CleanEntry
  BY <1>3 DEF CleanEntry
<1>4. CASE CleanDone
  BY <1>4 DEF CleanDone
<1>5. CASE ApplyRegenerate
  <2>1. CASE build_number \notin {0, build}
    BY <1>5, <2>1 DEF ApplyRegenerate, ControlInv, WorkPcs, ClearPcs, BindingPcs
  <2>2. CASE build_number \in {0, build}
    <3>1. Dispatch(program) /\ program' = program /\ program \in Programs
      BY <1>5, <2>2 DEF ApplyRegenerate, ControlInv
    <3>2. ~upgrading
      BY <1>5 DEF ApplyRegenerate, ControlInv, ClearPcs
    <3>3. upgrading' = upgrading
      BY <1>5, <2>2 DEF ApplyRegenerate
    <3>4. ~upgrading'
      BY <3>2, <3>3
    <3> QED BY <3>1, <3>4, DispatchControl DEF ControlInv
  <2> QED BY <2>1, <2>2
<1>6. CASE ClearTypeEntry
  BY <1>6 DEF ClearTypeEntry
<1>7. CASE ClearTypesDone
  BY <1>7 DEF ClearTypesDone
<1>8. CASE ClearGeneratedEntry
  BY <1>8 DEF ClearGeneratedEntry
<1>9. CASE ClearGeneratedDone
  <2>1. CASE upgrading
    BY <1>9, <2>1, DispatchControl DEF ClearGeneratedDone, ControlInv
  <2>2. CASE ~upgrading
    BY <1>9, <2>2 DEF ClearGeneratedDone, ControlInv, WorkPcs, ClearPcs, BindingPcs
  <2> QED BY <2>1, <2>2
<1>10. CASE ForceRegenerate
  BY <1>10 DEF ForceRegenerate
<1>11. CASE ForceDone
  BY <1>11 DEF ForceDone
<1>12. CASE ScanCheck
  BY <1>12 DEF ScanCheck
<1>13. CASE ScanParse
  BY <1>13 DEF ScanParse
<1>14. CASE ScanDone
  BY <1>14 DEF ScanDone
<1>15. CASE BindStart
  BY <1>15 DEF BindStart
<1>16. CASE Bind
  BY <1>16 DEF Bind
<1>17. CASE Parse
  BY <1>17 DEF Parse
<1>18. CASE Classes
  BY <1>18 DEF Classes
<1>19. CASE Emit
  BY <1>19 DEF Emit
<1>20. CASE Register
  BY <1>20 DEF Register
<1>21. CASE SaveTimes
  BY <1>21 DEF SaveTimes
<1>22. CASE SaveGeneratedFrom
  BY <1>22 DEF SaveGeneratedFrom
<1>23. CASE Exit
  BY <1>23 DEF Exit
<1>24. CASE Fail
  BY <1>24 DEF Fail
<1>25. CASE Crash
  BY <1>25 DEF Crash
<1>26. ASSUME NEW i \in Edited, Edit(i) PROVE ControlInv'
  BY <1>26 DEF Edit
<1>27. ASSUME NEW s \in Sources, Delete(s) PROVE ControlInv'
  BY <1>27 DEF Delete
<1>28. ASSUME NEW s \in Sources, NEW v \in Stamps, Restore(s, v) PROVE ControlInv'
  BY <1>28 DEF Restore
<1>29. ASSUME NEW o \in Outputs, RemoveOutput(o) PROVE ControlInv'
  BY <1>29 DEF RemoveOutput
<1>30. CASE Install
  BY <1>30 DEF Install
<1> QED
  BY <1>1, <1>2, <1>3, <1>4, <1>5, <1>6, <1>7, <1>8, <1>9, <1>10, <1>11, <1>12, <1>13, <1>14,
     <1>15, <1>16, <1>17, <1>18, <1>19, <1>20, <1>21, <1>22, <1>23, <1>24, <1>25, <1>26, <1>27, <1>28,
     <1>29, <1>30
     DEF Next, Session, User

---------------------------------------------------------------------------
(* The invariant of disciplined use.                                       *)
LEMMA GenFacts ==
    /\ \A s, i : Gen(s) = Gen(i) => s = i
    /\ \A s, t : TypeFile(t) # Gen(s)
    /\ \A s \in Sources : Gen(s) \in GenFiles /\ Gen(s) \in Outputs /\ s \in Inputs
BY DEF Gen, TypeFile, GenFiles, Outputs, Inputs

(* The orphans of one input take no generated file of another source.      *)
LEMMA RemoveOwn ==
    ASSUME TypeOK, OwnGenOnly, NEW i \in Inputs, Remove(generated_from[i]),
           NEW s \in Sources, s # i
    PROVE  files'[Gen(s)] = files[Gen(s)]
BY GenFacts DEF Remove, OwnGenOnly

(* Removing files leaves a source's file as it was or removes it.          *)
LEMMA RemoveGen ==
    ASSUME NEW os, Remove(os), NEW s \in Sources
    PROVE  files'[Gen(s)] \in {files[Gen(s)], Missing}
BY GenFacts DEF Remove

(* Writing type files leaves the sources' files and records alone.         *)
LEMMA WriteTypesGen ==
    ASSUME TypeOK, NEW i \in Inputs, NEW T, NEW c,
           Write(i, {TypeFile(t) : t \in T}, c), NEW s \in Sources
    PROVE  /\ files'[Gen(s)] = files[Gen(s)]
           /\ Gen(s) \in generated_from'[s] <=> Gen(s) \in generated_from[s]
BY GenFacts DEF Write, TypeOK

(* A step of ScanParse leaves every generated file and its registration    *)
(* alone.                                                                  *)
LEMMA ScanParseGen ==
    ASSUME TypeOK, ScanParse, NEW s \in Sources
    PROVE  /\ files'[Gen(s)] = files[Gen(s)]
           /\ Gen(s) \in generated_from'[s] <=> Gen(s) \in generated_from[s]
<1>1. CASE UNCHANGED <<files, generated_from>>
  BY <1>1
<1>2. CASE Write(current, {TypeFile(t) : t \in TypesOf[current][src[current]]},
                 [by |-> current, at |-> src[current], bodies |-> TRUE])
  BY <1>2, WriteTypesGen DEF TypeOK
<1> QED BY <1>1, <1>2 DEF ScanParse

(* A step of Emit writes nothing or the fresh file of current.             *)
LEMMA EmitGen ==
    ASSUME TypeOK, WorkInv, Emit
    PROVE  /\ current \in Sources /\ UNCHANGED <<src, current, todo>>
           /\ \A s \in Sources : s # current =>
                files'[Gen(s)] = files[Gen(s)] /\ generated_from'[s] = generated_from[s]
           /\ Modified(current) => Done(current)'
           /\ ~Modified(current) => UNCHANGED <<files, generated_from>>
<1> USE DEF userVars, work
<1>1. current \in Sources /\ UNCHANGED <<src, current, todo>>
  BY DEF Emit, TypeOK
<1>2. CASE ~Modified(current)
  BY <1>1, <1>2 DEF Emit
<1>3. CASE Modified(current)
  <2>1. Write(current, {Gen(current)}, [by |-> current, at |-> src[current], bodies |-> TRUE])
    BY <1>3 DEF Emit, WorkInv, TypeOK
  <2>2. Done(current)'
    BY <1>1, <2>1, GenFacts DEF Write, Done, FreshGen, TypeOK
  <2> QED BY <1>1, <1>3, <2>1, <2>2, GenFacts DEF Write, TypeOK
<1> QED BY <1>2, <1>3

(* Where a program starts.                                                 *)
LEMMA DispatchPc ==
    ASSUME TypeOK, pc # "idle", Dispatch(program)
    PROVE  pc' \in {"scan", "force", "bind start", "clear types", "clear generated"}
BY DispatchType DEF TypeOK

(* Nobody acts while the tool runs, and nothing is restored.               *)
LEMMA UserIdle ==
    ASSUME Disciplined, User
    PROVE  /\ pc = "idle" /\ pc' = "idle" /\ UNCHANGED <<records, program, upgrading>>
           /\ \/ \E i \in Edited : Edit(i)
              \/ \E s \in Sources : Delete(s)
              \/ \E o \in Outputs : RemoveOutput(o)
              \/ Install
BY DEF User, Edit, Delete, Restore, RemoveOutput, Install, UserMayAct, Disciplined,
       session, records

(* Nothing the user does makes a saved record claim a file that is not     *)
(* there.                                                                  *)
LEMMA DiskUser == Disciplined /\ IInv /\ User => DiskInv'
<1> SUFFICES ASSUME Disciplined, IInv, User, NEW s \in Sources
             PROVE  Tracked(s, last_modified_gocdb, generated_from_gocdb)'
  BY UserIdle DEF DiskInv
<1>0. /\ pc = "idle" /\ UNCHANGED <<last_modified_gocdb, generated_from_gocdb>>
      /\ Tracked(s, last_modified_gocdb, generated_from_gocdb)
      /\ s \in Inputs /\ TypeOK /\ StampsInThePast
  BY UserIdle, GenFacts DEF IInv, DiskInv, records
<1>1. ASSUME NEW i \in Edited, Edit(i)
      PROVE  Tracked(s, last_modified_gocdb, generated_from_gocdb)'
  <2>1. files' = files
    BY <1>1 DEF Edit, products
  <2>2. i \in Inputs /\ (i # s => src'[s] = src[s]) /\ (i = s => src'[s] = clock[s] + 1)
    BY <1>0, <1>1, UsageAssumption DEF Edit, TypeOK
  <2>3. i = s => last_modified_gocdb[s] # src'[s]
    <3>1. /\ last_modified_gocdb[s] \in Nat /\ clock[s] \in Nat
          /\ last_modified_gocdb[s] <= clock[s]
      BY <1>0, ClockNat, BoundsAssumption DEF TypeOK, Stamps, StampsInThePast
    <3> QED BY <2>2, <3>1
  <2> QED BY <1>0, <2>1, <2>2, <2>3 DEF Tracked, FreshGen, Exists
<1>2. ASSUME NEW d \in Sources, Delete(d)
      PROVE  Tracked(s, last_modified_gocdb, generated_from_gocdb)'
  BY <1>0, <1>2 DEF Delete, products, Tracked, FreshGen, Exists, TypeOK
<1>3. ASSUME NEW o \in Outputs, RemoveOutput(o)
      PROVE  Tracked(s, last_modified_gocdb, generated_from_gocdb)'
  BY <1>0, <1>3, RemoveGen DEF RemoveOutput, userVars, Tracked, FreshGen, Exists
<1>4. CASE Install
  BY <1>0, <1>4 DEF Install, products, Tracked, FreshGen, Exists
<1> QED BY <1>1, <1>2, <1>3, <1>4, UserIdle

(* Nor does a step of goc.                                                 *)
LEMMA DiskStep == Disciplined /\ IInv /\ [Next]_vars => DiskInv'
<1> SUFFICES ASSUME Disciplined, IInv, [Next]_vars PROVE DiskInv'
  OBVIOUS
<1> USE DEF userVars, records, products, tables, work
<1> DEFINE OnDisk(s) == Tracked(s, last_modified_gocdb, generated_from_gocdb)
           Saving(s) ==
              /\ Tracked(s, last_modified_gocdb, generated_from)
              /\ Recorded(s) => FreshGen(s) \/ Gen(s) \in generated_from_gocdb[s]
<1>0. TypeOK /\ OwnGenOnly /\ ControlInv /\ WorkInv /\ SaveInv
  BY DEF IInv
<1>a. /\ \A s \in Sources : pc # "save generated_from" => OnDisk(s)
      /\ \A s \in Sources : pc = "save generated_from" => Saving(s)
  BY DEF IInv, DiskInv
<1>b. ASSUME pc' # "save generated_from", \A s \in Sources : OnDisk(s)' PROVE DiskInv'
  BY <1>b DEF DiskInv
<1>. USE <1>0
<1>1. CASE UNCHANGED vars
  BY <1>1, <1>a DEF vars, DiskInv, Tracked, FreshGen, Exists, Recorded
<1>2. ASSUME NEW p \in Programs, Start(p) PROVE DiskInv'
  BY <1>2, <1>a DEF Start, DiskInv, Tracked, FreshGen, Exists
<1>3. CASE CleanEntry
  <2> SUFFICES ASSUME NEW s \in Sources PROVE OnDisk(s)'
    BY <1>3, <1>b DEF CleanEntry
  <2> PICK i \in todo : CleanEntry!2!(i)
    BY <1>3 DEF CleanEntry
  <2>1. /\ UNCHANGED <<src, last_modified_gocdb, generated_from_gocdb>>
        /\ OnDisk(s) /\ s \in Inputs /\ i \in Inputs
    BY <1>3, <1>a, GenFacts DEF CleanEntry, TypeOK
  <2>2. CASE src[i] = 0
    <3>1. s # i => files'[Gen(s)] = files[Gen(s)]
      BY <2>1, <2>2, RemoveOwn
    <3> QED BY <2>1, <2>2, <3>1 DEF Tracked, FreshGen, Exists
  <2>3. CASE src[i] # 0
    BY <2>1, <2>3 DEF Tracked, FreshGen, Exists
  <2> QED BY <2>2, <2>3
<1>4. CASE CleanDone
  BY <1>4, <1>a DEF CleanDone, DiskInv, Tracked, FreshGen, Exists
<1>5. CASE ApplyRegenerate
  <2>1. pc' # "save generated_from"
    BY <1>5, DispatchPc DEF ApplyRegenerate
  <2> QED BY <1>5, <1>a, <2>1 DEF ApplyRegenerate, DiskInv, Tracked, FreshGen, Exists
<1>6. CASE ClearTypeEntry
  <2> SUFFICES ASSUME NEW s \in Sources PROVE OnDisk(s)'
    BY <1>6, <1>b DEF ClearTypeEntry
  <2>1. OnDisk(s) /\ files'[Gen(s)] \in {files[Gen(s)], Missing}
    BY <1>6, <1>a, RemoveGen DEF ClearTypeEntry
  <2> QED BY <1>6, <2>1 DEF ClearTypeEntry, Tracked, FreshGen, Exists
<1>7. CASE ClearTypesDone
  BY <1>7, <1>a DEF ClearTypesDone, DiskInv, Tracked, FreshGen, Exists
<1>8. CASE ClearGeneratedEntry
  <2> SUFFICES ASSUME NEW s \in Sources PROVE OnDisk(s)'
    BY <1>8, <1>b DEF ClearGeneratedEntry
  <2>1. OnDisk(s) /\ files'[Gen(s)] \in {files[Gen(s)], Missing}
    BY <1>8, <1>a, RemoveGen DEF ClearGeneratedEntry
  <2> QED BY <1>8, <2>1 DEF ClearGeneratedEntry, Tracked, FreshGen, Exists
<1>9. CASE ClearGeneratedDone
  <2>1. pc' # "save generated_from"
    BY <1>9, DispatchPc DEF ClearGeneratedDone
  <2> QED BY <1>9, <1>a, <2>1 DEF ClearGeneratedDone, DiskInv, Tracked, FreshGen, Exists
<1>10. CASE ForceRegenerate
  <2> SUFFICES ASSUME NEW s \in Sources PROVE OnDisk(s)'
    BY <1>10, <1>b DEF ForceRegenerate
  <2>1. OnDisk(s) /\ files'[Gen(s)] \in {files[Gen(s)], Missing}
    BY <1>10, <1>a, RemoveGen DEF ForceRegenerate
  <2> QED BY <1>10, <2>1 DEF ForceRegenerate, Tracked, FreshGen, Exists
<1>11. CASE ForceDone
  BY <1>11, <1>a DEF ForceDone, DiskInv, Tracked, FreshGen, Exists
<1>12. CASE ScanCheck
  BY <1>12, <1>a DEF ScanCheck, DiskInv, Tracked, FreshGen, Exists
<1>13. CASE ScanParse
  <2> SUFFICES ASSUME NEW s \in Sources PROVE OnDisk(s)'
    BY <1>13, <1>b DEF ScanParse
  <2>1. OnDisk(s) /\ files'[Gen(s)] = files[Gen(s)]
    BY <1>13, <1>a, ScanParseGen DEF ScanParse
  <2> QED BY <1>13, <2>1 DEF ScanParse, Tracked, FreshGen, Exists
<1>14. CASE ScanDone
  BY <1>14, <1>a DEF ScanDone, DiskInv, Tracked, FreshGen, Exists
<1>15. CASE BindStart
  BY <1>15, <1>a DEF BindStart, DiskInv, Tracked, FreshGen, Exists
<1>16. CASE Bind
  BY <1>16, <1>a DEF Bind, DiskInv, Tracked, FreshGen, Exists
<1>17. CASE Parse
  BY <1>17, <1>a DEF Parse, DiskInv, Tracked, FreshGen, Exists
<1>18. CASE Classes
  BY <1>18, <1>a DEF Classes, DiskInv, Tracked, FreshGen, Exists
<1>19. CASE Emit
  <2> SUFFICES ASSUME NEW s \in Sources PROVE OnDisk(s)'
    BY <1>19, <1>b DEF Emit
  <2>1. OnDisk(s) /\ UNCHANGED <<last_modified_gocdb, generated_from_gocdb>>
    BY <1>19, <1>a DEF Emit
  <2>2. CASE files'[Gen(s)] = files[Gen(s)]
    BY <1>19, <2>1, <2>2, EmitGen DEF Tracked, FreshGen, Exists
  <2>3. CASE s = current /\ Modified(current)
    BY <1>19, <2>1, <2>3, EmitGen DEF Tracked, Done
  <2> QED BY <1>19, <2>2, <2>3, EmitGen
<1>20. CASE Register
  BY <1>20, <1>a DEF Register, DiskInv, Tracked, FreshGen, Exists
<1>21. CASE SaveTimes
  <2> SUFFICES ASSUME NEW s \in Sources PROVE Saving(s)'
    BY <1>21 DEF SaveTimes, DiskInv
  <2>1. Tracked(s, out_last_modified_times, generated_from)
    BY <1>21 DEF SaveTimes, SaveInv
  <2>2. Tracked(s, last_modified_gocdb, generated_from)'
    BY <1>21, <2>1 DEF SaveTimes, Tracked, FreshGen, Exists
  <2>3. ASSUME src[s] # 0 PROVE FreshGen(s) \/ generated_from[s] \subseteq generated_from_gocdb[s]
    BY <1>21, <2>3, GenFacts DEF SaveTimes, SaveInv, Present
  <2> QED BY <1>21, <2>1, <2>2, <2>3 DEF SaveTimes, Recorded, Tracked, FreshGen
<1>22. CASE SaveGeneratedFrom
  BY <1>22, <1>a DEF SaveGeneratedFrom, DiskInv, Tracked, FreshGen, Exists
<1>23. CASE Exit
  BY <1>23, <1>a DEF Exit, Forget, DiskInv, Tracked, FreshGen, Exists
<1>24. CASE Fail
  BY <1>24, <1>a DEF Fail, Forget, DiskInv, Tracked, FreshGen, Exists
<1>25. CASE Crash
  <2> SUFFICES ASSUME NEW s \in Sources PROVE OnDisk(s)'
    BY <1>25, <1>b DEF Crash, Forget
  <2>1. /\ UNCHANGED <<src, files, generated_from_gocdb>> /\ OnDisk(s) /\ s \in Inputs
        /\ last_modified_gocdb' \in {last_modified_gocdb, NoStamps}
    BY <1>25, <1>a, GenFacts DEF Crash, Disciplined
  <2> QED BY <2>1 DEF Tracked, FreshGen, Exists, NoStamps
<1>26. CASE User
  BY <1>26, DiskUser
<1> QED
  BY <1>1, <1>2, <1>3, <1>4, <1>5, <1>6, <1>7, <1>8, <1>9, <1>10, <1>11, <1>12, <1>13,
     <1>14, <1>15, <1>16, <1>17, <1>18, <1>19, <1>20, <1>21, <1>22, <1>23, <1>24, <1>25,
     <1>26 DEF Next, Session

(* Between sessions nothing is asked of the session's state.               *)
LEMMA Idle ==
    ASSUME pc' = "idle"
    PROVE  SetupInv' /\ WorkInv' /\ SaveInv'
BY DEF SetupInv, WorkInv, SaveInv, ClearPcs, WorkPcs, BindingPcs, LoopPcs

(* Whatever ends a process, the next thing is another start.               *)
LEMMA GoesIdle ==
    ASSUME Disciplined, Exit \/ Fail \/ Crash \/ User
    PROVE  pc' = "idle"
BY UserIdle DEF Exit, Fail, Crash, Forget

(* Every step keeps what holds between the load and the work.              *)
LEMMA SetupStep == Disciplined /\ IInv /\ [Next]_vars => SetupInv'
<1> SUFFICES ASSUME Disciplined, IInv, [Next]_vars PROVE SetupInv'
  OBVIOUS
<1> USE DEF userVars, records, products, tables, work, ClearPcs
<1> TypeOK /\ OwnGenOnly /\ DiskInv /\ SetupInv
  BY DEF IInv
<1>1. CASE UNCHANGED vars
  BY <1>1 DEF vars, SetupInv, Tracked, FreshGen, Exists
<1>2. ASSUME NEW p \in Programs, Start(p) PROVE SetupInv'
  <2>0. generated_from' = generated_from_gocdb
    BY <1>2, LoadedType DEF Start, TypeOK
  <2>1. \A s \in Sources : Tracked(s, last_modified_gocdb, generated_from_gocdb)
    BY <1>2 DEF Start, DiskInv
  <2>2. \A s \in Sources : Tracked(s, last_modified_times, generated_from)'
    BY <1>2, <2>1, <2>0 DEF Start, Tracked, FreshGen, Exists
  <2>3. \A s \in Sources : src[s] # 0 /\ last_modified_gocdb[s] = src[s] => s \in todo'
    BY <1>2, <2>1, GenFacts DEF Start, Tracked
  <2> QED BY <1>2, <2>0, <2>2, <2>3 DEF Start, SetupInv
<1>3. CASE CleanEntry
  <2> PICK i \in todo : CleanEntry!2!(i)
    BY <1>3 DEF CleanEntry
  <2>1. /\ UNCHANGED <<src, last_modified_times, out_last_modified_times,
                       generated_from_gocdb, pc>>
        /\ pc = "clean" /\ i \in Inputs
    BY <1>3 DEF CleanEntry, TypeOK
  <2> SUFFICES ASSUME NEW s \in Sources, src[s] # 0
               PROVE  /\ Tracked(s, last_modified_times, generated_from)'
                      /\ generated_from'[s] \subseteq generated_from_gocdb[s]
                      /\ last_modified_times[s] = src[s] =>
                            s \in todo' \/ s \in regenerate_files' \/ FreshGen(s)'
    BY <2>1 DEF SetupInv, Tracked
  <2>2. /\ Tracked(s, last_modified_times, generated_from)
        /\ generated_from[s] \subseteq generated_from_gocdb[s]
        /\ last_modified_times[s] = src[s] =>
              s \in todo \/ s \in regenerate_files \/ FreshGen(s)
        /\ s \in Inputs
    BY <2>1, GenFacts DEF SetupInv
  <2>3. CASE src[i] = 0
    <3>1. s # i /\ generated_from'[s] = generated_from[s]
      BY <2>1, <2>2, <2>3 DEF TypeOK
    <3>2. files'[Gen(s)] = files[Gen(s)]
      BY <2>1, <2>3, <3>1, RemoveOwn
    <3> QED BY <2>1, <2>2, <2>3, <3>1, <3>2 DEF Tracked, FreshGen, Exists
  <2>4. CASE src[i] # 0
    <3>1. UNCHANGED <<files, generated_from>> /\ regenerate_files \subseteq regenerate_files'
      BY <2>4
    <3>2. ASSUME s = i, last_modified_times[s] = src[s], s \notin regenerate_files'
          PROVE  FreshGen(s)
      <4>1. Gen(s) \in generated_from[s] /\ (FreshGen(s) \/ ~Exists(Gen(s)))
        BY <2>2, <3>2 DEF Tracked
      <4>2. Exists(Gen(s))
        BY <2>4, <3>2, <4>1
      <4> QED BY <4>1, <4>2
    <3> QED BY <2>1, <2>2, <3>1, <3>2 DEF Tracked, FreshGen, Exists
  <2> QED BY <2>3, <2>4
<1>4. CASE CleanDone
  BY <1>4 DEF CleanDone, SetupInv, Tracked, FreshGen, Exists
<1>5. CASE ApplyRegenerate
  <2>1. pc' \notin {"clean", "apply"} /\ UNCHANGED <<src, files, generated_from_gocdb>>
    BY <1>5, DispatchPc DEF ApplyRegenerate
  <2>2. out_last_modified_times' = last_modified_times'
    BY <1>5 DEF ApplyRegenerate, SetupInv
  <2>3. ASSUME NEW s \in Sources
        PROVE  /\ Tracked(s, last_modified_times, generated_from)'
               /\ src[s] # 0 => generated_from'[s] \subseteq generated_from_gocdb[s]
    <3>1. /\ Tracked(s, last_modified_times, generated_from) /\ s \in Inputs
          /\ src[s] # 0 => generated_from[s] \subseteq generated_from_gocdb[s]
      BY <1>5, GenFacts DEF ApplyRegenerate, SetupInv
    <3> QED BY <1>5, <2>1, <3>1 DEF ApplyRegenerate, Tracked, FreshGen, Exists
  <2> QED BY <2>1, <2>2, <2>3 DEF SetupInv
<1>6. CASE ClearTypeEntry
  <2>1. \A s \in Sources : Tracked(s, last_modified_times, generated_from)'
    BY <1>6, RemoveGen DEF ClearTypeEntry, SetupInv, Tracked, FreshGen, Exists
  <2> QED BY <1>6, <2>1 DEF ClearTypeEntry, SetupInv
<1>7. CASE ClearTypesDone
  BY <1>7 DEF ClearTypesDone, SetupInv, Tracked, FreshGen, Exists
<1>8. CASE ClearGeneratedEntry
  <2>1. \A s \in Sources : files'[Gen(s)] \in {files[Gen(s)], Missing}
    BY <1>8, RemoveGen DEF ClearGeneratedEntry
  <2>2. \A s \in Sources : Tracked(s, last_modified_times, generated_from)'
    BY <1>8, <2>1 DEF ClearGeneratedEntry, SetupInv, Tracked, FreshGen, Exists
  <2> QED BY <1>8, <2>2 DEF ClearGeneratedEntry, SetupInv
<1>9. CASE ClearGeneratedDone
  <2>1. CASE upgrading
    <3>1. pc' \notin {"clean", "apply"} /\ src' = src
      BY <1>9, <2>1, DispatchPc DEF ClearGeneratedDone
    <3>2. /\ last_modified_times' = NoStamps /\ out_last_modified_times' = NoStamps
          /\ generated_from' = NoOutputs
      BY <1>9, <2>1 DEF ClearGeneratedDone
    <3> QED BY <3>1, <3>2, GenFacts DEF SetupInv, Tracked, NoStamps, NoOutputs
  <2>2. CASE ~upgrading
    BY <1>9, <2>2 DEF ClearGeneratedDone, SetupInv
  <2> QED BY <2>1, <2>2
<1>10. ASSUME pc' \in WorkPcs \cup {"save times", "save generated_from", "exit", "idle"}
       PROVE  SetupInv'
  BY <1>10 DEF SetupInv, WorkPcs, BindingPcs
<1>11. CASE \/ ForceRegenerate \/ ForceDone \/ ScanCheck \/ ScanParse \/ ScanDone
            \/ BindStart \/ Bind \/ Parse \/ Classes \/ Emit \/ Register
            \/ SaveTimes \/ SaveGeneratedFrom
  BY <1>10, <1>11 DEF ForceRegenerate, ForceDone, ScanCheck, ScanParse, ScanDone,
     BindStart, Bind, Parse, Classes, Emit, Register, SaveTimes, SaveGeneratedFrom,
     WorkPcs, BindingPcs
<1>12. CASE Exit \/ Fail \/ Crash \/ User
  BY <1>12, GoesIdle, Idle
<1> QED
  BY <1>1, <1>2, <1>3, <1>4, <1>5, <1>6, <1>7, <1>8, <1>9, <1>11, <1>12 DEF Next, Session

(* Every step keeps what holds during the work.                            *)
LEMMA WorkStep == Disciplined /\ IInv /\ [Next]_vars => WorkInv'
<1> SUFFICES ASSUME Disciplined, IInv, [Next]_vars PROVE WorkInv'
  OBVIOUS
<1> USE DEF userVars, records, products, tables, work, WorkPcs, BindingPcs, LoopPcs
<1> TypeOK /\ OwnGenOnly /\ SetupInv /\ WorkInv
  BY DEF IInv
<1>1. CASE UNCHANGED vars
  BY <1>1 DEF vars, WorkInv, Done, FreshGen, Present, Modified
<1>2. ASSUME pc' \notin WorkPcs PROVE WorkInv'
  BY <1>2 DEF WorkInv
(* Where no generated file and no time is touched, being up to date is     *)
(* kept.                                                                   *)
<1>3. ASSUME pc \in WorkPcs,
             UNCHANGED <<src, files, generated_from, last_modified_times>>
      PROVE  /\ \A s \in Sources : Done(s)' <=> Done(s)
             /\ \A s \in Sources : src[s] # 0 /\ last_modified_times[s] = src[s] => Done(s)
  BY <1>3 DEF WorkInv, Done, FreshGen
<1>4. ASSUME NEW p \in Programs, Start(p) PROVE WorkInv'
  BY <1>2, <1>4 DEF Start
<1>5. CASE \/ CleanEntry \/ CleanDone \/ ClearTypeEntry \/ ClearTypesDone
           \/ ClearGeneratedEntry \/ SaveTimes \/ SaveGeneratedFrom \/ Register
  BY <1>2, <1>5 DEF CleanEntry, CleanDone, ClearTypeEntry, ClearTypesDone,
     ClearGeneratedEntry, SaveTimes, SaveGeneratedFrom, Register
<1>6. CASE ApplyRegenerate
  <2>1. pc' \in {"scan", "force", "bind start", "clear types", "clear generated"}
    BY <1>6, DispatchPc DEF ApplyRegenerate
  <2>2. ASSUME NEW s \in Sources, src[s] # 0, last_modified_times'[s] = src[s]
        PROVE  Done(s)'
    <3>1. /\ s \notin regenerate_files /\ s \in Inputs
          /\ last_modified_times[s] = src[s] /\ generated_from'[s] = generated_from[s]
      BY <1>6, <2>2, GenFacts DEF ApplyRegenerate, TypeOK
    <3>2. FreshGen(s) /\ Gen(s) \in generated_from[s]
      BY <1>6, <2>2, <3>1 DEF ApplyRegenerate, SetupInv, Tracked
    <3> QED BY <1>6, <3>1, <3>2 DEF ApplyRegenerate, Done, FreshGen
  <2>3. src' = src
    BY <1>6 DEF ApplyRegenerate
  <2> QED BY <2>1, <2>2, <2>3 DEF WorkInv
<1>7. CASE ClearGeneratedDone
  <2>1. CASE upgrading
    <3>1. /\ pc' \in {"scan", "force", "bind start", "clear types", "clear generated"}
          /\ src' = src /\ last_modified_times' = NoStamps
      BY <1>7, <2>1, DispatchPc DEF ClearGeneratedDone
    <3> QED BY <3>1, GenFacts DEF WorkInv, NoStamps
  <2>2. CASE ~upgrading
    BY <1>2, <1>7, <2>2 DEF ClearGeneratedDone
  <2> QED BY <2>1, <2>2
<1>8. CASE ForceRegenerate
  <2> PICK i \in todo : ForceRegenerate!2!(i)
    BY <1>8 DEF ForceRegenerate
  <2>1. pc = "force" /\ pc' = "force" /\ src' = src /\ i \in Inputs
    BY <1>8 DEF ForceRegenerate, TypeOK
  <2>2. ASSUME NEW s \in Sources, src[s] # 0, last_modified_times'[s] = src[s]
        PROVE  Done(s)'
    <3>1. CASE i \in ForcedKeys
      <4>1. s # i /\ s \in Inputs
        BY <2>1, <2>2, <3>1, GenFacts DEF TypeOK
      <4>2. files'[Gen(s)] = files[Gen(s)]
        BY <2>1, <3>1, <4>1, RemoveOwn
      <4>3. last_modified_times[s] = src[s] /\ generated_from'[s] = generated_from[s]
        BY <2>2, <3>1, <4>1 DEF TypeOK
      <4> QED BY <2>1, <2>2, <4>2, <4>3 DEF WorkInv, Done, FreshGen
    <3>2. CASE i \notin ForcedKeys
      BY <2>1, <2>2, <3>2 DEF WorkInv, Done, FreshGen
    <3> QED BY <3>1, <3>2
  <2> QED BY <2>1, <2>2 DEF WorkInv
<1>9. CASE ForceDone
  BY <1>3, <1>9 DEF ForceDone, WorkInv
<1>10. CASE ScanCheck
  BY <1>3, <1>10 DEF ScanCheck, WorkInv
<1>11. CASE ScanParse
  <2>1. \A s \in Sources : Done(s)' <=> Done(s)
    BY <1>11, ScanParseGen DEF ScanParse, Done, FreshGen
  <2> QED BY <1>11, <2>1 DEF ScanParse, WorkInv
<1>12. CASE ScanDone
  BY <1>3, <1>12 DEF ScanDone, WorkInv
<1>13. CASE BindStart
  BY <1>3, <1>13 DEF BindStart, WorkInv, Present
<1>14. CASE Bind
  <2> PICK i \in todo : Bind!2!(i)
    BY <1>14 DEF Bind
  <2>1. pc = "bind" /\ UNCHANGED <<src, files, generated_from, last_modified_times>>
    BY <1>14 DEF Bind
  <2>2. i \in Present \cap Sources /\ todo' = todo \ {i} /\ current' = i
    BY <2>1 DEF WorkInv
  <2>3. pc' \in {"parse", "classes"}
    OBVIOUS
  <2>4. pc' = "classes" => ~Modified(i)
    OBVIOUS
  <2> QED BY <1>3, <2>1, <2>2, <2>3, <2>4 DEF WorkInv, Present, Modified
<1>15. CASE Parse
  <2>1. parsed'[current] = src[current]
    BY <1>15 DEF Parse, TypeOK
  <2> QED BY <1>3, <1>15, <2>1 DEF Parse, WorkInv, Present
<1>16. CASE Classes
  <2>1. bodies' = Modified(current)
    BY <1>16 DEF Classes
  <2>2. Modified(current)' <=> Modified(current)
    BY <1>16 DEF Classes, Modified
  <2>3. Modified(current)' => bodies'
    BY <2>1, <2>2
  <2> QED BY <1>3, <1>16, <2>2, <2>3 DEF Classes, WorkInv, Present
<1>17. CASE Emit
  <2>1. /\ UNCHANGED <<src, current, todo, last_modified_times>>
        /\ pc = "emit" /\ pc' = "bind" /\ current \in Present \cap Sources
    BY <1>17 DEF Emit, WorkInv
  <2>2. \A s \in Sources : s # current => (Done(s)' <=> Done(s))
    BY <1>17, <2>1, EmitGen DEF Done, FreshGen
  <2>3. Done(current)'
    <3>1. CASE Modified(current)
      BY <1>17, <3>1, EmitGen
    <3>2. CASE ~Modified(current)
      <4>1. Done(current)
        BY <2>1, <3>2 DEF WorkInv, Modified, Present
      <4> QED BY <1>17, <2>1, <3>2, <4>1, EmitGen DEF Done, FreshGen
    <3> QED BY <3>1, <3>2
  <2> QED BY <2>1, <2>2, <2>3 DEF WorkInv, Present
<1>18. CASE Exit \/ Fail \/ Crash \/ User
  BY <1>18, GoesIdle, Idle
<1> QED
  BY <1>1, <1>4, <1>5, <1>6, <1>7, <1>8, <1>9, <1>10, <1>11, <1>12, <1>13, <1>14, <1>15,
     <1>16, <1>17, <1>18 DEF Next, Session

(* Every step keeps what holds while the tables are saved.                 *)
LEMMA SaveStep == Disciplined /\ IInv /\ [Next]_vars => SaveInv'
<1> SUFFICES ASSUME Disciplined, IInv, [Next]_vars PROVE SaveInv'
  OBVIOUS
<1> USE DEF userVars, records, products, tables, work
<1> TypeOK /\ ControlInv /\ SetupInv /\ WorkInv /\ SaveInv
  BY DEF IInv
<1>1. CASE UNCHANGED vars
  BY <1>1 DEF vars, SaveInv, Tracked, FreshGen, Exists, Present
<1>2. ASSUME pc' \notin {"save times", "save generated_from", "exit"} PROVE SaveInv'
  BY <1>2 DEF SaveInv
<1>3. ASSUME NEW p \in Programs, Start(p) PROVE SaveInv'
  BY <1>2, <1>3 DEF Start
<1>4. CASE \/ CleanEntry \/ CleanDone \/ ApplyRegenerate \/ ClearTypeEntry
           \/ ClearGeneratedEntry \/ ForceRegenerate \/ ForceDone \/ ScanCheck
           \/ ScanParse \/ BindStart \/ Bind \/ Parse \/ Classes \/ Emit
  BY <1>2, <1>4, DispatchPc DEF CleanEntry, CleanDone, ApplyRegenerate, ClearTypeEntry,
     ClearGeneratedEntry, ForceRegenerate, ForceDone, ScanCheck, ScanParse, BindStart,
     Bind, Parse, Classes, Emit
(* A program that does not generate keeps the tables as they were loaded.  *)
<1>5. ASSUME pc \in ClearPcs, ~upgrading, pc' = "save times",
             UNCHANGED <<src, files, program, last_modified_times,
                         out_last_modified_times, generated_from, generated_from_gocdb>>
      PROVE  SaveInv'
  <2>1. program \notin Generating
    BY <1>5 DEF ControlInv
  <2>2. \A s \in Sources :
          /\ Tracked(s, out_last_modified_times, generated_from)
          /\ src[s] # 0 => generated_from[s] \subseteq generated_from_gocdb[s]
    BY <1>5 DEF SetupInv
  <2>3. \A s \in Sources : Tracked(s, out_last_modified_times, generated_from)'
    BY <1>5, <2>2 DEF Tracked, FreshGen, Exists
  <2> QED BY <1>5, <2>1, <2>2, <2>3 DEF SaveInv
<1>6. CASE ClearTypesDone
  <2>1. CASE pc' = "clear generated"
    BY <1>2, <2>1
  <2>2. CASE pc' = "save times"
    BY <1>5, <1>6, <2>2 DEF ClearTypesDone, ClearPcs
  <2> QED BY <1>6, <2>1, <2>2 DEF ClearTypesDone
<1>7. CASE ClearGeneratedDone
  <2>1. CASE upgrading
    BY <1>2, <1>7, <2>1, DispatchPc DEF ClearGeneratedDone
  <2>2. CASE ~upgrading /\ program = "clear"
    BY <1>7, <2>2, GenFacts DEF ClearGeneratedDone, SaveInv, Tracked, NoStamps, NoOutputs,
       Generating
  <2>3. CASE ~upgrading /\ program # "clear"
    BY <1>5, <1>7, <2>3 DEF ClearGeneratedDone, ClearPcs
  <2> QED BY <2>1, <2>2, <2>3
<1>8. CASE ScanDone
  <2>1. program \in Generating
    BY <1>8 DEF ScanDone, ControlInv, WorkPcs
  <2> QED BY <1>2, <1>8, <2>1 DEF ScanDone, Generating
<1>9. CASE Register
  <2>1. \A s \in Present \cap Sources : Done(s)
    BY <1>9 DEF Register, WorkInv, BindingPcs, LoopPcs
  <2>2. program \in Generating
    BY <1>9 DEF Register, ControlInv, WorkPcs, BindingPcs
  <2>3. \A s \in Sources : src[s] # 0 => s \in Present
    BY GenFacts DEF Present
  <2> QED BY <1>9, <2>1, <2>2, <2>3
      DEF Register, SaveInv, Tracked, Done, FreshGen, Exists, Present
<1>10. CASE SaveTimes
  BY <1>10 DEF SaveTimes, SaveInv, FreshGen, Present
<1>11. CASE SaveGeneratedFrom
  BY <1>11 DEF SaveGeneratedFrom, SaveInv, FreshGen, Present
<1>12. CASE Exit \/ Fail \/ Crash \/ User
  BY <1>12, GoesIdle, Idle
<1> QED
  BY <1>1, <1>3, <1>4, <1>6, <1>7, <1>8, <1>9, <1>10, <1>11, <1>12 DEF Next, Session

---------------------------------------------------------------------------
(* The invariant holds at the start.                                       *)
LEMMA InvInit == Init => IInv
<1> SUFFICES ASSUME Init PROVE IInv
  OBVIOUS
<1>1. TypeOK
  BY TypeInit
<1>2. StampsInThePast
  BY <1>1, ClockNat DEF Init, StampsInThePast, NoStamps
<1>3. OwnGenOnly
  BY DEF Init, OwnGenOnly, NoOutputs
<1>4. ControlInv
  BY DEF Init, ControlInv, WorkPcs, BindingPcs, ClearPcs
<1>5. DiskInv
  BY GenFacts DEF Init, DiskInv, Tracked, NoStamps
<1>6. SetupInv /\ WorkInv /\ SaveInv
  BY DEF Init, SetupInv, WorkInv, SaveInv, WorkPcs, BindingPcs, ClearPcs, LoopPcs
<1> QED BY <1>1, <1>2, <1>3, <1>4, <1>5, <1>6 DEF IInv

(* Every step keeps it.                                                    *)
LEMMA InvStep == Disciplined /\ IInv /\ [Next]_vars => IInv'
BY TypeStep, PastStep, OwnStep, ControlStep, DiskStep, SetupStep, WorkStep, SaveStep
DEF IInv

(* In disciplined use the inductive invariant holds: a session and every   *)
(* kill of it keep what is called up to date fresh or findable.            *)
THEOREM Invariance ==
    ASSUME Disciplined
    PROVE  Spec => []IInv
<1>1. IInv /\ [Next]_vars => IInv'
  BY InvStep
<1> QED BY <1>1, InvInit, PTL DEF Spec

(* LibraryContext::clean_generated_files can always find what is missing:  *)
(* whatever is killed and whatever the user removes, a source whose time   *)
(* is recorded has its present code or a file the next session misses.     *)
THEOREM Recoverable ==
    ASSUME Disciplined
    PROVE  Spec => []RecordedIsRecoverable
<1>1. DiskInv => RecordedIsRecoverable
  BY DEF DiskInv, RecordedIsRecoverable, Recorded, Tracked
<1>2. IInv => RecordedIsRecoverable
  BY <1>1 DEF IInv
<1> QED BY <1>2, Invariance, PTL

(* A generate that succeeds leaves the code of every source it was given,  *)
(* of the source as it is (GenerateBindings::generate_bindings).           *)
THEOREM Complete ==
    ASSUME Disciplined
    PROVE  Spec => []SourcesComplete
<1>1. IInv => SourcesComplete
  BY DEF IInv, SaveInv, SourcesComplete, Generated
<1> QED BY <1>1, Invariance, PTL

---------------------------------------------------------------------------
(* The refinement.  What the contract sees of a state:                     *)
Out == [s \in Sources |-> CodeOf(files[Gen(s)])]
Seen == [s \in Sources |-> src[s]]

(* The contract sees a source's file and nothing else of the outputs.      *)
LEMMA OutKept ==
    ASSUME \A s \in Sources : files'[Gen(s)] = files[Gen(s)]
    PROVE  Out' = Out
BY DEF Out, CodeOf

(* Removing files discards code.                                           *)
LEMMA OutRemoved ==
    ASSUME NEW os, Remove(os)
    PROVE  \E S \in SUBSET Sources : Out' = [s \in Sources |-> IF s \in S THEN 0 ELSE Out[s]]
<1> DEFINE S == {s \in Sources : Gen(s) \in os}
<1>1. \A s \in Sources : CodeOf(files[Gen(s)])' = IF s \in S THEN 0 ELSE CodeOf(files[Gen(s)])
  BY GenFacts DEF Remove, CodeOf
<1>2. Out' = [s \in Sources |-> IF s \in S THEN 0 ELSE Out[s]]
  BY <1>1 DEF Out
<1> QED BY <1>2

(* A file with contents is a file.                                         *)
LEMMA ContentThere ==
    ASSUME NEW i \in Inputs, NEW v \in Stamps
    PROVE  [by |-> i, at |-> v, bodies |-> TRUE] # Missing
<1>1. [by |-> i, at |-> v, bodies |-> TRUE] \in Content
  BY DEF Content
<1> QED BY <1>1, MissingAssumption

(* The initial states are the contract's.                                  *)
LEMMA RefinesInit == Init => Contract!Init
<1> SUFFICES ASSUME Init PROVE Contract!Init
  OBVIOUS
<1>1. Seen \in [Sources -> Nat]
  BY BoundsAssumption, GenFacts DEF Init, Seen, Stamps
<1>2. Out = [s \in Sources |-> 0]
  BY GenFacts DEF Init, Out, CodeOf
<1> QED BY <1>1, <1>2 DEF Init, Contract!Init, Seen, Out, Phase

(* Every step is one of the contract's, or changes nothing it sees.        *)
LEMMA RefinesStep ==
    ASSUME Disciplined, IInv, [Next]_vars
    PROVE  [Contract!Next]_(Contract!vars)
<1> USE DEF userVars, records, products, tables, work
<1> TypeOK /\ OwnGenOnly /\ ControlInv /\ WorkInv /\ SaveInv
  BY DEF IInv
<1>a. ASSUME Phase' = Phase, Seen' = Seen, Out' = Out
      PROVE  [Contract!Next]_(Contract!vars)
  BY <1>a DEF Contract!vars, Seen, Out
<1>b. ASSUME Phase' = Phase, Phase # "complete", Seen' = Seen, NEW os, Remove(os)
      PROVE  Contract!Next
  <2>1. \E S \in SUBSET Sources : Out' = [s \in Sources |-> IF s \in S THEN 0 ELSE Out[s]]
    BY <1>b, OutRemoved
  <2> QED BY <1>b, <2>1 DEF Contract!Next, Contract!Discard, Seen, Out
<1>c. ASSUME Phase # "idle", Phase' = "idle", Seen' = Seen, Out' = Out
      PROVE  Contract!Next
  BY <1>c DEF Contract!Next, Contract!Stop, Seen, Out
<1>d. ASSUME src' = src PROVE Seen' = Seen
  BY <1>d DEF Seen
<1>e. ASSUME files' = files PROVE Out' = Out
  BY <1>e, OutKept
<1>1. CASE UNCHANGED vars
  BY <1>a, <1>d, <1>e, <1>1 DEF vars, Phase
<1>2. ASSUME NEW p \in Programs, Start(p) PROVE Contract!Next
  <2>1. Phase = "idle" /\ Phase' = "running" /\ Seen' = Seen /\ Out' = Out
    BY <1>2, <1>d, <1>e DEF Start, Phase
  <2> QED BY <2>1 DEF Contract!Next, Contract!Begin, Seen, Out
<1>3. CASE \/ CleanDone \/ ApplyRegenerate \/ ClearTypesDone \/ ClearGeneratedDone
           \/ ForceDone \/ ScanCheck \/ ScanDone \/ BindStart \/ Bind \/ Parse
           \/ Classes \/ Register \/ SaveTimes
  <2>1. src' = src /\ files' = files
    BY <1>3 DEF CleanDone, ApplyRegenerate, ClearTypesDone, ClearGeneratedDone,
       ForceDone, ScanCheck, ScanDone, BindStart, Bind, Parse, Classes, Register,
       SaveTimes
  <2>2. pc \notin {"idle", "exit"} /\ pc' \notin {"idle", "exit"}
    BY <1>3, DispatchPc DEF CleanDone, ApplyRegenerate, ClearTypesDone,
       ClearGeneratedDone, ForceDone, ScanCheck, ScanDone, BindStart, Bind, Parse,
       Classes, Register, SaveTimes
  <2>3. Phase' = Phase
    BY <2>2 DEF Phase
  <2> QED BY <1>a, <1>d, <1>e, <2>1, <2>3
<1>4. CASE CleanEntry
  <2>1. Phase' = Phase /\ Phase # "complete" /\ Seen' = Seen
    BY <1>4, <1>d DEF CleanEntry, Phase
  <2>2. files' = files \/ \E i \in todo : Remove(generated_from[i])
    BY <1>4 DEF CleanEntry
  <2> QED BY <1>a, <1>b, <1>e, <2>1, <2>2
<1>5. CASE ClearTypeEntry
  <2>1. Phase' = Phase /\ Phase # "complete" /\ Seen' = Seen
    BY <1>5, <1>d DEF ClearTypeEntry, Phase
  <2> QED BY <1>b, <1>5, <2>1 DEF ClearTypeEntry
<1>6. CASE ClearGeneratedEntry
  <2>1. Phase' = Phase /\ Phase # "complete" /\ Seen' = Seen
    BY <1>6, <1>d DEF ClearGeneratedEntry, Phase
  <2>2. files' = files \/ \E o \in GenFiles : Remove({o})
    BY <1>6 DEF ClearGeneratedEntry
  <2> QED BY <1>a, <1>b, <1>e, <2>1, <2>2
<1>7. CASE ForceRegenerate
  <2>1. Phase' = Phase /\ Phase # "complete" /\ Seen' = Seen
    BY <1>7, <1>d DEF ForceRegenerate, Phase
  <2>2. files' = files \/ \E i \in todo : Remove(generated_from[i])
    BY <1>7 DEF ForceRegenerate
  <2> QED BY <1>a, <1>b, <1>e, <2>1, <2>2
<1>8. CASE ScanParse
  <2>1. Phase' = Phase /\ Seen' = Seen
    BY <1>8, <1>d DEF ScanParse, Phase
  <2>2. Out' = Out
    BY <1>8, ScanParseGen, OutKept
  <2> QED BY <1>a, <2>1, <2>2
<1>9. CASE Emit
  <2>1. Phase = "running" /\ Phase' = "running" /\ Seen' = Seen
    BY <1>9, <1>d DEF Emit, Phase
  <2>2. CASE ~Modified(current)
    BY <1>a, <1>e, <1>9, <2>1, <2>2, EmitGen
  <2>3. CASE Modified(current)
    <3>1. current \in Sources /\ src' = src /\ current' = current
      BY <1>9, EmitGen
    <3>2. \A s \in Sources : s # current => files'[Gen(s)] = files[Gen(s)]
      BY <1>9, EmitGen
    <3>3. src[current] # 0
      BY <2>3 DEF Modified
    <3>4. files'[Gen(current)] = [by |-> current, at |-> src[current], bodies |-> TRUE]
      BY <1>9, <2>3, <3>1, EmitGen DEF Done, FreshGen
    <3>5. files'[Gen(current)] # Missing
      BY <3>1, <3>4, ContentThere, GenFacts DEF TypeOK
    <3>6. CodeOf(files[Gen(current)])' = src[current]
      BY <3>1, <3>4, <3>5 DEF CodeOf
    <3>7. Out' = [Out EXCEPT ![current] = Seen[current]]
      BY <3>1, <3>2, <3>6 DEF Out, Seen, CodeOf
    <3>8. Contract!Produce
      BY <2>1, <3>1, <3>3, <3>7 DEF Contract!Produce, Seen, Out
    <3> QED BY <3>8 DEF Contract!Next
  <2> QED BY <2>2, <2>3
<1>10. CASE SaveGeneratedFrom
  <2>1. Phase = "running" /\ Seen' = Seen /\ Out' = Out
    BY <1>10, <1>d, <1>e DEF SaveGeneratedFrom, Phase
  <2>2. CASE program \in Generating
    <3>1. Phase' = "complete"
      BY <1>10, <2>2 DEF SaveGeneratedFrom, Phase
    <3>2. ASSUME NEW s \in Sources, src[s] # 0 PROVE CodeOf(files[Gen(s)]) = src[s]
      <4>1. FreshGen(s) /\ s \in Inputs
        BY <1>10, <2>2, <3>2, GenFacts DEF SaveGeneratedFrom, SaveInv, Present
      <4>2. files[Gen(s)] # Missing
        BY <4>1, ContentThere DEF FreshGen, TypeOK
      <4> QED BY <4>1, <4>2 DEF FreshGen, CodeOf
    <3> QED BY <2>1, <3>1, <3>2 DEF Contract!Next, Contract!Complete, Seen, Out
  <2>3. CASE program \notin Generating
    BY <1>a, <1>10, <2>1, <2>3 DEF SaveGeneratedFrom, Phase
  <2> QED BY <2>2, <2>3
<1>11. CASE Exit \/ Fail \/ Crash
  <2>1. pc # "idle" /\ src' = src /\ files' = files
    BY <1>11 DEF Exit, Fail, Crash
  <2>2. pc' = "idle"
    BY <1>11, GoesIdle
  <2>3. Phase # "idle" /\ Phase' = "idle"
    BY <2>1, <2>2 DEF Phase
  <2> QED BY <1>c, <1>d, <1>e, <2>1, <2>3
<1>12. CASE User
  <2>1. Phase = "idle" /\ Phase' = "idle"
    BY <1>12, UserIdle DEF Phase
  <2>2. ASSUME files' = files, src' \in [Inputs -> Stamps] PROVE Contract!Next
    <3>1. Seen' \in [Sources -> Nat]
      BY <2>2, GenFacts, BoundsAssumption DEF Seen, Stamps
    <3> QED BY <1>e, <2>1, <2>2, <3>1 DEF Contract!Next, Contract!Change, Seen, Out
  <2>3. src' \in [Inputs -> Stamps]
    BY TypeStep DEF TypeOK
  <2>4. ASSUME NEW o \in Outputs, RemoveOutput(o) PROVE Contract!Next
    BY <1>b, <1>d, <2>1, <2>4 DEF RemoveOutput
  <2> QED BY <1>12, UserIdle, <2>2, <2>3, <2>4 DEF Edit, Delete, Install
<1> QED
  BY <1>1, <1>2, <1>3, <1>4, <1>5, <1>6, <1>7, <1>8, <1>9, <1>10, <1>11, <1>12
  DEF Next, Session

(* The tool, used with discipline, keeps the promise of                    *)
(* docs/cli/generate.rst: every behaviour is one of BuildContract.         *)
THEOREM Refinement ==
    ASSUME Disciplined
    PROVE  Spec => ImplementsContract
<1>1. IInv /\ [Next]_vars => [Contract!Next]_(Contract!vars)
  BY RefinesStep
<1> QED BY <1>1, RefinesInit, Invariance, PTL DEF Spec, ImplementsContract, Contract!Spec

=============================================================================
