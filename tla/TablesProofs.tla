---------------------------- MODULE TablesProofs ----------------------------
(***************************************************************************)
(* Theorems about what IncrementalBuild keeps beside the generated files:  *)
(* the parse cache, the registration, the TypeDB and the macros; and about *)
(* what it removes: the orphans, and everything but the types by "clear".  *)
(***************************************************************************)
EXTENDS IncrementalBuildProofs

(* The cache follows the record at the start.                              *)
LEMMA CacheInit == Init => CacheInv
BY GenFacts DEF Init, CacheInv, Cached, NoStamps, BindingPcs, SavePcs

(* The user changes nothing a table knows of: an edited source has a time  *)
(* no table has seen.                                                      *)
LEMMA RecordedUser ==
    ASSUME Disciplined, IInv, User
    PROVE  \A i \in Inputs : Recorded(i)' => Recorded(i) /\ src'[i] = src[i]
<1> SUFFICES ASSUME NEW i \in Inputs, Recorded(i)' PROVE Recorded(i) /\ src'[i] = src[i]
  OBVIOUS
<1>0. /\ TypeOK /\ StampsInThePast /\ last_modified_gocdb' = last_modified_gocdb
  BY UserIdle DEF IInv, records
<1>1. ASSUME NEW j \in Edited, Edit(j) PROVE src'[i] = src[i]
  <2>1. j \in Inputs /\ (j # i => src'[i] = src[i]) /\ (j = i => src'[i] = clock[i] + 1)
    BY <1>0, <1>1, UsageAssumption DEF Edit, TypeOK
  <2>2. last_modified_gocdb[i] \in Nat /\ clock[i] \in Nat /\ last_modified_gocdb[i] <= clock[i]
    BY <1>0, ClockNat, BoundsAssumption DEF TypeOK, Stamps, StampsInThePast
  <2> QED BY <1>0, <2>1, <2>2 DEF Recorded
<1>2. ASSUME NEW d \in Sources, Delete(d) PROVE src'[i] = src[i]
  BY <1>0, <1>2 DEF Delete, Recorded, TypeOK
<1>3. ASSUME NEW o \in Outputs, RemoveOutput(o) PROVE src'[i] = src[i]
  BY <1>3 DEF RemoveOutput, userVars
<1>4. CASE Install
  BY <1>0, <1>4 DEF Install, Recorded
<1> QED BY <1>0, <1>1, <1>2, <1>3, <1>4, UserIdle DEF Recorded

(* Every step keeps it following.                                          *)
LEMMA CacheStep == Disciplined /\ IInv /\ CacheInv /\ [Next]_vars => CacheInv'
<1> SUFFICES ASSUME Disciplined, IInv, CacheInv, [Next]_vars PROVE CacheInv'
  OBVIOUS
<1> USE DEF userVars, records, products, tables, work, BindingPcs, SavePcs
<1> TypeOK /\ ControlInv /\ SetupInv /\ WorkInv
  BY DEF IInv
<1> DEFINE OnDisk(s) == Cached(s, last_modified_gocdb)
           Loaded_(s) == Cached(s, last_modified_times)
           Bound(s) == parsed[s] = src[s] /\ (src[s] # 0 => input_cache[s] = src[s])
<1>1. CASE UNCHANGED vars
  BY <1>1 DEF vars, CacheInv, Cached
<1>2. ASSUME NEW p \in Programs, Start(p) PROVE CacheInv'
  BY <1>2 DEF Start, CacheInv, Cached
<1>3. CASE CleanEntry
  BY <1>3 DEF CleanEntry, CacheInv, Cached
<1>4. CASE CleanDone
  BY <1>4 DEF CleanDone, CacheInv, Cached
<1>5. CASE ApplyRegenerate
  <2>1. pc' \notin BindingPcs \cup SavePcs /\ pc' # "idle"
    BY <1>5, DispatchPc DEF ApplyRegenerate
  <2> QED BY <1>5, <2>1, GenFacts DEF ApplyRegenerate, CacheInv, Cached
<1>6. CASE ClearTypeEntry
  BY <1>6 DEF ClearTypeEntry, CacheInv, Cached
<1>7. CASE ClearTypesDone
  BY <1>7 DEF ClearTypesDone, CacheInv, Cached, SetupInv, ClearPcs, ControlInv, Generating
<1>8. CASE ClearGeneratedEntry
  BY <1>8 DEF ClearGeneratedEntry, CacheInv, Cached
<1>9. CASE ClearGeneratedDone
  <2>1. CASE upgrading
    <3>1. pc' \notin BindingPcs \cup SavePcs /\ last_modified_times' = NoStamps
      BY <1>9, <2>1, DispatchPc DEF ClearGeneratedDone
    <3> QED BY <1>9, <3>1, GenFacts DEF ClearGeneratedDone, CacheInv, Cached, NoStamps
  <2>2. CASE ~upgrading
    <3>1. program \notin Generating /\ out_last_modified_times = last_modified_times
      BY <1>9, <2>2 DEF ClearGeneratedDone, ControlInv, ClearPcs, SetupInv
    <3>2. \A s \in Sources : last_modified_times'[s] \in {last_modified_times[s], 0}
      BY <1>9, GenFacts DEF ClearGeneratedDone, NoStamps
    <3>3. out_last_modified_times' = last_modified_times'
      BY <1>9, <3>1 DEF ClearGeneratedDone
    <3> QED BY <1>9, <2>2, <3>1, <3>2, <3>3 DEF ClearGeneratedDone, CacheInv, Cached
  <2> QED BY <2>1, <2>2
<1>10. CASE ForceRegenerate
  <2> PICK i \in todo : ForceRegenerate!2!(i)
    BY <1>10 DEF ForceRegenerate
  <2>1. \A s \in Sources : last_modified_times'[s] \in {last_modified_times[s], 0}
    BY GenFacts DEF TypeOK
  <2> QED BY <1>10, <2>1 DEF ForceRegenerate, CacheInv, Cached
<1>11. CASE ForceDone
  BY <1>11 DEF ForceDone, CacheInv, Cached
<1>12. CASE ScanCheck
  BY <1>12 DEF ScanCheck, CacheInv, Cached
<1>13. CASE ScanParse
  BY <1>13 DEF ScanParse, CacheInv, Cached
<1>14. CASE ScanDone
  <2>1. pc' = "bind start"
    BY <1>14 DEF ScanDone, ControlInv, WorkPcs, Generating
  <2> QED BY <1>14, <2>1 DEF ScanDone, CacheInv, Cached
<1>15. CASE BindStart
  <2>1. ASSUME NEW s \in Sources PROVE s \in todo' \/ parsed[s] = src[s]
    BY <1>15, GenFacts DEF BindStart, CacheInv, Present
  <2>2. ASSUME NEW s \in Sources, src[s] # 0 PROVE s \in todo'
    BY <1>15, <2>2, GenFacts DEF BindStart, Present
  <2> QED BY <1>15, <2>1, <2>2 DEF BindStart, CacheInv, Cached
<1>16. CASE Bind
  <2> PICK i \in todo : Bind!2!(i)
    BY <1>16 DEF Bind
  <2>1. /\ i \in Sources /\ src[i] # 0 /\ pc = "bind" /\ current' = i
        /\ UNCHANGED <<src, input_cache, last_modified_gocdb, last_modified_times>>
    BY <1>16 DEF Bind, WorkInv, Present
  <2>2. ASSUME NEW s \in Sources, s # i, s \notin todo' PROVE Bound(s)'
    <3>1. Bound(s) /\ parsed'[s] = parsed[s]
      BY <2>1, <2>2 DEF CacheInv, TypeOK
    <3> QED BY <2>1, <3>1
  <2>3. pc' \in {"parse", "classes"} /\ (pc' = "classes" => Bound(i)')
    <3>1. CASE ~Modified(i) /\ input_cache[i] # 0 /\ pc' = "classes"
                /\ parsed' = [parsed EXCEPT ![i] = input_cache[i]]
      <4>1. last_modified_times[i] = src[i]
        BY <2>1, <3>1 DEF Modified
      <4>2. input_cache[i] = src[i]
        BY <2>1, <4>1 DEF CacheInv, Cached
      <4> QED BY <2>1, <3>1, <4>2 DEF TypeOK
    <3> QED BY <3>1
  <2>4. \A s \in Sources : OnDisk(s)' /\ Loaded_(s)'
    BY <2>1 DEF CacheInv, Cached
  <2> QED BY <2>1, <2>2, <2>3, <2>4 DEF CacheInv
<1>17. CASE Parse
  <2>1. current \in Sources /\ src[current] # 0
    BY <1>17 DEF Parse, TypeOK, WorkInv, LoopPcs, Present
  <2>2. Bound(current)'
    BY <1>17, <2>1 DEF Parse, TypeOK
  <2>3. \A s \in Sources : s # current => input_cache'[s] = input_cache[s] /\ parsed'[s] = parsed[s]
    BY <1>17 DEF Parse, TypeOK
  <2>4. \A s \in Sources : OnDisk(s)' /\ Loaded_(s)'
    BY <1>17, <2>2, <2>3 DEF Parse, CacheInv, Cached
  <2> QED BY <1>17, <2>2, <2>3, <2>4 DEF Parse, CacheInv
<1>18. CASE Classes
  BY <1>18 DEF Classes, CacheInv, Cached
<1>19. CASE Emit
  BY <1>19 DEF Emit, CacheInv, Cached
<1>20. CASE Register
  <2>1. \A s \in Sources : Bound(s)
    BY <1>20 DEF Register, CacheInv
  <2> QED BY <1>20, <2>1 DEF Register, CacheInv, Cached
<1>21. CASE SaveTimes
  BY <1>21 DEF SaveTimes, CacheInv, Cached
<1>22. CASE SaveGeneratedFrom
  BY <1>22 DEF SaveGeneratedFrom, CacheInv, Cached
<1>23. CASE Exit
  BY <1>23 DEF Exit, Forget, CacheInv, Cached
<1>24. CASE Fail
  BY <1>24 DEF Fail, Forget, CacheInv, Cached
<1>25. CASE Crash
  <2>1. /\ UNCHANGED <<src, input_cache>> /\ Forget
        /\ last_modified_gocdb' \in {last_modified_gocdb, NoStamps}
    BY <1>25 DEF Crash
  <2>2. \A s \in Sources : OnDisk(s)'
    BY <2>1, GenFacts DEF CacheInv, Cached, NoStamps
  <2> QED BY <2>1, <2>2 DEF Forget, CacheInv
<1>26. CASE User
  <2>1. input_cache' = input_cache /\ parsed' = parsed /\ pc = "idle" /\ pc' = "idle"
    BY <1>26, UserIdle DEF Edit, Delete, RemoveOutput, Install, session
  <2>2. \A s \in Sources : OnDisk(s)'
    BY <1>26, <2>1, RecordedUser, GenFacts DEF Recorded, CacheInv, Cached
  <2> QED BY <2>1, <2>2 DEF CacheInv
<1> QED
  BY <1>1, <1>2, <1>3, <1>4, <1>5, <1>6, <1>7, <1>8, <1>9, <1>10, <1>11, <1>12, <1>13,
     <1>14, <1>15, <1>16, <1>17, <1>18, <1>19, <1>20, <1>21, <1>22, <1>23, <1>24, <1>25,
     <1>26 DEF Next, Session

(* LibraryContext::file_modified may be trusted for the parse cache: a     *)
(* source whose time is recorded has its present content there.            *)
THEOREM CacheFollows ==
    ASSUME Disciplined
    PROVE  Spec => []CacheFollowsRecord
<1>1. IInv /\ CacheInv /\ [Next]_vars => (IInv /\ CacheInv)'
  BY InvStep, CacheStep
<1>2. CacheInv => CacheFollowsRecord
  BY DEF CacheInv, CacheFollowsRecord, Cached, Recorded
<1> QED BY <1>1, <1>2, InvInit, CacheInit, PTL DEF Spec

---------------------------------------------------------------------------
(* Facts about type files: one file per type, none of them a generated     *)
(* file; only content that exists can be parsed.                           *)
LEMMA TypeFacts ==
    ASSUME TypeOK
    PROVE  /\ \A t, u : TypeFile(t) = TypeFile(u) => t = u
           /\ \A t \in Types : TypeFile(t) \in TypeFiles /\ TypeFile(t) \in Outputs
           /\ \A i \in Inputs : Parsable(i) => src[i] # 0 /\ src[i] \in 1 .. MaxStamp
           /\ \A i \in Inputs : src[i] # 0 => TypesOf[i][src[i]] \subseteq Types
           /\ \A i \in Inputs : NoStamps[i] = 0 /\ NoOutputs[i] = {}
<1>1. \A i \in Inputs : src[i] # 0 => src[i] \in 1 .. MaxStamp
  BY BoundsAssumption DEF TypeOK, Stamps
<1>2. \A i \in Inputs : src[i] # 0 => TypesOf[i][src[i]] \subseteq Types
  BY <1>1, TypesAssumption
<1>3. \A i \in Inputs : Parsable(i) => src[i] # 0
  BY DEF Parsable, Judge
<1> QED BY <1>1, <1>2, <1>3 DEF TypeFile, TypeFiles, Outputs, NoStamps, NoOutputs

(* An input's type files are its own.                                      *)
LEMMA NotOthers ==
    ASSUME TypeOK, OneOwner, OwnTypesOnly, NEW i \in Inputs, NEW j \in Inputs, i # j,
           Parsable(j), NEW t \in TypesOf[j][src[j]]
    PROVE  TypeFile(t) \notin generated_from[i] \cup generated_from_gocdb[i]
BY TypeFacts DEF OneOwner, OwnTypesOnly

(* Removing files leaves a type file as it was or removes it.              *)
LEMMA RemoveTypes ==
    ASSUME TypeOK, NEW os, Remove(os), NEW t \in Types
    PROVE  files'[TypeFile(t)] \in {files[TypeFile(t)], Missing}
BY TypeFacts DEF Remove

(* Removing the outputs of one input takes no type of another.             *)
LEMMA RemoveOwnTypes ==
    ASSUME TypeOK, OneOwner, OwnTypesOnly, NEW i \in Inputs, NEW j \in Inputs, i # j,
           Remove(generated_from[i]), Parsable(j), NEW t \in TypesOf[j][src[j]]
    PROVE  files'[TypeFile(t)] = files[TypeFile(t)]
BY NotOthers, TypeFacts DEF Remove

(* A step of ScanParse brings the types of current up to date and leaves   *)
(* those of every other input alone.                                       *)
LEMMA ScanParseTypes ==
    ASSUME TypeOK, OneOwner, ScanParse
    PROVE  /\ TypesDone(current)' /\ UNCHANGED <<src, current, todo>>
           /\ \A i \in Inputs : i # current =>
                /\ generated_from'[i] = generated_from[i]
                /\ Parsable(i) => \A t \in TypesOf[i][src[i]] :
                      files'[TypeFile(t)] = files[TypeFile(t)]
<1> USE DEF userVars, work
<1>1. UNCHANGED <<src, current, todo>> /\ current \in Inputs
  BY DEF ScanParse, TypeOK
<1>2. CASE ~Parsable(current)
  BY <1>1, <1>2 DEF ScanParse, Parsable, TypesDone
<1>3. CASE Parsable(current)
  <2> DEFINE T == TypesOf[current][src[current]]
  <2>1. Write(current, {TypeFile(t) : t \in T},
              [by |-> current, at |-> src[current], bodies |-> TRUE])
    BY <1>3 DEF ScanParse, Parsable
  <2>2. T \subseteq Types
    BY <1>1, <1>3, TypeFacts
  <2>3. TypesDone(current)'
    BY <1>1, <2>1, <2>2, TypeFacts DEF Write, TypeOK, TypesDone, Parsable, FreshType
  <2>4. \A i \in Inputs : i # current => generated_from'[i] = generated_from[i]
    BY <1>1, <2>1 DEF Write, TypeOK
  <2>5. ASSUME NEW i \in Inputs, i # current, Parsable(i), NEW t \in TypesOf[i][src[i]]
        PROVE  files'[TypeFile(t)] = files[TypeFile(t)]
    <3>1. t \in Types /\ t \notin T
      BY <1>1, <1>3, <2>5, TypeFacts DEF OneOwner
    <3>2. TypeFile(t) \notin {TypeFile(u) : u \in T} /\ TypeFile(t) \in Outputs
      BY <3>1, TypeFacts
    <3> QED BY <2>1, <3>2 DEF Write
  <2> QED BY <1>1, <2>3, <2>4, <2>5
<1> QED BY <1>2, <1>3

(* Emit writes no type file and registers none.                            *)
LEMMA EmitTypes ==
    ASSUME TypeOK, Emit, NEW t \in Types
    PROVE  /\ files'[TypeFile(t)] = files[TypeFile(t)]
           /\ \A i \in Inputs : TypeFile(t) \in generated_from'[i] <=>
                                TypeFile(t) \in generated_from[i]
<1>1. CASE ~Modified(current)
  BY <1>1 DEF Emit
<1>2. CASE Modified(current)
  <2>1. Write(current, {Gen(current)},
              [by |-> current, at |-> parsed[current], bodies |-> bodies])
    BY <1>2 DEF Emit
  <2>2. TypeFile(t) \in Outputs /\ TypeFile(t) # Gen(current)
    BY TypeFacts, GenFacts
  <2> QED BY <2>1, <2>2 DEF Write, TypeOK
<1> QED BY <1>1, <1>2

(* No step registers a type file under an input that never declares the    *)
(* type.                                                                   *)
LEMMA OwnTypesStep ==
    Disciplined /\ TypeOK /\ OwnTypesOnly /\ [Next]_vars => OwnTypesOnly'
<1> SUFFICES ASSUME Disciplined, TypeOK, OwnTypesOnly, [Next]_vars PROVE OwnTypesOnly'
  OBVIOUS
<1> USE DEF userVars, records, products, tables, work, session
<1>a. ASSUME \A i \in Inputs : /\ generated_from'[i] \subseteq
                                    generated_from[i] \cup generated_from_gocdb[i]
                               /\ generated_from_gocdb'[i] \subseteq
                                    generated_from[i] \cup generated_from_gocdb[i]
      PROVE  OwnTypesOnly'
  BY <1>a DEF OwnTypesOnly
<1>1. CASE UNCHANGED vars
  BY <1>a, <1>1 DEF vars
<1>2. ASSUME NEW p \in Programs, Start(p) PROVE OwnTypesOnly'
  BY <1>a, <1>2, LoadedType DEF Start, TypeOK
<1>3. CASE CleanEntry
  BY <1>a, <1>3 DEF CleanEntry, TypeOK
<1>4. CASE ApplyRegenerate
  BY <1>a, <1>4 DEF ApplyRegenerate, TypeOK
<1>5. CASE ClearGeneratedDone
  BY <1>a, <1>5 DEF ClearGeneratedDone, NoOutputs
<1>6. CASE ForceRegenerate
  BY <1>a, <1>6 DEF ForceRegenerate, TypeOK
<1>7. CASE ScanParse
  <2>1. CASE Parsable(current)
    <3> DEFINE T == TypesOf[current][src[current]]
    <3>1. Write(current, {TypeFile(t) : t \in T},
                [by |-> current, at |-> src[current], bodies |-> TRUE])
      BY <1>7, <2>1 DEF ScanParse, Parsable
    <3>2. current \in Inputs /\ src[current] \in 1 .. MaxStamp
      BY <2>1, TypeFacts DEF TypeOK
    <3>3. ASSUME NEW i \in Inputs, NEW t \in Types, TypeFile(t) \in generated_from'[i]
          PROVE  TypeFile(t) \in generated_from[i] \/ (i = current /\ t \in T)
      BY <3>1, <3>2, <3>3, TypeFacts DEF Write, TypeOK
    <3>4. generated_from_gocdb' = generated_from_gocdb
      BY <1>7 DEF ScanParse
    <3> QED BY <3>2, <3>3, <3>4 DEF OwnTypesOnly
  <2>2. CASE ~Parsable(current)
    BY <1>a, <1>7, <2>2 DEF ScanParse, Parsable
  <2> QED BY <2>1, <2>2
<1>8. CASE Emit
  BY <1>8, EmitTypes DEF Emit, OwnTypesOnly
<1>9. CASE SaveGeneratedFrom
  BY <1>a, <1>9 DEF SaveGeneratedFrom
<1>10. CASE \/ CleanDone \/ ClearTypeEntry \/ ClearTypesDone \/ ClearGeneratedEntry
            \/ ForceDone \/ ScanCheck \/ ScanDone \/ BindStart \/ Bind \/ Parse
            \/ Classes \/ Register \/ SaveTimes
  <2>1. UNCHANGED <<generated_from, generated_from_gocdb>>
    BY <1>10 DEF CleanDone, ClearTypeEntry, ClearTypesDone, ClearGeneratedEntry,
       ForceDone, ScanCheck, ScanDone, BindStart, Bind, Parse, Classes, Register,
       SaveTimes
  <2> QED BY <1>a, <2>1
<1>11. CASE Exit \/ Fail \/ Crash
  BY <1>a, <1>11 DEF Exit, Fail, Crash, Forget, NoOutputs
<1>12. CASE User
  BY <1>a, <1>12, UserIdle DEF Edit, Delete, RemoveOutput, Install
<1> QED
  BY <1>1, <1>2, <1>3, <1>4, <1>5, <1>6, <1>7, <1>8, <1>9, <1>10, <1>11, <1>12
  DEF Next, Session

(* The type tables are complete at the start.                              *)
LEMMA TypesInit == Init => TypesInv /\ OwnTypesOnly
<1> SUFFICES ASSUME Init PROVE TypesInv /\ OwnTypesOnly
  OBVIOUS
<1>1. \A i \in Inputs : last_modified_gocdb[i] = 0 /\ generated_from[i] = {}
                        /\ generated_from_gocdb[i] = {}
  BY DEF Init, NoStamps, NoOutputs
<1>2. pc = "idle"
  BY DEF Init
<1> QED BY <1>1, <1>2 DEF TypesInv, OwnTypesOnly, TypesTracked, ClearPcs, WorkPcs, ScanPcs,
        BindingPcs, SavePcs

(* Removing outputs leaves what is tracked tracked.                        *)
LEMMA TrackedKept ==
    ASSUME TypeOK, src' = src, NEW i \in Inputs,
           \A t \in Types : files'[TypeFile(t)] \in {files[TypeFile(t)], Missing}
    PROVE  /\ UNCHANGED <<last_modified_gocdb, generated_from_gocdb>>
              /\ TypesTracked(i, last_modified_gocdb, generated_from_gocdb)
              => TypesTracked(i, last_modified_gocdb, generated_from_gocdb)'
           /\ UNCHANGED <<last_modified_times, generated_from>>
              /\ TypesTracked(i, last_modified_times, generated_from)
              => TypesTracked(i, last_modified_times, generated_from)'
<1>1. Parsable(i)' => Parsable(i) /\ \A t \in TypesOf[i][src[i]] :
                        /\ TypesOf[i][src'[i]] = TypesOf[i][src[i]]
                        /\ FreshType(i, t) => FreshType(i, t)' \/ ~Exists(TypeFile(t))'
                        /\ ~Exists(TypeFile(t)) => ~Exists(TypeFile(t))'
  <2> SUFFICES ASSUME Parsable(i)', NEW t \in TypesOf[i][src[i]]
               PROVE  /\ Parsable(i)
                      /\ FreshType(i, t) => FreshType(i, t)' \/ ~Exists(TypeFile(t))'
                      /\ ~Exists(TypeFile(t)) => ~Exists(TypeFile(t))'
    BY DEF Parsable
  <2>1. Parsable(i)
    BY DEF Parsable
  <2>2. t \in Types
    BY <2>1, TypeFacts
  <2> QED BY <2>1, <2>2 DEF FreshType, Exists
<1> QED BY <1>1 DEF TypesTracked

(* Every step keeps them complete.                                         *)
LEMMA TypesStep ==
    Disciplined /\ OneOwner /\ IInv /\ OwnTypesOnly /\ TypesInv /\ [Next]_vars => TypesInv'
<1> SUFFICES ASSUME Disciplined, OneOwner, IInv, OwnTypesOnly, TypesInv, [Next]_vars
             PROVE  TypesInv'
  OBVIOUS
<1> USE DEF userVars, records, products, tables, work, BindingPcs, SavePcs, WorkPcs, ClearPcs,
            ScanPcs
<1> TypeOK /\ ControlInv /\ SetupInv /\ WorkInv
  BY DEF IInv
<1> DEFINE OnDisk(i) == TypesTracked(i, last_modified_gocdb, generated_from_gocdb)
           InSession(i) == TypesTracked(i, last_modified_times, generated_from)
(* A step that touches no output, entry or loaded time.                    *)
<1>a. ASSUME UNCHANGED <<src, files, generated_from, last_modified_times, last_modified_gocdb,
                         generated_from_gocdb>>,
             NEW i \in Inputs
      PROVE  /\ OnDisk(i)' <=> OnDisk(i)
             /\ InSession(i)' <=> InSession(i)
             /\ UNCHANGED out_last_modified_times =>
                  (TypesTracked(i, out_last_modified_times, generated_from)' <=>
                   TypesTracked(i, out_last_modified_times, generated_from))
             /\ TypesFresh(i)' <=> TypesFresh(i)
             /\ TypesDone(i)' <=> TypesDone(i)
  BY <1>a DEF TypesTracked, TypesFresh, TypesDone, FreshType, Exists, Parsable
<1>1. CASE UNCHANGED vars
  <2>1. /\ UNCHANGED <<src, files, generated_from, last_modified_times, last_modified_gocdb,
                       generated_from_gocdb, out_last_modified_times>>
        /\ UNCHANGED <<pc, program, todo, current, regenerate_files>>
    BY <1>1 DEF vars
  <2>2. ASSUME NEW i \in Inputs
        PROVE  /\ OnDisk(i)' <=> OnDisk(i)
               /\ InSession(i)' <=> InSession(i)
               /\ TypesTracked(i, out_last_modified_times, generated_from)' <=>
                  TypesTracked(i, out_last_modified_times, generated_from)
               /\ TypesTracked(i, last_modified_gocdb, generated_from)' <=>
                  TypesTracked(i, last_modified_gocdb, generated_from)
               /\ TypesFresh(i)' <=> TypesFresh(i)
               /\ TypesDone(i)' <=> TypesDone(i)
               /\ Unscanned(i)' <=> Unscanned(i)
    BY <2>1 DEF TypesTracked, TypesFresh, TypesDone, FreshType, Exists, Parsable, Unscanned
  <2> QED BY <2>1, <2>2 DEF TypesInv
<1>2. ASSUME NEW p \in Programs, Start(p) PROVE TypesInv'
  <2>1. generated_from' = generated_from_gocdb
    BY <1>2, LoadedType DEF Start, TypeOK
  <2>2. ASSUME NEW i \in Inputs PROVE OnDisk(i)' /\ InSession(i)'
    BY <1>2, <2>1, <2>2 DEF Start, TypesInv, TypesTracked, FreshType, Exists, Parsable
  <2>3. ASSUME NEW i \in Inputs, src[i] # 0, last_modified_gocdb[i] = src[i], i \notin todo'
        PROVE  TypesFresh(i)'
    <3>1. generated_from_gocdb[i] = {}
      BY <1>2, <2>3 DEF Start
    <3>2. OnDisk(i)
      BY <1>2 DEF Start, TypesInv
    <3> QED BY <1>2, <2>3, <3>1, <3>2 DEF Start, TypesTracked, TypesFresh, Parsable
  <2> QED BY <1>2, <2>2, <2>3 DEF Start, TypesInv
<1>3. CASE CleanEntry
  <2> PICK j \in todo : CleanEntry!2!(j)
    BY <1>3 DEF CleanEntry
  <2>1. /\ UNCHANGED <<src, last_modified_times, last_modified_gocdb, generated_from_gocdb, pc>>
        /\ pc = "clean" /\ j \in Inputs /\ todo' = todo \ {j}
    BY <1>3 DEF CleanEntry, TypeOK
  <2> SUFFICES ASSUME NEW i \in Inputs
               PROVE  /\ OnDisk(i)' /\ InSession(i)'
                      /\ src[i] # 0 /\ last_modified_times[i] = src[i] =>
                            i \in todo' \/ i \in regenerate_files' \/ TypesFresh(i)'
    BY <2>1 DEF TypesInv
  <2>2. /\ OnDisk(i) /\ InSession(i)
        /\ src[i] # 0 /\ last_modified_times[i] = src[i] =>
              i \in todo \/ i \in regenerate_files \/ TypesFresh(i)
    BY <2>1 DEF TypesInv
  <2>3. CASE src[j] = 0
    <3>1. CASE i = j
      BY <2>1, <2>3, <3>1, TypeFacts DEF TypesTracked, Parsable, TypesFresh
    <3>2. CASE i # j
      <4>1. generated_from'[i] = generated_from[i] /\ UNCHANGED regenerate_files
        BY <2>1, <2>3, <3>2 DEF TypeOK
      <4>2. Parsable(i) => \A t \in TypesOf[i][src[i]] : files'[TypeFile(t)] = files[TypeFile(t)]
        BY <2>1, <2>3, <3>2, RemoveOwnTypes
      <4> QED BY <2>1, <2>2, <3>2, <4>1, <4>2
          DEF TypesTracked, TypesFresh, FreshType, Exists, Parsable
    <3> QED BY <3>1, <3>2
  <2>4. CASE src[j] # 0
    <3>1. UNCHANGED <<files, generated_from>> /\ regenerate_files \subseteq regenerate_files'
      BY <2>4
    <3>2. ASSUME i = j, src[i] # 0, last_modified_times[i] = src[i], i \notin regenerate_files'
          PROVE  TypesFresh(i)
      <4>1. ASSUME Parsable(i), NEW t \in TypesOf[i][src[i]]
            PROVE  FreshType(i, t)
        <5>1. TypeFile(t) \in generated_from[i] /\ (FreshType(i, t) \/ ~Exists(TypeFile(t)))
          BY <2>2, <3>2, <4>1 DEF TypesTracked
        <5> QED BY <2>4, <3>2, <5>1
      <4> QED BY <4>1 DEF TypesFresh
    <3> QED BY <2>1, <2>2, <3>1, <3>2 DEF TypesTracked, TypesFresh, FreshType, Exists, Parsable
  <2> QED BY <2>3, <2>4
<1>4. CASE CleanDone
  BY <1>4, <1>a DEF CleanDone, TypesInv
<1>5. CASE ApplyRegenerate
  <2>1. /\ pc' \in {"scan", "force", "bind start", "clear types", "clear generated"}
        /\ UNCHANGED <<src, files, last_modified_gocdb, generated_from_gocdb>>
    BY <1>5, DispatchPc DEF ApplyRegenerate
  <2>2. pc' = "scan" => todo' = Present
    BY <1>5 DEF ApplyRegenerate, Dispatch, FirstPc, FirstTodo, AllPrograms, TypeOK
  <2>3. pc' # "bind start"
    BY <1>5, DispatchControl DEF ApplyRegenerate, ControlInv
  <2> SUFFICES ASSUME NEW i \in Inputs
               PROVE  /\ OnDisk(i)' /\ InSession(i)'
                      /\ pc' \in WorkPcs /\ src[i] # 0 /\ last_modified_times'[i] = src[i]
                            => TypesDone(i)'
    BY <2>1, <2>2, <2>3 DEF TypesInv, Present, Unscanned
  <2>4. OnDisk(i) /\ InSession(i)
    BY <1>5 DEF ApplyRegenerate, TypesInv
  <2>5. ASSUME src[i] # 0, last_modified_times'[i] = src[i]
        PROVE  TypesDone(i)' /\ generated_from'[i] = generated_from[i]
    <3>1. /\ i \notin regenerate_files /\ last_modified_times[i] = src[i]
          /\ generated_from'[i] = generated_from[i]
      BY <1>5, <2>5 DEF ApplyRegenerate
    <3>2. TypesFresh(i)
      BY <1>5, <2>5, <3>1 DEF ApplyRegenerate, SetupInv, TypesInv
    <3> QED BY <2>1, <2>4, <2>5, <3>1, <3>2
        DEF TypesTracked, TypesFresh, TypesDone, FreshType, Parsable
  <2> QED BY <2>1, <2>4, <2>5 DEF TypesTracked, TypesDone, FreshType, Exists, Parsable
<1>6. CASE ClearTypeEntry
  <2>1. \A t \in Types : files'[TypeFile(t)] \in {files[TypeFile(t)], Missing}
    BY <1>6, RemoveTypes DEF ClearTypeEntry
  <2>2. \A i \in Inputs : OnDisk(i)' /\ InSession(i)'
    BY <1>6, <2>1, TrackedKept DEF ClearTypeEntry, TypesInv
  <2> QED BY <1>6, <2>2 DEF ClearTypeEntry, TypesInv
<1>7. CASE ClearTypesDone
  <2>1. out_last_modified_times = last_modified_times /\ UNCHANGED out_last_modified_times
    BY <1>7 DEF ClearTypesDone, SetupInv
  <2>2. pc' = "save times" => program \notin Generating
    BY <1>7 DEF ClearTypesDone, ControlInv, Generating
  <2> QED BY <1>7, <1>a, <2>1, <2>2 DEF ClearTypesDone, TypesInv, TypesTracked
<1>8. CASE ClearGeneratedEntry
  <2>1. \A t \in Types : files'[TypeFile(t)] \in {files[TypeFile(t)], Missing}
    BY <1>8, RemoveTypes DEF ClearGeneratedEntry
  <2>2. \A i \in Inputs : OnDisk(i)' /\ InSession(i)'
    BY <1>8, <2>1, TrackedKept DEF ClearGeneratedEntry, TypesInv
  <2> QED BY <1>8, <2>2 DEF ClearGeneratedEntry, TypesInv
<1>9. CASE ClearGeneratedDone
  <2>1. CASE upgrading
    <3>1. /\ pc' \in {"scan", "force", "bind start", "clear types", "clear generated"}
          /\ last_modified_times' = NoStamps
          /\ UNCHANGED <<src, files, last_modified_gocdb, generated_from_gocdb>>
      BY <1>9, <2>1, DispatchPc DEF ClearGeneratedDone
    <3>2. pc' = "scan" => todo' = Present
      BY <1>9, <2>1 DEF ClearGeneratedDone, Dispatch, FirstPc, FirstTodo, AllPrograms, TypeOK
    <3>3. pc' # "bind start"
      BY <1>9, <2>1, DispatchControl DEF ClearGeneratedDone, ControlInv
    <3>4. ASSUME NEW i \in Inputs PROVE OnDisk(i)' /\ InSession(i)'
      <4>1. OnDisk(i) /\ last_modified_times'[i] = 0
        BY <1>9, <3>1, TypeFacts DEF ClearGeneratedDone, TypesInv
      <4> QED BY <3>1, <4>1 DEF TypesTracked, FreshType, Exists, Parsable
    <3> QED BY <3>1, <3>2, <3>3, <3>4, TypeFacts DEF TypesInv, Present, Unscanned
  <2>2. CASE ~upgrading
    <3>1. /\ pc' = "save times" /\ program \notin Generating
          /\ UNCHANGED <<src, files, program, last_modified_gocdb, generated_from_gocdb>>
      BY <1>9, <2>2 DEF ClearGeneratedDone, ControlInv
    <3>2. \/ out_last_modified_times' = NoStamps
          \/ /\ out_last_modified_times' = last_modified_times
             /\ generated_from' = generated_from
      BY <1>9, <2>2 DEF ClearGeneratedDone, SetupInv
    <3>3. \A i \in Inputs : OnDisk(i) /\ InSession(i)
      BY <1>9 DEF ClearGeneratedDone, TypesInv
    <3>4. ASSUME NEW i \in Inputs
          PROVE  OnDisk(i)' /\ TypesTracked(i, out_last_modified_times, generated_from)'
      <4>1. OnDisk(i) /\ InSession(i)
        BY <3>3
      <4>2. CASE out_last_modified_times' = NoStamps
        BY <3>1, <4>1, <4>2, TypeFacts DEF TypesTracked, FreshType, Exists, Parsable
      <4>3. CASE /\ out_last_modified_times' = last_modified_times
                 /\ generated_from' = generated_from
        BY <3>1, <4>1, <4>3 DEF TypesTracked, FreshType, Exists, Parsable
      <4> QED BY <3>2, <4>2, <4>3
    <3> QED BY <3>1, <3>4 DEF TypesInv
  <2> QED BY <2>1, <2>2
<1>10. CASE ForceRegenerate
  <2> PICK j \in todo : ForceRegenerate!2!(j)
    BY <1>10 DEF ForceRegenerate
  <2>1. /\ UNCHANGED <<src, last_modified_gocdb, generated_from_gocdb>>
        /\ pc = "force" /\ pc' = "force" /\ j \in Inputs
    BY <1>10 DEF ForceRegenerate, TypeOK
  <2> SUFFICES ASSUME NEW i \in Inputs
               PROVE  /\ OnDisk(i)'
                      /\ src[i] # 0 /\ last_modified_times'[i] = src[i] => TypesDone(i)'
    BY <2>1 DEF TypesInv
  <2>2. OnDisk(i)'
    <3>1. UNCHANGED files \/ Remove(generated_from[j])
      OBVIOUS
    <3>2. \A t \in Types : files'[TypeFile(t)] \in {files[TypeFile(t)], Missing}
      BY <3>1, RemoveTypes
    <3> QED BY <2>1, <3>2, TrackedKept DEF TypesInv
  <2>3. ASSUME src[i] # 0, last_modified_times'[i] = src[i] PROVE TypesDone(i)'
    <3>1. /\ last_modified_times[i] = src[i] /\ generated_from'[i] = generated_from[i]
          /\ j \in ForcedKeys => i # j
      BY <2>1, <2>3 DEF TypeOK
    <3>2. TypesDone(i)
      BY <2>1, <2>3, <3>1 DEF TypesInv
    <3>3. Parsable(i) => \A t \in TypesOf[i][src[i]] : files'[TypeFile(t)] = files[TypeFile(t)]
      <4>1. CASE j \in ForcedKeys
        BY <2>1, <3>1, <4>1, RemoveOwnTypes
      <4>2. CASE j \notin ForcedKeys
        BY <4>2
      <4> QED BY <4>1, <4>2
    <3> QED BY <2>1, <3>1, <3>2, <3>3 DEF TypesDone, FreshType, Parsable
  <2> QED BY <2>2, <2>3
<1>11. CASE ForceDone
  BY <1>11, <1>a DEF ForceDone, TypesInv, Present, Unscanned
<1>12. CASE ScanCheck
  <2> PICK j \in todo : ScanCheck!2!(j)
    BY <1>12 DEF ScanCheck
  <2>1. /\ UNCHANGED <<src, files, generated_from, last_modified_times, last_modified_gocdb,
                       generated_from_gocdb>>
        /\ pc = "scan" /\ todo' = todo \ {j}
        /\ \/ pc' = "scan parse" /\ current' = j
           \/ pc' = "scan" /\ ~Modified(j)
    BY <1>12 DEF ScanCheck
  <2>2. ASSUME NEW i \in Inputs, src[i] # 0 PROVE Unscanned(i)' \/ TypesDone(i)
    <3>1. i \in todo \/ TypesDone(i)
      BY <2>1, <2>2 DEF TypesInv, Unscanned
    <3>2. i = j /\ ~Modified(j) => TypesDone(i)
      BY <2>1, <2>2 DEF TypesInv, Modified
    <3> QED BY <2>1, <3>1, <3>2 DEF Unscanned
  <2> QED BY <1>a, <2>1, <2>2 DEF TypesInv
<1>13. CASE ScanParse
  <2>1. /\ UNCHANGED <<last_modified_times, last_modified_gocdb, generated_from_gocdb>>
        /\ pc = "scan parse" /\ pc' = "scan"
    BY <1>13 DEF ScanParse
  <2> SUFFICES ASSUME NEW i \in Inputs
               PROVE  /\ OnDisk(i)'
                      /\ TypesDone(i) \/ i = current => TypesDone(i)'
    BY <2>1, ScanParseTypes, <1>13 DEF TypesInv, Unscanned
  <2>2. OnDisk(i)
    BY <2>1 DEF TypesInv
  <2>3. CASE i = current
    <3>1. TypesDone(i)'
      BY <1>13, <2>3, ScanParseTypes DEF TypesDone, FreshType, Parsable
    <3> QED BY <1>13, <2>1, <2>2, <3>1, ScanParseTypes DEF TypesTracked, TypesDone, Parsable
  <2>4. CASE i # current
    BY <1>13, <2>1, <2>2, <2>4, ScanParseTypes
    DEF TypesTracked, TypesDone, FreshType, Exists, Parsable
  <2> QED BY <2>3, <2>4
<1>14. CASE ScanDone
  <2>1. pc' = "bind start"
    BY <1>14 DEF ScanDone, ControlInv, Generating
  <2> QED BY <1>14, <1>a, <2>1 DEF ScanDone, TypesInv, Unscanned
<1>15. CASE BindStart
  BY <1>15, <1>a DEF BindStart, TypesInv
<1>16. CASE Bind
  BY <1>16, <1>a DEF Bind, TypesInv
<1>17. CASE Parse
  BY <1>17, <1>a DEF Parse, TypesInv
<1>18. CASE Classes
  BY <1>18, <1>a DEF Classes, TypesInv
<1>19. CASE Emit
  <2>1. /\ UNCHANGED <<src, last_modified_times, last_modified_gocdb, generated_from_gocdb>>
        /\ pc = "emit" /\ pc' = "bind"
    BY <1>19 DEF Emit
  <2> SUFFICES ASSUME NEW i \in Inputs
               PROVE  OnDisk(i)' /\ (TypesDone(i) => TypesDone(i)')
    BY <2>1 DEF TypesInv
  <2>2. OnDisk(i)'
    BY <1>19, <2>1, EmitTypes, TrackedKept DEF TypesInv
  <2>3. ASSUME TypesDone(i), Parsable(i)', NEW t \in TypesOf[i][src[i]]
        PROVE  FreshType(i, t)' /\ TypeFile(t) \in generated_from'[i]
    <3>1. t \in Types /\ Parsable(i)
      BY <2>1, <2>3, TypeFacts DEF Parsable
    <3> QED BY <1>19, <2>1, <2>3, <3>1, EmitTypes DEF TypesDone, FreshType
  <2> QED BY <2>1, <2>2, <2>3 DEF TypesDone
<1>20. CASE Register
  <2>1. \A i \in Inputs : src[i] # 0 => TypesDone(i)
    BY <1>20 DEF Register, TypesInv
  <2>2. \A i \in Inputs : TypesFresh(i)' /\ TypesTracked(i, out_last_modified_times, generated_from)'
    BY <1>20, <2>1, TypeFacts
    DEF Register, TypesTracked, TypesFresh, TypesDone, FreshType, Exists, Parsable
  <2> QED BY <1>20, <1>a, <2>2 DEF Register, TypesInv
<1>21. CASE SaveTimes
  <2>1. ASSUME NEW i \in Inputs
        PROVE  /\ TypesTracked(i, last_modified_gocdb, generated_from)'
               /\ TypesFresh(i) => TypesFresh(i)'
    <3>1. TypesTracked(i, out_last_modified_times, generated_from)
      BY <1>21 DEF SaveTimes, TypesInv
    <3> QED BY <1>21, <3>1
        DEF SaveTimes, TypesTracked, TypesFresh, FreshType, Exists, Parsable
  <2> QED BY <1>21, <2>1 DEF SaveTimes, TypesInv
<1>22. CASE SaveGeneratedFrom
  <2>1. ASSUME NEW i \in Inputs PROVE OnDisk(i)' /\ (TypesFresh(i) => TypesFresh(i)')
    <3>1. TypesTracked(i, last_modified_gocdb, generated_from)
      BY <1>22 DEF SaveGeneratedFrom, TypesInv
    <3> QED BY <1>22, <3>1
        DEF SaveGeneratedFrom, TypesTracked, TypesFresh, FreshType, Exists, Parsable
  <2> QED BY <1>22, <2>1 DEF SaveGeneratedFrom, TypesInv
<1>23. CASE Exit \/ Fail \/ Crash
  <2>1. /\ UNCHANGED <<src, files, generated_from_gocdb>> /\ pc' = "idle"
        /\ pc # "save generated_from"
        /\ last_modified_gocdb' \in {last_modified_gocdb, NoStamps}
    BY <1>23 DEF Exit, Fail, Crash, Forget, Disciplined
  <2>2. ASSUME NEW i \in Inputs PROVE OnDisk(i)'
    <3>1. OnDisk(i) /\ last_modified_gocdb'[i] \in {last_modified_gocdb[i], 0}
      BY <2>1, TypeFacts DEF TypesInv
    <3> QED BY <2>1, <3>1 DEF TypesTracked, FreshType, Exists, Parsable
  <2> QED BY <2>1, <2>2 DEF TypesInv
<1>24. CASE User
  <2>1. /\ pc = "idle" /\ pc' = "idle"
        /\ UNCHANGED <<last_modified_gocdb, generated_from_gocdb>>
    BY <1>24, UserIdle
  <2>2. \A t \in Types : files'[TypeFile(t)] \in {files[TypeFile(t)], Missing}
    BY <1>24, UserIdle, RemoveTypes DEF Edit, Delete, RemoveOutput, Install
  <2>3. ASSUME NEW i \in Inputs PROVE OnDisk(i)'
    <3>1. OnDisk(i) /\ (Recorded(i)' => Recorded(i) /\ src'[i] = src[i])
      BY <1>24, <2>1, RecordedUser DEF TypesInv
    <3>2. ASSUME Recorded(i), src'[i] = src[i], Parsable(i), NEW t \in TypesOf[i][src[i]]
          PROVE  /\ TypeFile(t) \in generated_from_gocdb[i]
                 /\ FreshType(i, t)' \/ ~Exists(TypeFile(t))'
      <4>1. t \in Types
        BY <3>2, TypeFacts
      <4> QED BY <2>2, <3>1, <3>2, <4>1 DEF TypesTracked, FreshType, Exists, Recorded
    <3> QED BY <2>1, <3>1, <3>2 DEF TypesTracked, Recorded, Parsable
  <2> QED BY <2>1, <2>3 DEF TypesInv
<1> QED
  BY <1>1, <1>2, <1>3, <1>4, <1>5, <1>6, <1>7, <1>8, <1>9, <1>10, <1>11, <1>12, <1>13,
     <1>14, <1>15, <1>16, <1>17, <1>18, <1>19, <1>20, <1>21, <1>22, <1>23, <1>24
  DEF Next, Session

---------------------------------------------------------------------------
(* What a scan would skip is complete at the start.                        *)
LEMMA SkipInit == Init => SkipInv
BY DEF Init, SkipInv, ScanPcs

(* An output once lost stays lost until its input is built again.          *)
LEMMA LostKept ==
    ASSUME TypeOK, UNCHANGED generated_from_gocdb, NEW i \in Inputs, Lost(i),
           files' = files \/ \E os : Remove(os)
    PROVE  Lost(i)'
BY DEF Lost, Remove, Exists, TypeOK

(* Every step keeps it complete.                                           *)
LEMMA SkipStep ==
    Disciplined /\ OneOwner /\ GodotApi /\ IInv /\ OwnTypesOnly /\ TypesInv /\ SkipInv
        /\ [Next]_vars => SkipInv'
<1> SUFFICES ASSUME Disciplined, OneOwner, GodotApi, IInv, OwnTypesOnly, TypesInv, SkipInv,
                    [Next]_vars
             PROVE  SkipInv'
  OBVIOUS
<1> USE DEF userVars, records, products, tables, work, ScanPcs
<1> TypeOK /\ ControlInv /\ SetupInv /\ DiskInv
  BY DEF IInv
<1>1. CASE UNCHANGED vars
  BY <1>1 DEF vars, SkipInv, Lost, Exists, Recorded, Unscanned, Modified
<1>2. ASSUME NEW p \in Programs, Start(p) PROVE SkipInv'
  <2>1. generated_from' = generated_from_gocdb
    BY <1>2, LoadedType DEF Start, TypeOK
  <2> QED BY <1>2, <2>1 DEF Start, SkipInv
<1>3. CASE CleanEntry
  <2> PICK j \in todo : CleanEntry!2!(j)
    BY <1>3 DEF CleanEntry
  <2>1. /\ UNCHANGED <<src, last_modified_times, last_modified_gocdb, generated_from_gocdb,
                       pc, upgrading>>
        /\ pc = "clean" /\ j \in Inputs
        /\ files' = files \/ Remove(generated_from[j])
    BY <1>3 DEF CleanEntry, TypeOK
  <2>2. ASSUME NEW i \in Inputs, src[i] # 0
        PROVE  generated_from'[i] \subseteq generated_from_gocdb[i]
    BY <2>1, <2>2 DEF SkipInv, TypeOK
  <2>3. ASSUME NEW i \in Inputs, i \in regenerate_files' PROVE Lost(i)'
    <3>1. CASE i \in regenerate_files
      BY <2>1, <3>1, LostKept DEF SkipInv
    <3>2. CASE i \notin regenerate_files
      <4>1. i = j /\ src[j] # 0 /\ \E o \in generated_from[j] : ~Exists(o)
        BY <2>3, <3>2
      <4>2. generated_from[j] \subseteq generated_from_gocdb[j] /\ files' = files
        BY <2>1, <4>1 DEF SkipInv
      <4> QED BY <2>1, <4>1, <4>2 DEF Lost, Exists
    <3> QED BY <3>1, <3>2
  <2> QED BY <2>1, <2>2, <2>3 DEF SkipInv
<1>4. CASE CleanDone
  BY <1>4 DEF CleanDone, SkipInv, Lost, Exists
<1>5. CASE ApplyRegenerate
  <2>1. /\ pc' \in {"scan", "force", "bind start", "clear types", "clear generated"}
        /\ regenerate_files' = {} /\ program' = program
        /\ UNCHANGED <<src, files, last_modified_gocdb, generated_from_gocdb>>
    BY <1>5, DispatchPc DEF ApplyRegenerate
  <2>2. pc' = "force" => program = "regenerate"
    BY <1>5 DEF ApplyRegenerate, Dispatch, FirstPc, AllPrograms, TypeOK
  <2>3. pc' = "clear generated" => ~upgrading'
    BY <1>5 DEF ApplyRegenerate, ControlInv, ClearPcs
  <2>4. ASSUME NEW i \in Inputs, Recorded(i), last_modified_times'[i] # src[i] PROVE Lost(i)'
    <3>1. i \in regenerate_files
      BY <1>5, <2>4 DEF ApplyRegenerate, SkipInv, Recorded
    <3> QED BY <1>5, <2>1, <3>1 DEF ApplyRegenerate, SkipInv, Lost, Exists
  <2> QED BY <2>1, <2>2, <2>3, <2>4 DEF SkipInv, Recorded
<1>6. CASE ClearTypeEntry
  BY <1>6 DEF ClearTypeEntry, SkipInv
<1>7. CASE ClearTypesDone
  BY <1>7 DEF ClearTypesDone, SkipInv, Exists
<1>8. CASE ClearGeneratedEntry
  <2>1. \A o \in TypeFiles : files[o] = Missing => files'[o] = Missing
    BY <1>8 DEF ClearGeneratedEntry, Remove, Outputs
  <2> QED BY <1>8, <2>1 DEF ClearGeneratedEntry, SkipInv, Exists
<1>9. CASE ClearGeneratedDone
  <2>1. CASE ~upgrading
    BY <1>9, <2>1 DEF ClearGeneratedDone, SkipInv
  <2>2. CASE upgrading
    <3>1. /\ pc' \in {"scan", "force", "bind start", "clear types", "clear generated"}
          /\ program' = program /\ upgrading' = FALSE
          /\ UNCHANGED <<src, files, regenerate_files, last_modified_gocdb,
                         generated_from_gocdb>>
      BY <1>9, <2>2, DispatchPc DEF ClearGeneratedDone
    <3>2. pc' = "force" => program = "regenerate"
      BY <1>9, <2>2 DEF ClearGeneratedDone, Dispatch, FirstPc, AllPrograms, TypeOK
    <3>3. \A o \in GenFiles \cup TypeFiles : ~Exists(o)
      BY <1>9, <2>2 DEF ClearGeneratedDone, SkipInv
    <3>4. ASSUME NEW i \in Inputs, Recorded(i) PROVE Lost(i)'
      <4>1. CASE i \in Sources
        <5>1. Gen(i) \in generated_from_gocdb[i] /\ Gen(i) \in GenFiles
          BY <1>9, <3>4, <4>1, GenFacts DEF ClearGeneratedDone, DiskInv, Tracked, Recorded
        <5> QED BY <3>1, <3>3, <5>1 DEF Lost, Exists
      <4>2. CASE i = Api
        <5>1. src[i] \in 1 .. MaxStamp /\ src[i] # 0
          BY <3>4, BoundsAssumption DEF Recorded, TypeOK, Stamps
        <5>2. Parsable(i) /\ TypesOf[i][src[i]] # {}
          BY <4>2, <5>1 DEF GodotApi, Parsable, Judge
        <5>3. PICK t \in TypesOf[i][src[i]] : TypeFile(t) \in generated_from_gocdb[i]
          BY <1>9, <3>4, <5>2 DEF ClearGeneratedDone, TypesInv, TypesTracked, Recorded
        <5>4. TypeFile(t) \in TypeFiles
          BY <5>1, <5>2, <5>3, TypeFacts
        <5> QED BY <3>1, <3>3, <5>3, <5>4 DEF Lost, Exists
      <4> QED BY <4>1, <4>2 DEF Inputs
    <3> QED BY <1>9, <3>1, <3>2, <3>4 DEF ClearGeneratedDone, SkipInv, Recorded
  <2> QED BY <2>1, <2>2
<1>10. CASE ForceRegenerate
  BY <1>10 DEF ForceRegenerate, SkipInv
<1>11. CASE ForceDone
  BY <1>11 DEF ForceDone, SkipInv
<1>12. CASE ScanCheck
  <2> PICK j \in todo : ScanCheck!2!(j)
    BY <1>12 DEF ScanCheck
  <2>1. /\ UNCHANGED <<src, files, program, upgrading, regenerate_files, last_modified_times,
                       last_modified_gocdb, generated_from_gocdb>>
        /\ pc = "scan" /\ pc' \in {"scan", "scan parse"} /\ todo' = todo \ {j}
        /\ pc' = "scan parse" => current' = j /\ Modified(j)
    BY <1>12 DEF ScanCheck
  <2>2. \A i \in Inputs : Unscanned(i)' => Unscanned(i)
    BY <2>1 DEF Unscanned
  <2> QED BY <2>1, <2>2 DEF SkipInv, Lost, Exists, Recorded, Modified
<1>13. CASE ScanParse
  <2>1. /\ UNCHANGED <<src, program, upgrading, regenerate_files, last_modified_times,
                       last_modified_gocdb, generated_from_gocdb, todo>>
        /\ pc = "scan parse" /\ pc' = "scan"
    BY <1>13 DEF ScanParse
  <2>2. ASSUME NEW i \in Inputs, i # current, Lost(i) PROVE Lost(i)'
    <3>1. PICK o \in generated_from_gocdb[i] : ~Exists(o)
      BY <2>2 DEF Lost
    <3>2. CASE ~Parsable(current)
      BY <1>13, <2>1, <3>1, <3>2 DEF ScanParse, Parsable, Lost, Exists
    <3>3. CASE Parsable(current)
      <4> DEFINE T == TypesOf[current][src[current]]
      <4>1. Write(current, {TypeFile(t) : t \in T},
                  [by |-> current, at |-> src[current], bodies |-> TRUE])
        BY <1>13, <3>3 DEF ScanParse, Parsable
      <4>2. o \notin {TypeFile(t) : t \in T}
        BY <2>2, <3>1, <3>3, NotOthers DEF TypeOK
      <4>3. ~Exists(o)'
        BY <3>1, <4>1, <4>2 DEF Write, Exists, TypeOK
      <4> QED BY <2>1, <3>1, <4>3 DEF Lost
    <3> QED BY <3>2, <3>3
  <2> QED BY <2>1, <2>2 DEF SkipInv, Unscanned, Recorded
<1>14. CASE \/ ScanDone \/ BindStart \/ Bind \/ Parse \/ Classes \/ Emit \/ Register
            \/ SaveTimes \/ SaveGeneratedFrom
  BY <1>14 DEF ScanDone, BindStart, Bind, Parse, Classes, Emit, Register, SaveTimes,
     SaveGeneratedFrom, SkipInv
<1>15. CASE Exit \/ Fail \/ Crash
  BY <1>15 DEF Exit, Fail, Crash, Forget, SkipInv
<1>16. CASE User
  <2>1. pc' = "idle" /\ regenerate_files' = regenerate_files /\ pc = "idle"
    BY <1>16, UserIdle DEF Edit, Delete, RemoveOutput, Install, session
  <2> QED BY <2>1 DEF SkipInv
<1> QED
  BY <1>1, <1>2, <1>3, <1>4, <1>5, <1>6, <1>7, <1>8, <1>9, <1>10, <1>11, <1>12, <1>13,
     <1>14, <1>15, <1>16 DEF Next, Session

---------------------------------------------------------------------------
(* What a session leaves on disk is enough for the next, whatever is       *)
(* removed and killed between: the inductive invariant of disciplined use  *)
(* over all the tables of the goc directory.                               *)
THEOREM WholeInvariance ==
    ASSUME Disciplined, OneOwner, GodotApi
    PROVE  Spec => []WholeInv
<1>1. Init => WholeInv
  BY InvInit, CacheInit, TypesInit, SkipInit DEF WholeInv
<1>2. WholeInv /\ [Next]_vars => WholeInv'
  BY InvStep, CacheStep, OwnTypesStep, TypesStep, SkipStep DEF WholeInv, IInv
<1> QED BY <1>1, <1>2, PTL DEF Spec

(* A generate that succeeds registers the classes of the sources as they   *)
(* are and leaves every declared type in the TypeDB                        *)
(* (GenerateBindings::generate_register_types, TypeDB::save_type_data).    *)
THEOREM TablesFollow ==
    ASSUME Disciplined, OneOwner
    PROVE  Spec => []TablesComplete
<1> DEFINE I == IInv /\ CacheInv /\ OwnTypesOnly /\ TypesInv
<1>1. I /\ [Next]_vars => I'
  BY InvStep, CacheStep, OwnTypesStep, TypesStep DEF IInv
<1>2. Init => I
  BY InvInit, CacheInit, TypesInit
<1>3. I => TablesComplete
  BY DEF CacheInv, TypesInv, TablesComplete, RegistrationComplete, TypesComplete, Generated,
     SavePcs, TypesFresh, Parsable, Present
<1> QED BY <1>1, <1>2, <1>3, PTL DEF Spec

(* GenerateTypeDB::generate_from_file parses again only what has lost an   *)
(* output since it was recorded.                                           *)
THEOREM Skipped ==
    ASSUME Disciplined, OneOwner, GodotApi
    PROVE  Spec => []RecordedIsSkipped
<1>1. WholeInv => RecordedIsSkipped
  <2> SUFFICES ASSUME WholeInv, pc = "scan parse", program = "generate", Recorded(current)
               PROVE  Lost(current)
    BY DEF RecordedIsSkipped, Lost
  <2>1. current \in Inputs /\ Unscanned(current)
    BY DEF WholeInv, IInv, TypeOK, Unscanned
  <2> QED BY <2>1 DEF WholeInv, SkipInv, ScanPcs, Modified
<1> QED BY <1>1, WholeInvariance, PTL

---------------------------------------------------------------------------
(* The file cut short by a crash is an output of its own.                  *)
LEMMA TruncatedFacts ==
    /\ Truncated \in Outputs
    /\ \A t : Truncated # TypeFile(t)
    /\ \A s : Truncated # Gen(s)
    /\ Outputs = GenFiles \cup TypeFiles \cup {Truncated}
BY DEF Truncated, TypeFile, Gen, Outputs

(* What is missing stays missing when outputs are removed.                 *)
LEMMA MissingKept ==
    ASSUME files' = files \/ \E os : Remove(os), NEW o \in Outputs, ~Exists(o)
    PROVE  ~Exists(o)'
BY DEF Remove, Exists

(* The program of "clear" starts with the types.                           *)
LEMMA DispatchClear ==
    ASSUME Dispatch("clear")
    PROVE  pc' = "clear types"
BY DEF Dispatch, FirstPc, AllPrograms

(* A clear removes what its program is there to remove, file after file.   *)
LEMMA ClearStep == TypeOK /\ ClearInv /\ [Next]_vars => ClearInv'
<1> SUFFICES ASSUME TypeOK, ClearInv, [Next]_vars PROVE ClearInv'
  OBVIOUS
<1> USE DEF userVars, records, products, tables, work, session, WorkPcs, BindingPcs, SavePcs
(* A step of another program.                                              *)
<1>a. ASSUME program' # "clear", files' = files \/ \E os : Remove(os) PROVE ClearInv'
  BY <1>a, MissingKept, TruncatedFacts DEF ClearInv
<1>1. CASE UNCHANGED vars
  BY <1>1 DEF vars, ClearInv, Exists
<1>2. ASSUME NEW p \in Programs, Start(p) PROVE ClearInv'
  BY <1>2 DEF Start, ClearInv, Exists
<1>3. CASE CleanEntry
  <2>1. files' = files \/ \E os : Remove(os)
    BY <1>3 DEF CleanEntry
  <2> QED BY <1>3, <2>1, MissingKept, TruncatedFacts DEF CleanEntry, ClearInv
<1>4. CASE CleanDone
  BY <1>4 DEF CleanDone, ClearInv, Exists
<1>5. CASE ApplyRegenerate
  <2>1. program = "clear" => pc' = "clear types"
    BY <1>5, DispatchClear DEF ApplyRegenerate
  <2> QED BY <1>5, <2>1 DEF ApplyRegenerate, ClearInv, Exists
<1>6. CASE ClearTypeEntry
  <2>1. \E os : Remove(os)
    BY <1>6 DEF ClearTypeEntry
  <2> QED BY <1>6, <2>1, MissingKept, TruncatedFacts DEF ClearTypeEntry, ClearInv
<1>7. CASE ClearTypesDone
  BY <1>7 DEF ClearTypesDone, ClearInv, Exists
<1>8. CASE ClearGeneratedEntry
  <2>1. files' = files \/ \E os : Remove(os)
    BY <1>8 DEF ClearGeneratedEntry
  <2>2. \A o \in TypeFiles : ~Exists(o) => ~Exists(o)'
    BY <2>1, MissingKept, TruncatedFacts
  <2>3. ~Exists(Truncated)'
    BY <2>1, MissingKept, TruncatedFacts DEF ClearInv
  <2> QED BY <1>8, <2>2, <2>3 DEF ClearGeneratedEntry, ClearInv
<1>9. CASE ClearGeneratedDone
  <2>1. files' = files /\ program' = program
    BY <1>9 DEF ClearGeneratedDone
  <2>2. ASSUME program = "clear", upgrading PROVE pc' = "clear types"
    BY <1>9, <2>2, DispatchClear DEF ClearGeneratedDone
  <2>3. ASSUME program = "clear", ~upgrading
        PROVE  /\ pc' = "save times" /\ \A o \in Outputs : ~Exists(o)
               /\ macros' = 0 /\ \A s \in Sources : registered'[s] = 0
               /\ out_last_modified_times' = NoStamps /\ generated_from' = NoOutputs
    BY <1>9, <2>3, TruncatedFacts DEF ClearGeneratedDone, ClearInv
  <2> QED BY <2>1, <2>2, <2>3 DEF ClearInv, Exists
<1>10. CASE ForceRegenerate
  <2>1. files' = files \/ \E os : Remove(os)
    BY <1>10 DEF ForceRegenerate
  <2>2. program' # "clear"
    BY <1>10 DEF ForceRegenerate, ClearInv
  <2> QED BY <1>a, <2>1, <2>2
<1>11. CASE ForceDone \/ ScanCheck \/ ScanDone \/ BindStart \/ Bind \/ Parse \/ Classes \/ Register
  <2>1. files' = files /\ program' # "clear"
    BY <1>11 DEF ForceDone, ScanCheck, ScanDone, BindStart, Bind, Parse, Classes, Register,
       ClearInv
  <2> QED BY <1>a, <2>1
<1>12. CASE ScanParse
  <2>1. program' # "clear"
    BY <1>12 DEF ScanParse, ClearInv
  <2>2. ~Exists(Truncated)'
    BY <1>12, TruncatedFacts DEF ScanParse, Write, Exists, ClearInv
  <2> QED BY <2>1, <2>2 DEF ClearInv
<1>13. CASE Emit
  <2>1. program' # "clear"
    BY <1>13 DEF Emit, ClearInv
  <2>2. ~Exists(Truncated)'
    BY <1>13, TruncatedFacts DEF Emit, Write, Exists, ClearInv
  <2> QED BY <2>1, <2>2 DEF ClearInv
<1>14. CASE SaveTimes
  BY <1>14 DEF SaveTimes, ClearInv, Exists
<1>15. CASE SaveGeneratedFrom
  BY <1>15 DEF SaveGeneratedFrom, ClearInv, Exists
<1>16. CASE Exit \/ Fail \/ Crash
  <2>1. files' = files /\ program' = "none"
    BY <1>16 DEF Exit, Fail, Crash, Forget
  <2> QED BY <1>a, <2>1
<1>17. CASE User
  <2>1. files' = files \/ \E os : Remove(os)
    BY <1>17 DEF User, Edit, Delete, Restore, RemoveOutput, Install
  <2>2. UNCHANGED <<macros, registered, pc, program, records, tables>>
    BY <1>17 DEF User, Edit, Delete, Restore, RemoveOutput, Install
  <2> QED BY <2>1, <2>2, MissingKept, TruncatedFacts DEF ClearInv
<1> QED
  BY <1>1, <1>2, <1>3, <1>4, <1>5, <1>6, <1>7, <1>8, <1>9, <1>10, <1>11, <1>12, <1>13,
     <1>14, <1>15, <1>16, <1>17 DEF Next, Session

(* docs/cli/clear.rst: after a "clear" that succeeds there is no output and *)
(* no record of one, whatever happened before, whatever is killed, and     *)
(* whatever the user does meanwhile.                                       *)
THEOREM Cleared == Spec => []ClearedIsClean
<1>1. Init => ClearInv
  BY TruncatedFacts DEF Init, ClearInv, Exists
<1>2. TypeOK /\ ClearInv /\ [Next]_vars => (TypeOK /\ ClearInv)'
  BY TypeStep, ClearStep
<1>3. TypeOK /\ ClearInv => ClearedIsClean
  BY DEF ClearInv, ClearedIsClean, SavePcs
<1> QED BY <1>1, <1>2, <1>3, TypeInit, PTL DEF Spec

---------------------------------------------------------------------------
(* Without an upgrade the program follows the setup at once.               *)
LEMMA NoUpgrade ==
    ASSUME TypeOK, MaxBuild = 1
    PROVE  build_number \in {0, build}
BY DEF TypeOK

(* The extension api is never deleted, and once edited its time is one no  *)
(* table has seen.                                                         *)
LEMMA ApiUser ==
    ASSUME Disciplined, IInv, User, src[Api] # 0
    PROVE  src'[Api] # 0 /\ (last_modified_gocdb'[Api] = src'[Api] => src'[Api] = src[Api])
<1>1. Api \in Inputs /\ last_modified_gocdb' = last_modified_gocdb /\ TypeOK
  BY UserIdle DEF Inputs, records, IInv
<1>2. src'[Api] # 0
  <2>1. ASSUME NEW i \in Edited, Edit(i) PROVE src'[Api] # 0
    <3>1. i \in Inputs /\ clock[i] \in Nat
      BY <1>1, UsageAssumption, ClockNat
    <3> QED BY <1>1, <2>1, <3>1 DEF Edit, TypeOK
  <2>2. ASSUME NEW s \in Sources, Delete(s) PROVE src'[Api] # 0
    BY <1>1, <2>2, InputsAssumption DEF Delete, TypeOK
  <2>3. ASSUME NEW o \in Outputs, RemoveOutput(o) PROVE src'[Api] # 0
    BY <2>3 DEF RemoveOutput, userVars
  <2>4. CASE Install
    BY <2>4 DEF Install
  <2> QED BY <2>1, <2>2, <2>3, <2>4, UserIdle
<1> QED BY <1>1, <1>2, RecordedUser DEF Recorded

(* Every step keeps the macros as the time recorded of the api says.       *)
LEMMA MacrosStep ==
    Disciplined /\ MacrosKept /\ IInv /\ MacrosInv /\ [Next]_vars => MacrosInv'
<1> SUFFICES ASSUME Disciplined, MacrosKept, IInv, MacrosInv, [Next]_vars PROVE MacrosInv'
  OBVIOUS
<1> USE DEF userVars, records, products, tables, work, WorkPcs, BindingPcs, SavePcs
<1> TypeOK /\ ControlInv /\ SetupInv /\ MaxBuild = 1 /\ Api \in Inputs /\ Api \notin Sources
  BY InputsAssumption DEF IInv, MacrosKept, Inputs
<1>1. CASE UNCHANGED vars
  BY <1>1 DEF vars, MacrosInv, MacrosAt
<1>2. ASSUME NEW p \in Programs, Start(p) PROVE MacrosInv'
  BY <1>2 DEF Start, MacrosInv, MacrosAt
<1>3. CASE CleanEntry
  BY <1>3 DEF CleanEntry, MacrosInv, MacrosAt
<1>4. CASE CleanDone
  BY <1>4 DEF CleanDone, MacrosInv, MacrosAt
<1>5. CASE ApplyRegenerate
  <2>1. Dispatch(program) /\ UNCHANGED <<program, upgrading>>
    BY <1>5, NoUpgrade DEF ApplyRegenerate
  <2>2. pc' \in {"scan", "force", "clear types", "clear generated"}
    BY <1>5, <2>1, DispatchControl DEF ApplyRegenerate, ControlInv
  <2>3. last_modified_times'[Api] \in {last_modified_times[Api], 0}
    BY <1>5 DEF ApplyRegenerate
  <2> QED BY <1>5, <2>1, <2>2, <2>3 DEF ApplyRegenerate, MacrosInv, MacrosAt
<1>6. CASE ClearTypeEntry
  BY <1>6 DEF ClearTypeEntry, MacrosInv, MacrosAt
<1>7. CASE ClearTypesDone
  BY <1>7 DEF ClearTypesDone, MacrosInv, MacrosAt, SetupInv, ControlInv, ClearPcs, Generating
<1>8. CASE ClearGeneratedEntry
  <2>1. program = "clear"
    BY <1>8 DEF ClearGeneratedEntry, ControlInv, MacrosInv, MacrosKept
  <2> QED BY <1>8, <2>1 DEF ClearGeneratedEntry, MacrosInv, Generating
<1>9. CASE ClearGeneratedDone
  <2>1. program = "clear" /\ ~upgrading
    BY <1>9 DEF ClearGeneratedDone, ControlInv, MacrosInv, MacrosKept
  <2> QED BY <1>9, <2>1 DEF ClearGeneratedDone, MacrosInv, MacrosAt, NoStamps, Generating
<1>10. CASE ForceRegenerate
  <2>1. last_modified_times'[Api] \in {last_modified_times[Api], 0}
    BY <1>10 DEF ForceRegenerate, TypeOK
  <2> QED BY <1>10, <2>1 DEF ForceRegenerate, MacrosInv, MacrosAt
<1>11. CASE ForceDone
  BY <1>11 DEF ForceDone, MacrosInv, MacrosAt
<1>12. CASE ScanCheck
  BY <1>12 DEF ScanCheck, MacrosInv, MacrosAt
<1>13. CASE ScanParse
  BY <1>13 DEF ScanParse, MacrosInv, MacrosAt
<1>14. CASE ScanDone
  <2>1. pc' = "bind start"
    BY <1>14 DEF ScanDone, ControlInv, Generating
  <2> QED BY <1>14, <2>1 DEF ScanDone, MacrosInv, MacrosAt
<1>15. CASE BindStart
  <2>1. macros' = src[Api]
    BY <1>15 DEF BindStart, Modified, MacrosInv, MacrosAt
  <2> QED BY <1>15, <2>1 DEF BindStart, MacrosInv, MacrosAt
<1>16. CASE Bind
  BY <1>16 DEF Bind, MacrosInv, MacrosAt
<1>17. CASE Parse
  BY <1>17 DEF Parse, MacrosInv, MacrosAt
<1>18. CASE Classes
  BY <1>18 DEF Classes, MacrosInv, MacrosAt
<1>19. CASE Emit
  BY <1>19 DEF Emit, MacrosInv, MacrosAt
<1>20. CASE Register
  BY <1>20 DEF Register, MacrosInv, MacrosAt
<1>21. CASE SaveTimes
  BY <1>21 DEF SaveTimes, MacrosInv, MacrosAt
<1>22. CASE SaveGeneratedFrom
  BY <1>22 DEF SaveGeneratedFrom, MacrosInv, MacrosAt
<1>23. CASE Exit
  BY <1>23 DEF Exit, Forget, MacrosInv, MacrosAt
<1>24. CASE Fail
  <2>1. pc \in WorkPcs /\ program \in Generating
    BY <1>24 DEF Fail, ControlInv
  <2> QED BY <1>24, <2>1 DEF Fail, Forget, MacrosInv, MacrosAt, Generating
<1>25. CASE Crash
  <2>1. ~(program = "clear" /\ pc \in {"clear generated", "save times"})
    BY <1>25 DEF Crash, MacrosKept, ControlInv
  <2>2. last_modified_gocdb'[Api] \in {last_modified_gocdb[Api], 0}
    BY <1>25 DEF Crash, NoStamps
  <2> QED BY <1>25, <2>1, <2>2 DEF Crash, Forget, MacrosInv, MacrosAt
<1>26. CASE User
  <2>1. macros' = macros /\ upgrading' = upgrading /\ pc = "idle" /\ pc' = "idle"
        /\ last_modified_gocdb' = last_modified_gocdb
    BY <1>26, UserIdle DEF Edit, Delete, RemoveOutput, Install
  <2> QED BY <1>26, <2>1, ApiUser DEF MacrosInv, MacrosAt
<1> QED
  BY <1>1, <1>2, <1>3, <1>4, <1>5, <1>6, <1>7, <1>8, <1>9, <1>10, <1>11, <1>12, <1>13,
     <1>14, <1>15, <1>16, <1>17, <1>18, <1>19, <1>20, <1>21, <1>22, <1>23, <1>24, <1>25,
     <1>26 DEF Next, Session

(* GenerateBindings::execute_extension writes macros.h and core_includes.h *)
(* only when the extension api is modified; that is enough as long as they *)
(* are not lost while the api is called up to date.                        *)
THEOREM MacrosFollow ==
    ASSUME Disciplined, MacrosKept
    PROVE  Spec => []MacrosComplete
<1>1. Init => MacrosInv
  BY InputsAssumption
  DEF Init, MacrosInv, MacrosAt, NoStamps, Inputs, WorkPcs, BindingPcs, SavePcs
<1>2. IInv /\ MacrosInv /\ [Next]_vars => (IInv /\ MacrosInv)'
  BY InvStep, MacrosStep
<1>3. MacrosInv => MacrosComplete
  BY DEF MacrosInv, MacrosComplete, Generated, SavePcs
<1> QED BY <1>1, <1>2, <1>3, InvInit, PTL DEF Spec

---------------------------------------------------------------------------
(* No session of tidy use ends in an error: the assumed types are there,   *)
(* and every content is accepted.                                          *)
LEMMA NeverFails ==
    ASSUME Tidy, IInv, TypesInv, OrphanInv
    PROVE  ~Fail
<1>s. \A v \in Stamps : v # 0 => v \in 1 .. MaxStamp
  BY BoundsAssumption DEF Stamps
<1>a. src[Api] # 0 /\ Api \in Inputs
  BY DEF OrphanInv, Inputs
<1> TypeOK /\ WorkInv
  BY DEF IInv
<1>0. \A i \in Inputs, v \in 1 .. MaxStamp : Verdict[i][v] = "ok"
  BY DEF Tidy
<1>1. ASSUME NEW i \in Inputs, NEW v \in Stamps
      PROVE  Judge(i, v) # "rejected" /\ (v # 0 => Judge(i, v) # "unparsable")
  BY <1>0, <1>1, <1>s DEF Judge
<1>2. pc = "bind start" => \A t \in AssumedTypes : Exists(TypeFile(t))
  <2> SUFFICES ASSUME pc = "bind start", NEW t \in AssumedTypes PROVE Exists(TypeFile(t))
    OBVIOUS
  <2>1. src[Api] \in 1 .. MaxStamp /\ src[Api] # 0
    BY <1>a, <1>s DEF TypeOK
  <2>2. TypesDone(Api) /\ Parsable(Api)
    BY <1>1, <1>a, <2>1 DEF TypesInv, Parsable, TypeOK
  <2>3. FreshType(Api, t)
    BY <2>1, <2>2 DEF TypesDone, Tidy
  <2> QED BY <1>a, <2>1, <2>3, ContentThere DEF FreshType, Exists, TypeOK
<1>3. pc = "parse" => Judge(current, src[current]) # "unparsable"
  BY <1>1, GenFacts DEF WorkInv, LoopPcs, Present, TypeOK
<1>4. pc = "classes" => Judge(current, parsed[current]) # "rejected"
  BY <1>1, GenFacts DEF TypeOK
<1> QED BY <1>2, <1>3, <1>4 DEF Fail

(* An output is listed under one input only.                               *)
LEMMA ListedOnce ==
    ASSUME TypeOK, OneOwner, OwnGenOnly, OwnTypesOnly, ~Exists(Truncated),
           AllThere(generated_from), NEW i \in Inputs, NEW j \in Inputs, i # j
    PROVE  generated_from[i] \cap generated_from[j] = {}
<1> SUFFICES ASSUME NEW o \in Outputs, o \in generated_from[i], o \in generated_from[j]
             PROVE  FALSE
  BY DEF TypeOK
<1>1. CASE o \in GenFiles
  BY <1>1, GenFacts DEF OwnGenOnly
<1>2. CASE o \in TypeFiles
  <2>1. PICK t \in Types : o = TypeFile(t)
    BY <1>2 DEF TypeFiles
  <2> QED BY <2>1 DEF OwnTypesOnly, OneOwner
<1>3. CASE o = Truncated
  BY <1>3 DEF AllThere
<1> QED BY <1>1, <1>2, <1>3 DEF Outputs

(* Removing the outputs listed under one input, entry and all, keeps the   *)
(* books.                                                                  *)
LEMMA RemoveListed ==
    ASSUME TypeOK, OneOwner, OwnGenOnly, OwnTypesOnly, ~Exists(Truncated),
           AllThere(generated_from), Registered(generated_from), NEW j \in Inputs,
           Remove(generated_from[j]), generated_from' = [generated_from EXCEPT ![j] = {}]
    PROVE  AllThere(generated_from)' /\ Registered(generated_from)'
<1>1. ASSUME NEW i \in Inputs, NEW o \in generated_from'[i] PROVE Exists(o)'
  <2>1. i # j /\ o \in generated_from[i] /\ o \in Outputs
    BY DEF TypeOK
  <2>2. o \notin generated_from[j]
    BY <2>1, ListedOnce
  <2> QED BY <2>1, <2>2 DEF Remove, Exists, AllThere
<1>2. ASSUME NEW o \in Outputs, Exists(o)' PROVE o \in generated_from'[files'[o].by]
  <2>1. o \notin generated_from[j] /\ files'[o] = files[o]
    BY <1>2 DEF Remove, Exists
  <2>2. o \in generated_from[files[o].by] /\ files[o].by \in Inputs
    BY <1>2, <2>1 DEF Registered, Exists, TypeOK, Content
  <2> QED BY <2>1, <2>2 DEF TypeOK
<1> QED BY <1>1, <1>2 DEF AllThere, Registered

(* Writing an output and listing it keeps them too.                        *)
LEMMA WriteListed ==
    ASSUME TypeOK, AllThere(generated_from), Registered(generated_from), NEW i \in Inputs,
           NEW os \in SUBSET Outputs, NEW c \in Content, c.by = i, Write(i, os, c)
    PROVE  AllThere(generated_from)' /\ Registered(generated_from)'
<1>1. c # Missing
  BY MissingAssumption
<1>2. ASSUME NEW j \in Inputs, NEW o \in generated_from'[j] PROVE Exists(o)'
  <2>1. o \in os \/ o \in generated_from[j]
    BY DEF Write, TypeOK
  <2>2. o \in Outputs
    BY <2>1 DEF TypeOK
  <2> QED BY <1>1, <2>1, <2>2 DEF Write, Exists, AllThere
<1>3. ASSUME NEW o \in Outputs, Exists(o)' PROVE o \in generated_from'[files'[o].by]
  <2>1. CASE o \in os
    BY <2>1 DEF Write, TypeOK
  <2>2. CASE o \notin os
    <3>1. files'[o] = files[o] /\ files[o].by \in Inputs /\ o \in generated_from[files[o].by]
      BY <1>3, <2>2 DEF Write, Exists, Registered, TypeOK, Content
    <3> QED BY <3>1 DEF Write, TypeOK
  <2> QED BY <2>1, <2>2
<1> QED BY <1>2, <1>3 DEF AllThere, Registered

(* No step leaves a type file that no record names.                        *)
LEMMA OrphanStep ==
    ASSUME Disciplined, OneOwner, Tidy, IInv, OwnTypesOnly, TypesInv, ClearInv, OrphanInv,
           [Next]_vars
    PROVE  OrphanInv'
<1> USE DEF userVars, records, products, tables, work, session
<1> DEFINE Books == Registered(generated_from) /\ AllThere(generated_from)
<1> /\ TypeOK /\ OwnGenOnly /\ ControlInv /\ WorkInv /\ SetupInv /\ ~Exists(Truncated)
    /\ regenerate_files = {} /\ src[Api] # 0
  BY DEF IInv, ClearInv, OrphanInv
<1>a. ASSUME UNCHANGED <<files, generated_from>> PROVE
        /\ Registered(generated_from) => Registered(generated_from)'
        /\ AllThere(generated_from) => AllThere(generated_from)'
  BY <1>a DEF Registered, AllThere, Exists
<1>b. ASSUME \A o \in Outputs : ~Exists(o)', generated_from' = NoOutputs PROVE Books'
  BY <1>b DEF Registered, AllThere, NoOutputs
<1>1. CASE UNCHANGED vars
  BY <1>1 DEF vars, OrphanInv, Registered, AllThere, Exists
<1>2. ASSUME NEW p \in Programs, Start(p) PROVE OrphanInv'
  <2>1. /\ generated_from' = generated_from_gocdb /\ UNCHANGED <<files, src>>
        /\ Registered(generated_from_gocdb) /\ AllThere(generated_from_gocdb)
    BY <1>2, LoadedType DEF Start, TypeOK, OrphanInv
  <2>2. Books'
    BY <2>1 DEF Registered, AllThere, Exists
  <2>3. ASSUME NEW i \in Inputs PROVE generated_from'[i] = {} \/ i \in todo'
    BY <1>2, <2>1 DEF Start
  <2> QED BY <1>2, <2>1, <2>2, <2>3 DEF Start, OrphanInv
<1>3. CASE CleanEntry
  <2> PICK j \in todo : CleanEntry!2!(j)
    BY <1>3 DEF CleanEntry
  <2>1. /\ pc = "clean" /\ pc' = "clean" /\ src' = src /\ j \in Inputs /\ Books
        /\ todo' = todo \ {j}
    BY <1>3 DEF CleanEntry, TypeOK, OrphanInv, ClearPcs
  <2>2. CASE src[j] = 0
    <3>1. Books' /\ regenerate_files' = {} /\ generated_from' = [generated_from EXCEPT ![j] = {}]
      BY <2>1, <2>2, RemoveListed
    <3> QED BY <2>1, <2>2, <3>1 DEF OrphanInv, TypeOK
  <2>3. CASE src[j] # 0
    <3>1. UNCHANGED <<files, generated_from>> /\ regenerate_files' = {}
      BY <2>1, <2>3 DEF AllThere
    <3>2. Books'
      BY <1>a, <2>1, <3>1
    <3> QED BY <2>1, <2>3, <3>1, <3>2 DEF OrphanInv
  <2> QED BY <2>2, <2>3
<1>4. CASE CleanDone
  BY <1>4, <1>a DEF CleanDone, OrphanInv, ClearPcs
<1>5. CASE ApplyRegenerate
  <2>1. /\ pc' \in {"scan", "force", "bind start", "clear types", "clear generated"}
        /\ pc = "apply" /\ UNCHANGED <<src, files>> /\ regenerate_files' = {}
    BY <1>5, DispatchPc DEF ApplyRegenerate
  <2>2. generated_from' = generated_from
    BY <1>5 DEF ApplyRegenerate, TypeOK
  <2>3. pc' # "clear generated"
    BY <1>5, DispatchControl DEF ApplyRegenerate, ControlInv, Tidy
  <2> QED BY <1>a, <2>1, <2>2, <2>3 DEF OrphanInv, ClearPcs
<1>6. CASE ClearTypeEntry
  <2>1. Registered(generated_from)'
    BY <1>6 DEF ClearTypeEntry, Remove, Exists, OrphanInv, Registered
  <2> QED BY <1>6, <2>1 DEF ClearTypeEntry, OrphanInv, ClearPcs
<1>7. CASE ClearTypesDone
  <2>1. pc' = "clear generated"
    BY <1>7 DEF ClearTypesDone, ControlInv, Tidy, ClearPcs
  <2> QED BY <1>7, <1>a, <2>1 DEF ClearTypesDone, OrphanInv, ClearPcs, Exists
<1>8. CASE ClearGeneratedEntry
  <2>1. files' = files \/ \E os : Remove(os)
    BY <1>8 DEF ClearGeneratedEntry
  <2>2. Registered(generated_from)'
    BY <1>8, <2>1 DEF ClearGeneratedEntry, Remove, Exists, OrphanInv, Registered
  <2>3. \A o \in TypeFiles : ~Exists(o)'
    BY <1>8, <2>1, MissingKept, TruncatedFacts DEF ClearGeneratedEntry, OrphanInv
  <2> QED BY <1>8, <2>2, <2>3 DEF ClearGeneratedEntry, OrphanInv, ClearPcs
<1>9. CASE ClearGeneratedDone
  <2>1. \A o \in Outputs : ~Exists(o)
    BY <1>9, TruncatedFacts DEF ClearGeneratedDone, OrphanInv
  <2>2. upgrading \/ program = "clear"
    BY <1>9 DEF ClearGeneratedDone, ControlInv, ClearPcs, Tidy
  <2>3. generated_from' = NoOutputs /\ UNCHANGED <<src, files, regenerate_files>>
    BY <1>9, <2>2 DEF ClearGeneratedDone
  <2>4. pc' \in {"scan", "force", "bind start", "clear types", "clear generated", "save times"}
    BY <1>9, DispatchPc DEF ClearGeneratedDone
  <2>5. Books' /\ \A o \in TypeFiles : ~Exists(o)'
    BY <1>b, <2>1, <2>3, TruncatedFacts DEF Exists
  <2> QED BY <2>3, <2>4, <2>5 DEF OrphanInv, NoOutputs
<1>10. CASE ForceRegenerate
  <2> PICK j \in todo : ForceRegenerate!2!(j)
    BY <1>10 DEF ForceRegenerate
  <2>1. /\ pc = "force" /\ pc' = "force" /\ UNCHANGED <<src, regenerate_files>> /\ j \in Inputs
        /\ Books
    BY <1>10 DEF ForceRegenerate, TypeOK, OrphanInv, ClearPcs
  <2>2. CASE j \in ForcedKeys
    <3>1. Books' /\ generated_from' = [generated_from EXCEPT ![j] = {}]
      BY <2>1, <2>2, RemoveListed
    <3> QED BY <2>1, <3>1 DEF OrphanInv, TypeOK
  <2>3. CASE j \notin ForcedKeys
    BY <1>a, <2>1, <2>3 DEF OrphanInv
  <2> QED BY <2>2, <2>3
<1>11. CASE \/ ForceDone \/ ScanCheck \/ ScanDone \/ BindStart \/ Bind \/ Parse
            \/ Classes \/ Register \/ SaveTimes
  <2>1. /\ UNCHANGED <<src, files, generated_from, regenerate_files>>
        /\ pc \notin ClearPcs \cup {"idle", "clean"}
        /\ pc' \notin ClearPcs \cup {"idle", "clean", "exit"}
    BY <1>11 DEF ForceDone, ScanCheck, ScanDone, BindStart, Bind, Parse, Classes, Register,
       SaveTimes, ClearPcs
  <2> QED BY <1>a, <2>1 DEF OrphanInv, ClearPcs
<1>12. CASE ScanParse
  <2>1. /\ pc = "scan parse" /\ pc' = "scan" /\ UNCHANGED <<src, regenerate_files>> /\ Books
        /\ current \in Inputs
    BY <1>12 DEF ScanParse, OrphanInv, ClearPcs, TypeOK
  <2>2. CASE ~Parsable(current)
    <3>1. UNCHANGED <<files, generated_from>>
      BY <1>12, <2>2 DEF ScanParse, Parsable
    <3> QED BY <1>a, <2>1, <3>1 DEF OrphanInv, ClearPcs
  <2>3. CASE Parsable(current)
    <3> DEFINE os == {TypeFile(t) : t \in TypesOf[current][src[current]]}
               c == [by |-> current, at |-> src[current], bodies |-> TRUE]
    <3>1. Write(current, os, c)
      BY <1>12, <2>3 DEF ScanParse, Parsable
    <3>2. os \in SUBSET Outputs /\ c \in Content /\ src[current] # 0
      <4>1. src[current] # 0 /\ TypesOf[current][src[current]] \subseteq Types
        BY <2>1, <2>3, TypeFacts
      <4>2. os \in SUBSET Outputs
        BY <4>1, TypeFacts
      <4> QED BY <2>1, <4>1, <4>2 DEF Content, TypeOK
    <3>3. Books'
      BY <2>1, <3>1, <3>2, WriteListed
    <3>4. \A i \in Inputs : i # current => generated_from'[i] = generated_from[i]
      BY <3>1 DEF Write
    <3> QED BY <2>1, <3>2, <3>3, <3>4 DEF OrphanInv, ClearPcs
  <2> QED BY <2>2, <2>3
<1>13. CASE Emit
  <2>1. /\ pc = "emit" /\ pc' = "bind" /\ UNCHANGED <<src, regenerate_files>> /\ Books
        /\ current \in Sources /\ current \in Inputs
    BY <1>13, GenFacts DEF Emit, OrphanInv, ClearPcs, TypeOK
  <2>2. CASE ~Modified(current)
    <3>1. UNCHANGED <<files, generated_from>>
      BY <1>13, <2>2 DEF Emit
    <3> QED BY <1>a, <2>1, <3>1 DEF OrphanInv, ClearPcs
  <2>3. CASE Modified(current)
    <3> DEFINE c == [by |-> current, at |-> parsed[current], bodies |-> bodies]
    <3>1. Write(current, {Gen(current)}, c)
      BY <1>13, <2>3 DEF Emit
    <3>2. {Gen(current)} \in SUBSET Outputs /\ c \in Content /\ src[current] # 0
      BY <2>1, <2>3, GenFacts DEF Content, TypeOK, Modified
    <3>3. Books'
      BY <2>1, <3>1, <3>2, WriteListed
    <3>4. \A i \in Inputs : i # current => generated_from'[i] = generated_from[i]
      BY <3>1 DEF Write
    <3> QED BY <2>1, <3>2, <3>3, <3>4 DEF OrphanInv, ClearPcs
  <2> QED BY <2>2, <2>3
<1>14. CASE SaveGeneratedFrom
  BY <1>14, <1>a DEF SaveGeneratedFrom, OrphanInv, ClearPcs
<1>15. CASE Exit
  <2>1. /\ UNCHANGED <<src, files, generated_from_gocdb>> /\ pc' = "idle"
        /\ regenerate_files' = {} /\ generated_from_gocdb = generated_from /\ Books
    BY <1>15 DEF Exit, Forget, OrphanInv, ClearPcs
  <2> QED BY <2>1 DEF OrphanInv, Registered, AllThere, Exists
<1>16. CASE Fail \/ Crash
  BY <1>16, NeverFails DEF Crash, Tidy
<1>17. CASE User
  <2>1. /\ pc = "idle" /\ pc' = "idle" /\ UNCHANGED <<files, generated_from_gocdb,
                                                      regenerate_files>>
    BY <1>17, UserIdle DEF Edit, Delete, RemoveOutput, Install, UserMayAct, Tidy
  <2>2. src'[Api] # 0
    BY <1>17, ApiUser
  <2> QED BY <2>1, <2>2 DEF OrphanInv, Registered, AllThere, Exists
<1> QED
  BY <1>1, <1>2, <1>3, <1>4, <1>5, <1>6, <1>7, <1>8, <1>9, <1>10, <1>11, <1>12, <1>13,
     <1>14, <1>15, <1>16, <1>17 DEF Next, Session

(* LibraryContext::clean_generated_files leaves no output of a source that *)
(* is gone, when every session before it could finish.                     *)
THEOREM OrphansGone ==
    ASSUME Disciplined, OneOwner, Tidy
    PROVE  Spec => []NoOrphans
<1> DEFINE I == IInv /\ OwnTypesOnly /\ TypesInv /\ ClearInv /\ OrphanInv
<1>1. Init => I
  <2> SUFFICES ASSUME Init PROVE I
    OBVIOUS
  <2>1. \A o \in Outputs : ~Exists(o)
    BY DEF Init, Exists
  <2>2. OrphanInv
    BY <2>1 DEF Init, OrphanInv, Registered, AllThere, NoOutputs
  <2>3. ClearInv
    BY <2>1, TruncatedFacts DEF Init, ClearInv
  <2> QED BY <2>2, <2>3, InvInit, TypesInit
<1>2. I /\ [Next]_vars => I'
  BY InvStep, OwnTypesStep, TypesStep, ClearStep, OrphanStep DEF IInv
<1>3. I => NoOrphans
  <2> SUFFICES ASSUME I, pc = "exit", NEW o \in Outputs, Exists(o) PROVE src[files[o].by] # 0
    BY DEF NoOrphans
  <2>1. o \in generated_from[files[o].by] /\ files[o].by \in Inputs
    BY DEF OrphanInv, Registered, IInv, TypeOK, Exists, Content
  <2> QED BY <2>1 DEF OrphanInv
<1> QED BY <1>1, <1>2, <1>3, PTL DEF Spec

=============================================================================
