------------------------ MODULE IncrementalBuildInv ------------------------
(***************************************************************************)
(* IncrementalBuild used with discipline implements BuildContract.  This   *)
(* module says which use that is, maps the state to the contract's, and    *)
(* gives the invariant that explains why it works.                         *)
(***************************************************************************)
EXTENDS IncrementalBuild

(* Files never come back with an old time, nobody edits while the tool     *)
(* runs, no path has a blank, the halves of generate are not run alone,    *)
(* and the tool is not killed between its last two writes.  Each conjunct  *)
(* is needed: without it TLC finds a property of the durable run violated. *)
Disciplined ==
    /\ "restore" \notin UserActions
    /\ ConcurrentEdits = FALSE
    /\ SpacesInPaths = FALSE
    /\ Programs \cap {"generate type_db", "generate bindings"} = {}
    /\ "save generated_from" \notin CrashPoints

CodeOf(f) == IF f # Missing /\ f.bodies THEN f.at ELSE 0
Phase == IF pc = "idle" THEN "idle"
         ELSE IF pc = "exit" /\ program \in Generating THEN "complete" ELSE "running"

Contract == INSTANCE BuildContract WITH
    src <- [s \in Sources |-> src[s]],
    out <- [s \in Sources |-> CodeOf(files[Gen(s)])],
    phase <- Phase

(* The refinement: every step of the tool, its user and its killer is one  *)
(* the contract allows.                                                    *)
ImplementsContract == Contract!Spec

---------------------------------------------------------------------------
(* A table never holds a time the file did not have.                       *)
StampsInThePast ==
    \A i \in Inputs :
        /\ src[i] <= clock[i]
        /\ last_modified_gocdb[i] <= clock[i]
        /\ last_modified_times[i] <= clock[i]
        /\ out_last_modified_times[i] <= clock[i]

(* Generated files are registered under their own source only: removing    *)
(* the orphans of one source takes nothing from another.                   *)
OwnGenOnly ==
    \A i \in Inputs :
        /\ generated_from[i] \cap GenFiles \subseteq {Gen(i)}
        /\ generated_from_gocdb[i] \cap GenFiles \subseteq {Gen(i)}

(* With times t and entries g, the source s called up to date is tracked,  *)
(* and its generated file is missing or fresh.                             *)
Tracked(s, t, g) ==
    src[s] # 0 /\ t[s] = src[s] =>
        Gen(s) \in g[s] /\ (FreshGen(s) \/ ~Exists(Gen(s)))

BindingPcs == {"bind", "parse", "classes", "emit"}
WorkPcs == {"force", "scan", "scan parse", "bind start"} \cup BindingPcs
ClearPcs == {"clear types", "clear generated"}
LoopPcs == {"parse", "classes", "emit"}

(* Which program the control point belongs to.                             *)
ControlInv ==
    /\ pc # "idle" => program \in Programs
    /\ pc \in WorkPcs => program \in Generating
    /\ pc \in ClearPcs /\ ~upgrading => program \notin Generating
    /\ pc = "clear types" /\ ~upgrading => program \in {"clear", "clear type_db"}
    /\ pc = "clear generated" /\ ~upgrading => program \in {"clear", "clear generated"}
    /\ pc \notin ClearPcs => ~upgrading

(* The files on disk.                                                      *)
DiskInv ==
    \A s \in Sources :
        /\ pc # "save generated_from" =>
              Tracked(s, last_modified_gocdb, generated_from_gocdb)
        /\ pc = "save generated_from" =>
              /\ Tracked(s, last_modified_gocdb, generated_from)
              /\ Recorded(s) => FreshGen(s) \/ Gen(s) \in generated_from_gocdb[s]

(* The session up to the point where the program starts to work.           *)
SetupInv ==
    /\ pc \in {"clean", "apply"} \cup ClearPcs =>
        /\ out_last_modified_times = last_modified_times
        /\ \A s \in Sources :
            /\ Tracked(s, last_modified_times, generated_from)
            /\ src[s] # 0 => generated_from[s] \subseteq generated_from_gocdb[s]
    /\ pc = "apply" => todo = {}
    /\ pc \in {"clean", "apply"} =>
        \A s \in Sources : src[s] # 0 /\ last_modified_times[s] = src[s] =>
            s \in todo \/ s \in regenerate_files \/ FreshGen(s)

(* The session while generate works: what is called up to date is fresh;   *)
(* what the loop of generate_bindings has left behind is fresh.            *)
Done(s) == FreshGen(s) /\ Gen(s) \in generated_from[s]
WorkInv ==
    /\ pc \in WorkPcs =>
        \A s \in Sources : src[s] # 0 /\ last_modified_times[s] = src[s] => Done(s)
    /\ pc \in BindingPcs =>
        /\ todo \subseteq Present \cap Sources
        /\ \A s \in Present \cap Sources :
            s \in todo \/ (pc \in LoopPcs /\ s = current) \/ Done(s)
    /\ pc \in LoopPcs => current \in Present \cap Sources
    /\ pc \in {"classes", "emit"} /\ Modified(current) => parsed[current] = src[current]
    /\ pc = "emit" /\ Modified(current) => bodies

(* The session once the program is done.                                   *)
SaveInv ==
    /\ pc = "save times" =>
        /\ \A s \in Sources : Tracked(s, out_last_modified_times, generated_from)
        /\ program \notin Generating => \A s \in Sources :
               src[s] # 0 => generated_from[s] \subseteq generated_from_gocdb[s]
    /\ pc \in {"save times", "save generated_from", "exit"} /\ program \in Generating =>
        \A s \in Sources \cap Present : FreshGen(s)

(* The inductive invariant.                                                *)
IInv ==
    /\ TypeOK /\ StampsInThePast /\ OwnGenOnly /\ ControlInv
    /\ DiskInv /\ SetupInv /\ WorkInv /\ SaveInv
---------------------------------------------------------------------------
(* What the two other tables of the goc directory need: the parse cache    *)
(* and the TypeDB.                                                         *)
Parsable(i) == Judge(i, src[i]) # "unparsable"

(* With times t, the present content of a source called up to date is in   *)
(* the parse cache.                                                        *)
Cached(s, t) == src[s] # 0 /\ t[s] = src[s] => input_cache[s] = src[s]

SavePcs == {"save times", "save generated_from", "exit"}

(* The parse cache and the registration: what the loop of                  *)
(* generate_bindings has left behind is cached, and its classes are known. *)
CacheInv ==
    /\ \A s \in Sources :
        /\ Cached(s, last_modified_gocdb)
        /\ pc # "idle" => Cached(s, last_modified_times)
        /\ pc = "save times" => Cached(s, out_last_modified_times)
        /\ pc \notin BindingPcs \cup SavePcs => parsed[s] = 0
        /\ pc \in BindingPcs =>
            \/ s \in todo
            \/ (pc = "parse" /\ s = current)
            \/ (parsed[s] = src[s] /\ (src[s] # 0 => input_cache[s] = src[s]))
        /\ pc \in SavePcs /\ program \in Generating => registered[s] = src[s]

(* Different inputs declare different types: a type file has one owner.    *)
OneOwner ==
    \A i, j \in Inputs : \A v, w \in 1 .. MaxStamp :
        i # j => TypesOf[i][v] \cap TypesOf[j][w] = {}

(* Type files are registered under an input that declares, or once         *)
(* declared, the type.                                                     *)
OwnTypesOnly ==
    \A i \in Inputs, t \in Types :
        TypeFile(t) \in generated_from[i] \cup generated_from_gocdb[i] =>
            \E v \in 1 .. MaxStamp : t \in TypesOf[i][v]

(* With times t and entries g, the types of an input called up to date are *)
(* tracked, and their files are missing or fresh.                          *)
TypesTracked(i, t, g) ==
    src[i] # 0 /\ t[i] = src[i] /\ Parsable(i) =>
        \A ty \in TypesOf[i][src[i]] :
            TypeFile(ty) \in g[i] /\ (FreshType(i, ty) \/ ~Exists(TypeFile(ty)))
TypesFresh(i) == Parsable(i) => \A ty \in TypesOf[i][src[i]] : FreshType(i, ty)
TypesDone(i) ==
    Parsable(i) => \A ty \in TypesOf[i][src[i]] :
        FreshType(i, ty) /\ TypeFile(ty) \in generated_from[i]

ScanPcs == {"scan", "scan parse"}
Unscanned(i) == i \in todo \/ (pc = "scan parse" /\ i = current)

(* The TypeDB, through the phases of a session as DiskInv, SetupInv,       *)
(* WorkInv and SaveInv follow the generated files.                         *)
TypesInv ==
    \A i \in Inputs :
        /\ pc # "save generated_from" =>
              TypesTracked(i, last_modified_gocdb, generated_from_gocdb)
        /\ pc = "save generated_from" => TypesTracked(i, last_modified_gocdb, generated_from)
        /\ pc \in {"clean", "apply"} \cup ClearPcs =>
              TypesTracked(i, last_modified_times, generated_from)
        /\ pc \in {"clean", "apply"} /\ src[i] # 0 /\ last_modified_times[i] = src[i] =>
              i \in todo \/ i \in regenerate_files \/ TypesFresh(i)
        /\ pc \in WorkPcs /\ src[i] # 0 /\ last_modified_times[i] = src[i] => TypesDone(i)
        /\ pc \in ScanPcs /\ src[i] # 0 => Unscanned(i) \/ TypesDone(i)
        /\ pc \in {"bind start"} \cup BindingPcs /\ src[i] # 0 => TypesDone(i)
        /\ pc = "save times" => TypesTracked(i, out_last_modified_times, generated_from)
        /\ pc \in SavePcs /\ program \in Generating /\ src[i] # 0 => TypesFresh(i)

(* The extension api can be parsed and declares some type.                 *)
GodotApi ==
    \A v \in 1 .. MaxStamp : Verdict[Api][v] # "unparsable" /\ TypesOf[Api][v] # {}

(* What is recorded and still to be parsed has lost an output.             *)
Lost(i) == \E o \in generated_from_gocdb[i] : ~Exists(o)
SkipInv ==
    /\ pc \notin {"clean", "apply"} => regenerate_files = {}
    /\ pc = "force" => program = "regenerate"
    /\ pc = "scan parse" => current \notin todo /\ Modified(current)
    /\ upgrading /\ pc = "clear generated" => \A o \in TypeFiles : ~Exists(o)
    /\ \A i \in Inputs :
        /\ pc \in {"clean", "apply"} =>
            /\ last_modified_times[i] = last_modified_gocdb[i]
            /\ src[i] # 0 => generated_from[i] \subseteq generated_from_gocdb[i]
            /\ i \in regenerate_files => Lost(i)
        /\ pc \in ScanPcs /\ program = "generate" /\ Recorded(i)
           /\ last_modified_times[i] # src[i] /\ Unscanned(i) => Lost(i)

WholeInv == IInv /\ CacheInv /\ OwnTypesOnly /\ TypesInv /\ SkipInv

---------------------------------------------------------------------------
(* Clear, whatever the use: the session of "clear" at each of its points.  *)
ClearInv ==
    /\ ~Exists(Truncated)
    /\ program = "clear" =>
        /\ pc \notin WorkPcs
        /\ pc = "clear generated" => \A o \in TypeFiles : ~Exists(o)
        /\ pc \in SavePcs =>
            /\ \A o \in Outputs : ~Exists(o)
            /\ macros = 0 /\ \A s \in Sources : registered[s] = 0
        /\ pc = "save times" => out_last_modified_times = NoStamps
        /\ pc \in {"save times", "save generated_from"} => generated_from = NoOutputs
        /\ pc \in {"save generated_from", "exit"} => last_modified_gocdb = NoStamps
        /\ pc = "exit" => generated_from_gocdb = NoOutputs

(* Disciplined use in which macros.h is not lost while the extension api   *)
(* is called up to date: it is "clear" that forgets the record, at its     *)
(* very end.  Each conjunct is needed.                                     *)
MacrosKept ==
    /\ "clear generated" \notin Programs
    /\ MaxBuild = 1
    /\ "clear" \in Programs => CrashPoints \cap {"clear generated", "save times"} = {}

(* With the time t recorded for it, the api called up to date has its      *)
(* macros.                                                                 *)
MacrosAt(t) == t = src[Api] => macros = src[Api]
MacrosInv ==
    /\ src[Api] # 0 /\ ~upgrading
    /\ ~(program = "clear" /\ pc \in {"clear generated", "save times"}) =>
          MacrosAt(last_modified_gocdb[Api])
    /\ pc \in {"clean", "apply", "clear types"} \cup WorkPcs =>
          MacrosAt(last_modified_times[Api])
    /\ pc = "save times" => MacrosAt(out_last_modified_times[Api])
    /\ pc \in BindingPcs => macros = src[Api]
    /\ pc \in SavePcs /\ program \in Generating => macros = src[Api]


---------------------------------------------------------------------------
(* Use in which every session that starts succeeds, and nothing but the    *)
(* tool removes an output.                                                 *)
Tidy ==
    /\ CrashPoints = {}
    /\ "remove" \notin UserActions
    /\ Programs \cap {"clear generated", "clear type_db"} = {}
    /\ \A i \in Inputs, v \in 1 .. MaxStamp : Verdict[i][v] = "ok"
    /\ \A v \in 1 .. MaxStamp : AssumedTypes \subseteq TypesOf[Api][v]

(* Every output is listed under the input it was made from, and every      *)
(* listed output is there.                                                 *)
Registered(g) == \A o \in Outputs : Exists(o) => o \in g[files[o].by]
AllThere(g) == \A i \in Inputs : \A o \in g[i] : Exists(o)
OrphanInv ==
    /\ regenerate_files = {} /\ src[Api] # 0
    /\ pc = "clear generated" => \A o \in TypeFiles : ~Exists(o)
    /\ pc = "idle" => Registered(generated_from_gocdb) /\ AllThere(generated_from_gocdb)
    /\ pc # "idle" =>
        /\ Registered(generated_from)
        /\ pc \notin ClearPcs => AllThere(generated_from)
        /\ \A i \in Inputs :
            src[i] = 0 => generated_from[i] = {} \/ (pc = "clean" /\ i \in todo)
    /\ pc = "exit" => generated_from_gocdb = generated_from

===========================================================================
