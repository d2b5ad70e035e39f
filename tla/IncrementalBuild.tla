------------------------- MODULE IncrementalBuild -------------------------
(***************************************************************************)
(* The incremental build of godot-object-compiler: what one run of the     *)
(* tool (a "session") reads from and leaves in the goc directory, and how  *)
(* sessions follow each other while the user edits headers, removes        *)
(* outputs, clears caches, installs a new goc and kills the tool.          *)
(*                                                                         *)
(* A header is known by its modification stamp: 0 is "no such file"        *)
(* (file_write_time), v > 0 is its v-th content.  Everything derived from  *)
(* a header remembers the stamp it was derived from, so "up to date" can   *)
(* be told from "recorded as up to date".  A .cpp source stands for the    *)
(* header it maps to.  One session runs at a time: LockFiles.tla says when *)
(* the tool ensures that.                                                  *)
(***************************************************************************)
EXTENDS Naturals

CONSTANTS
    Sources,        \* headers under root_path that --sources names
    Api,            \* extension_api.json
    Types,          \* names of the types that may be declared
    TypesOf,        \* TypesOf[i][v]: the types content v of input i declares
    Verdict,        \* Verdict[i][v]: "ok", "rejected" by the generators, or "unparsable"
    AssumedTypes,   \* types the generators need to find in the TypeDB
    ForcedKeys,     \* sources given to --sources as the header itself, not its .cpp
    SpacesInPaths,  \* is there a blank in the paths of the outputs?
    Programs,       \* the programs the user runs
    Edited,         \* the inputs the user may give new contents
    UserActions,    \* subset of {"edit", "delete", "restore", "remove"}
    ConcurrentEdits,\* may the user act while a session runs?
    CrashPoints,    \* values of pc at which the process may be killed
    MaxStamp,       \* bound: contents per input
    MaxCrashes,     \* bound: kills
    MaxBuild,       \* bound: goc versions installed
    Missing         \* the content of a file that does not exist

Inputs == Sources \cup {Api}
Stamps == 0 .. MaxStamp
Gen(s) == <<"gen", s>>              \* <stem>.generated.h and <stem>.generated.cpp
TypeFile(t) == <<"type", t>>        \* <mangled name>.gocdb
GenFiles == {Gen(s) : s \in Sources}
TypeFiles == {TypeFile(t) : t \in Types}
Truncated == <<"truncated">>        \* no file: what is left of a list of paths with a blank
Outputs == GenFiles \cup TypeFiles \cup {Truncated}

(* What an output was made from; bodies is FALSE for a .generated.h        *)
(* written without its class sections.                                     *)
Content == [by : Inputs, at : Stamps, bodies : BOOLEAN]

AllPrograms == {"generate", "generate type_db", "generate bindings", "regenerate",
                "clear", "clear generated", "clear type_db"}
Generating == {"generate", "regenerate"}
Pcs == {"idle", "clean", "apply", "clear types", "clear generated", "force", "scan",
        "scan parse", "bind start", "bind", "parse", "classes", "emit", "save times",
        "save generated_from", "exit"}

ASSUME InputsAssumption == Api \notin Sources
ASSUME BoundsAssumption == MaxStamp \in Nat /\ MaxCrashes \in Nat /\ MaxBuild \in Nat \ {0}
ASSUME TypesAssumption ==
    /\ TypesOf \in [Inputs -> [1 .. MaxStamp -> SUBSET Types]]
    /\ Verdict \in [Inputs -> [1 .. MaxStamp -> {"ok", "rejected", "unparsable"}]]
    /\ AssumedTypes \subseteq Types
    /\ ForcedKeys \subseteq Sources
ASSUME UsageAssumption ==
    /\ Programs \subseteq AllPrograms
    /\ Edited \subseteq Inputs
    /\ UserActions \subseteq {"edit", "delete", "restore", "remove"}
    /\ ConcurrentEdits \in BOOLEAN /\ SpacesInPaths \in BOOLEAN
    /\ CrashPoints \subseteq Pcs
ASSUME MissingAssumption == Missing \notin Content

VARIABLES
    (* The user's project and the installed tool.                          *)
    src,            \* stamp of each input now
    clock,          \* highest stamp each input has ever had
    build,          \* BuildInfo::commit_hash of the installed goc
    crashes,        \* kills so far
    (* The goc directory.                                                  *)
    files,          \* contents of the tracked outputs
    macros,         \* godot_object_compiler/macros.h, core_includes.h: stamp of the api
    registered,     \* generated_register_types.*: stamp of each source it was built from
    input_cache,    \* input_cache/*.gocdb: stamp of the cached parse, 0 if none
    last_modified_gocdb,    \* last_modified.gocdb
    generated_from_gocdb,   \* generated_from.gocdb
    build_number,   \* last_goc_build_number.txt, 0 if it does not exist
    (* The session: LibraryContext and the program counter.                *)
    pc, program, todo, current,
    last_modified_times, out_last_modified_times,
    generated_from,
    regenerate_files,
    upgrading,      \* is this Clear the one setup_context runs for a new build?
    parsed,         \* stamp of the parse each source's classes come from
    bodies          \* did generate_bindings generate the class bodies of current?

userVars == <<src, clock, build, crashes>>
records == <<last_modified_gocdb, generated_from_gocdb, build_number>>
products == <<files, macros, registered, input_cache>>
tables == <<last_modified_times, out_last_modified_times, generated_from, regenerate_files>>
work == <<todo, current, parsed, bodies>>
vars == <<userVars, records, products, tables, work, pc, program, upgrading>>

NoStamps == [i \in Inputs |-> 0]
NoOutputs == [i \in Inputs |-> {}]

(* A process that is not running has no memory.                            *)
Forget ==
    /\ pc' = "idle" /\ program' = "none" /\ upgrading' = FALSE
    /\ todo' = {} /\ current' = Api /\ bodies' = FALSE
    /\ parsed' = [s \in Sources |-> 0]
    /\ last_modified_times' = NoStamps /\ out_last_modified_times' = NoStamps
    /\ generated_from' = NoOutputs /\ regenerate_files' = {}

Init ==
    /\ src \in [Inputs -> {0, 1} \cap Stamps] /\ clock = src /\ src[Api] # 0
    /\ build = 1 /\ crashes = 0
    /\ files = [o \in Outputs |-> Missing] /\ macros = 0
    /\ registered = [s \in Sources |-> 0] /\ input_cache = [s \in Sources |-> 0]
    /\ last_modified_gocdb = NoStamps /\ generated_from_gocdb = NoOutputs
    /\ build_number = 0
    /\ pc = "idle" /\ program = "none" /\ upgrading = FALSE
    /\ todo = {} /\ current = Api /\ bodies = FALSE
    /\ parsed = [s \in Sources |-> 0]
    /\ last_modified_times = NoStamps /\ out_last_modified_times = NoStamps
    /\ generated_from = NoOutputs /\ regenerate_files = {}

Exists(o) == files[o] # Missing
Remove(os) == files' = [o \in Outputs |-> IF o \in os THEN Missing ELSE files[o]]
Present == {i \in Inputs : src[i] # 0}

---------------------------------------------------------------------------
(* Mutant: the time of a file that was read is not noted.                  *)
StampedNever(i) == out_last_modified_times

(* LibraryContext::file_modified.  The answer compares with the table that *)
(* was loaded; the time goes to the table that will be saved.              *)
Modified(i) == src[i] # 0 /\ last_modified_times[i] # src[i]
Stamped(i) == IF src[i] = 0 THEN out_last_modified_times
              ELSE [out_last_modified_times EXCEPT ![i] = src[i]]

(* What parse_file and the generators make of content v of input i; a file *)
(* that does not exist cannot be parsed.                                   *)
Judge(i, v) == IF v = 0 THEN "unparsable" ELSE Verdict[i][v]

(* Mutant: the output is written but not registered.                       *)
WriteUnregistered(i, os, content) ==
    /\ files' = [o \in Outputs |-> IF o \in os THEN content ELSE files[o]]
    /\ UNCHANGED generated_from

(* FileWriter::generated and TypeDB::save_type_data: the outputs os are    *)
(* written and registered as generated from input i.                       *)
Write(i, os, content) ==
    /\ files' = [o \in Outputs |-> IF o \in os THEN content ELSE files[o]]
    /\ generated_from' = [generated_from EXCEPT ![i] = @ \cup os]

(* Where the program of this session starts working, once setup is done.   *)
FirstPc == [p \in AllPrograms |->
    CASE p \in {"generate", "generate type_db"} -> "scan"
      [] p = "regenerate" -> "force"
      [] p = "generate bindings" -> "bind start"
      [] p \in {"clear", "clear type_db"} -> "clear types"
      [] p = "clear generated" -> "clear generated"]
FirstTodo(p) == IF p \in {"generate", "generate type_db"} THEN Present
                ELSE IF p = "regenerate" THEN Present \cap Sources ELSE {}
Dispatch(p) == pc' = FirstPc[p] /\ todo' = FirstTodo(p)

---------------------------------------------------------------------------
(* Mutant: a list of outputs always comes back as its first word.          *)
LoadedFirstWord(t) == [i \in Inputs |-> IF t[i] = {} THEN {} ELSE {Truncated}]

(* What load_generated_from_file makes of table t: the list of outputs is  *)
(* read back with operator>>, which stops at the first blank.              *)
Loaded(t) ==
    IF SpacesInPaths THEN [i \in Inputs |-> IF t[i] = {} THEN {} ELSE {Truncated}] ELSE t

(* Application::run and the first half of setup_context: the program is    *)
(* found and the two tables are loaded.                                    *)
Start(p) ==
    /\ pc = "idle" /\ p \in Programs
    /\ program' = p
    /\ last_modified_times' = last_modified_gocdb
    /\ out_last_modified_times' = last_modified_gocdb
    /\ generated_from' = Loaded(generated_from_gocdb)
    /\ pc' = "clean" /\ todo' = {i \in Inputs : generated_from_gocdb[i] # {}}
    /\ UNCHANGED <<userVars, records, products, regenerate_files, current, parsed,
                   bodies, upgrading>>

(* Mutants of CleanEntry: an input that misses an output is not marked; the *)
(* entry of an input that is gone is dropped, its outputs stay.            *)
CleanEntryUnmarked ==
    /\ pc = "clean"
    /\ \E i \in todo :
        /\ todo' = todo \ {i}
        /\ IF src[i] = 0
           THEN /\ Remove(generated_from[i])
                /\ generated_from' = [generated_from EXCEPT ![i] = {}]
           ELSE UNCHANGED <<files, generated_from>>
    /\ UNCHANGED <<userVars, records, macros, registered, input_cache, pc, program,
                   current, parsed, bodies, upgrading, last_modified_times,
                   out_last_modified_times, regenerate_files>>

CleanEntryLeaving ==
    /\ pc = "clean"
    /\ \E i \in todo :
        /\ todo' = todo \ {i}
        /\ IF src[i] = 0
           THEN /\ generated_from' = [generated_from EXCEPT ![i] = {}]
                /\ UNCHANGED regenerate_files
           ELSE /\ regenerate_files' = IF \E o \in generated_from[i] : ~Exists(o)
                                       THEN regenerate_files \cup {i}
                                       ELSE regenerate_files
                /\ UNCHANGED generated_from
    /\ UNCHANGED <<userVars, records, products, pc, program, current, parsed, bodies,
                   upgrading, last_modified_times, out_last_modified_times>>

(* One iteration of clean_generated_files.  The outputs of an input that   *)
(* is gone are removed with its entry; an input that misses an output is   *)
(* marked.                                                                 *)
CleanEntry ==
    /\ pc = "clean"
    /\ \E i \in todo :
        /\ todo' = todo \ {i}
        /\ \/ /\ src[i] = 0
              /\ Remove(generated_from[i])
              /\ generated_from' = [generated_from EXCEPT ![i] = {}]
              /\ UNCHANGED regenerate_files
           \/ /\ src[i] # 0
              /\ regenerate_files' = IF \E o \in generated_from[i] : ~Exists(o)
                                     THEN regenerate_files \cup {i}
                                     ELSE regenerate_files
              /\ UNCHANGED <<files, generated_from>>
    /\ UNCHANGED <<userVars, records, macros, registered, input_cache, pc, program,
                   current, parsed, bodies, upgrading, last_modified_times,
                   out_last_modified_times>>

CleanDone ==
    /\ pc = "clean" /\ todo = {}
    /\ pc' = "apply"
    /\ UNCHANGED <<userVars, records, products, tables, work, program, upgrading>>

(* Mutant: only the table that is compared with forgets the marked inputs, *)
(* not the one that will be saved.                                         *)
ApplyRegenerateHalf ==
    /\ pc = "apply"
    /\ last_modified_times' = [i \in Inputs |->
            IF i \in regenerate_files THEN 0 ELSE last_modified_times[i]]
    /\ generated_from' = [i \in Inputs |->
            IF i \in regenerate_files THEN {} ELSE generated_from[i]]
    /\ regenerate_files' = {}
    /\ IF build_number \notin {0, build}
       THEN /\ upgrading' = TRUE /\ pc' = "clear types"
            /\ UNCHANGED <<build_number, todo>>
       ELSE build_number' = build /\ Dispatch(program) /\ UNCHANGED upgrading
    /\ UNCHANGED <<userVars, last_modified_gocdb, generated_from_gocdb, products,
                   out_last_modified_times, program, current, parsed, bodies>>

(* regenerate_file_apply, then the build number: a goc of another version  *)
(* first runs Clear.                                                       *)
ApplyRegenerate ==
    /\ pc = "apply"
    /\ last_modified_times' = [i \in Inputs |->
            IF i \in regenerate_files THEN 0 ELSE last_modified_times[i]]
    /\ out_last_modified_times' = [i \in Inputs |->
            IF i \in regenerate_files THEN 0 ELSE out_last_modified_times[i]]
    /\ generated_from' = [i \in Inputs |->
            IF i \in regenerate_files THEN {} ELSE generated_from[i]]
    /\ regenerate_files' = {}
    /\ \/ /\ build_number \notin {0, build}
          /\ upgrading' = TRUE /\ pc' = "clear types"
          /\ UNCHANGED <<build_number, todo>>
       \/ /\ build_number \in {0, build}
          /\ build_number' = build
          /\ Dispatch(program)
          /\ UNCHANGED upgrading
    /\ UNCHANGED <<userVars, last_modified_gocdb, generated_from_gocdb, products,
                   program, current, parsed, bodies>>

(* ClearTypeDB::execute, one directory entry at a time.                    *)
ClearTypeEntry ==
    /\ pc = "clear types"
    /\ \E o \in TypeFiles : Exists(o) /\ Remove({o})
    /\ UNCHANGED <<userVars, records, macros, registered, input_cache, tables, work,
                   pc, program, upgrading>>

ClearTypesDone ==
    /\ pc = "clear types"
    /\ \A o \in TypeFiles : ~Exists(o)
    /\ pc' = IF upgrading \/ program = "clear" THEN "clear generated" ELSE "save times"
    /\ UNCHANGED <<userVars, records, products, tables, work, program, upgrading>>

(* ClearGenerated::execute, one directory entry at a time.  The parse      *)
(* cache is not among them.                                                *)
ClearGeneratedEntry ==
    /\ pc = "clear generated"
    /\ \/ /\ \E o \in GenFiles : Exists(o) /\ Remove({o})
          /\ UNCHANGED <<macros, registered>>
       \/ macros # 0 /\ macros' = 0 /\ UNCHANGED <<files, registered>>
       \/ /\ \E s \in Sources : registered[s] # 0
          /\ registered' = [s \in Sources |-> 0]
          /\ UNCHANGED <<files, macros>>
    /\ UNCHANGED <<userVars, records, input_cache, tables, work, pc, program, upgrading>>

(* Mutant: Clear removes the files and remembers them as generated.        *)
ClearGeneratedDoneKeeping ==
    /\ pc = "clear generated"
    /\ macros = 0
    /\ \A o \in GenFiles : ~Exists(o)
    /\ \A s \in Sources : registered[s] = 0
    /\ IF upgrading THEN build_number' = build /\ Dispatch(program)
       ELSE pc' = "save times" /\ UNCHANGED <<build_number, todo>>
    /\ upgrading' = FALSE
    /\ UNCHANGED <<userVars, last_modified_gocdb, generated_from_gocdb, products, tables,
                   current, parsed, bodies, program>>

(* The end of Clear::execute forgets the tables; the one of ClearGenerated *)
(* leaves them.  After an upgrade setup_context goes on to the program.    *)
ClearGeneratedDone ==
    /\ pc = "clear generated"
    /\ macros = 0
    /\ \A o \in GenFiles : ~Exists(o)
    /\ \A s \in Sources : registered[s] = 0
    /\ \/ /\ upgrading \/ program = "clear"
          /\ last_modified_times' = NoStamps /\ out_last_modified_times' = NoStamps
          /\ generated_from' = NoOutputs
       \/ /\ ~upgrading /\ program = "clear generated"
          /\ UNCHANGED <<last_modified_times, out_last_modified_times, generated_from>>
    /\ \/ upgrading /\ build_number' = build /\ Dispatch(program)
       \/ ~upgrading /\ pc' = "save times" /\ UNCHANGED <<build_number, todo>>
    /\ upgrading' = FALSE
    /\ UNCHANGED <<userVars, last_modified_gocdb, generated_from_gocdb, products,
                   regenerate_files, current, parsed, bodies, program>>

---------------------------------------------------------------------------
(* Generate::execute with --generate_flags=regenerate_bindings: one call   *)
(* of force_regenerate.  A source given as .cpp has no entry under its own *)
(* name in any table, so the call changes nothing.                         *)
ForceRegenerate ==
    /\ pc = "force"
    /\ \E s \in todo :
        /\ todo' = todo \ {s}
        /\ IF s \in ForcedKeys
           THEN /\ Remove(generated_from[s])
                /\ generated_from' = [generated_from EXCEPT ![s] = {}]
                /\ last_modified_times' = [last_modified_times EXCEPT ![s] = 0]
                /\ out_last_modified_times' = [out_last_modified_times EXCEPT ![s] = 0]
           ELSE UNCHANGED <<files, generated_from, last_modified_times,
                            out_last_modified_times>>
    /\ UNCHANGED <<userVars, records, macros, registered, input_cache, regenerate_files,
                   current, parsed, bodies, pc, program, upgrading>>

ForceDone ==
    /\ pc = "force" /\ todo = {}
    /\ pc' = "scan" /\ todo' = Present
    /\ UNCHANGED <<userVars, records, products, tables, current, parsed, bodies,
                   program, upgrading>>

(* GenerateTypeDB::generate_from_file up to the call of the parser.        *)
ScanCheck ==
    /\ pc = "scan"
    /\ \E i \in todo :
        /\ todo' = todo \ {i}
        /\ out_last_modified_times' = Stamped(i)
        /\ \/ Modified(i) /\ pc' = "scan parse" /\ current' = i
           \/ ~Modified(i) /\ UNCHANGED <<pc, current>>
    /\ UNCHANGED <<userVars, records, products, last_modified_times, generated_from,
                   regenerate_files, parsed, bodies, program, upgrading>>

(* Mutant: a type that is in the TypeDB already is not written again.      *)
ScanParseOnce ==
    /\ pc = "scan parse" /\ pc' = "scan"
    /\ IF Judge(current, src[current]) = "unparsable"
       THEN UNCHANGED <<files, generated_from>>
       ELSE Write(current,
                  {o \in {TypeFile(t) : t \in TypesOf[current][src[current]]} : ~Exists(o)},
                  [by |-> current, at |-> src[current], bodies |-> TRUE])
    /\ UNCHANGED <<userVars, records, macros, registered, input_cache,
                   last_modified_times, out_last_modified_times, regenerate_files, work,
                   program, upgrading>>

(* The parse reads the file as it is now.  A parser error is dropped.      *)
ScanParse ==
    /\ pc = "scan parse" /\ pc' = "scan"
    /\ \/ /\ Judge(current, src[current]) # "unparsable"
          /\ Write(current, {TypeFile(t) : t \in TypesOf[current][src[current]]},
                   [by |-> current, at |-> src[current], bodies |-> TRUE])
       \/ /\ Judge(current, src[current]) = "unparsable"
          /\ UNCHANGED <<files, generated_from>>
    /\ UNCHANGED <<userVars, records, macros, registered, input_cache,
                   last_modified_times, out_last_modified_times, regenerate_files, work,
                   program, upgrading>>

ScanDone ==
    /\ pc = "scan" /\ todo = {}
    /\ pc' = IF program = "generate type_db" THEN "save times" ELSE "bind start"
    /\ UNCHANGED <<userVars, records, products, tables, work, program, upgrading>>

---------------------------------------------------------------------------
(* Mutant: the api's time is compared with the one the scan has just noted. *)
BindStartNoted ==
    /\ pc = "bind start"
    /\ \A t \in AssumedTypes : Exists(TypeFile(t))
    /\ macros' = IF out_last_modified_times[Api] # src[Api] THEN src[Api] ELSE macros
    /\ out_last_modified_times' = Stamped(Api)
    /\ pc' = "bind" /\ todo' = Present \cap Sources
    /\ UNCHANGED <<userVars, records, files, registered, input_cache,
                   last_modified_times, generated_from, regenerate_files, current,
                   parsed, bodies, program, upgrading>>

(* GenerateBindings::execute and execute_extension: with the assumptions   *)
(* validated, the macro and core includes follow the extension api.        *)
BindStart ==
    /\ pc = "bind start"
    /\ \A t \in AssumedTypes : Exists(TypeFile(t))
    /\ macros' = IF Modified(Api) THEN src[Api] ELSE macros
    /\ out_last_modified_times' = Stamped(Api)
    /\ pc' = "bind" /\ todo' = Present \cap Sources
    /\ UNCHANGED <<userVars, records, files, registered, input_cache,
                   last_modified_times, generated_from, regenerate_files, current,
                   parsed, bodies, program, upgrading>>

(* The head of the loop of generate_bindings: the cached parse is used if  *)
(* the file is not modified.                                               *)
Bind ==
    /\ pc = "bind"
    /\ \E s \in todo :
        /\ todo' = todo \ {s} /\ current' = s
        /\ out_last_modified_times' = Stamped(s)
        /\ \/ /\ ~Modified(s) /\ input_cache[s] # 0
              /\ parsed' = [parsed EXCEPT ![s] = input_cache[s]]
              /\ pc' = "classes"
           \/ /\ Modified(s) \/ input_cache[s] = 0
              /\ pc' = "parse"
              /\ UNCHANGED parsed
    /\ UNCHANGED <<userVars, records, products, last_modified_times, generated_from,
                   regenerate_files, bodies, program, upgrading>>

(* Mutant: the parse is not cached.                                        *)
ParseUncached ==
    /\ pc = "parse" /\ pc' = "classes"
    /\ Judge(current, src[current]) # "unparsable"
    /\ parsed' = [parsed EXCEPT ![current] = src[current]]
    /\ UNCHANGED <<userVars, records, products, tables, todo, current, bodies, program,
                   upgrading>>

(* Otherwise the file is parsed as it is now, and the parse cached.        *)
Parse ==
    /\ pc = "parse" /\ pc' = "classes"
    /\ Judge(current, src[current]) # "unparsable"
    /\ parsed' = [parsed EXCEPT ![current] = src[current]]
    /\ input_cache' = [input_cache EXCEPT ![current] = src[current]]
    /\ UNCHANGED <<userVars, records, files, macros, registered, tables, todo, current,
                   bodies, program, upgrading>>

(* The loop over the classes: registration always, the class bodies only   *)
(* if the file is (still) modified.                                        *)
Classes ==
    /\ pc = "classes" /\ pc' = "emit"
    /\ Judge(current, parsed[current]) # "rejected"
    /\ bodies' = Modified(current)
    /\ out_last_modified_times' = Stamped(current)
    /\ UNCHANGED <<userVars, records, products, last_modified_times, generated_from,
                   regenerate_files, todo, current, parsed, program, upgrading>>

(* Mutant: the generated files are written whether or not.                 *)
EmitAlways ==
    /\ pc = "emit" /\ pc' = "bind"
    /\ out_last_modified_times' = Stamped(current)
    /\ Write(current, {Gen(current)},
             [by |-> current, at |-> parsed[current], bodies |-> bodies])
    /\ UNCHANGED <<userVars, records, macros, registered, input_cache,
                   last_modified_times, regenerate_files, work, program, upgrading>>

(* The two generated files are written if the file is modified.            *)
Emit ==
    /\ pc = "emit" /\ pc' = "bind"
    /\ out_last_modified_times' = Stamped(current)
    /\ \/ /\ Modified(current)
          /\ Write(current, {Gen(current)},
                   [by |-> current, at |-> parsed[current], bodies |-> bodies])
       \/ ~Modified(current) /\ UNCHANGED <<files, generated_from>>
    /\ UNCHANGED <<userVars, records, macros, registered, input_cache,
                   last_modified_times, regenerate_files, work, program, upgrading>>

(* generated_register_types is rewritten from all the classes just seen.   *)
Register ==
    /\ pc = "bind" /\ todo = {}
    /\ registered' = parsed
    /\ pc' = "save times"
    /\ UNCHANGED <<userVars, records, files, macros, input_cache, tables, work, program,
                   upgrading>>

---------------------------------------------------------------------------
(* Application::cleanup writes the two tables one after the other.         *)
SaveTimes ==
    /\ pc = "save times" /\ pc' = "save generated_from"
    /\ last_modified_gocdb' = out_last_modified_times
    /\ UNCHANGED <<userVars, generated_from_gocdb, build_number, products, tables, work,
                   program, upgrading>>

SaveGeneratedFrom ==
    /\ pc = "save generated_from" /\ pc' = "exit"
    /\ generated_from_gocdb' = generated_from
    /\ UNCHANGED <<userVars, last_modified_gocdb, build_number, products, tables, work,
                   program, upgrading>>

Exit ==
    /\ pc = "exit" /\ Forget
    /\ UNCHANGED <<userVars, records, products>>

(* Mutant: a program that fails saves the times it noted.                  *)
FailSaving ==
    /\ \/ pc = "bind start" /\ \E t \in AssumedTypes : ~Exists(TypeFile(t))
       \/ pc = "parse" /\ Judge(current, src[current]) = "unparsable"
       \/ pc = "classes" /\ Judge(current, parsed[current]) = "rejected"
    /\ last_modified_gocdb' = out_last_modified_times
    /\ Forget
    /\ UNCHANGED <<userVars, generated_from_gocdb, build_number, products>>

(* A PROG_ERR_COND of generate_bindings: the program ends, and nothing is  *)
(* saved.                                                                  *)
Fail ==
    /\ \/ pc = "bind start" /\ \E t \in AssumedTypes : ~Exists(TypeFile(t))
       \/ pc = "parse" /\ Judge(current, src[current]) = "unparsable"
       \/ pc = "classes" /\ Judge(current, parsed[current]) = "rejected"
    /\ Forget
    /\ UNCHANGED <<userVars, records, products>>

(* The process is killed.  A table that was being written may be left      *)
(* truncated, which load_..._file takes for an absent one.                 *)
Crash ==
    /\ pc # "idle" /\ pc \in CrashPoints /\ crashes < MaxCrashes
    /\ crashes' = crashes + 1
    /\ \/ UNCHANGED <<last_modified_gocdb, generated_from_gocdb>>
       \/ /\ pc = "save times" /\ last_modified_gocdb' = NoStamps
          /\ UNCHANGED generated_from_gocdb
       \/ /\ pc = "save generated_from" /\ generated_from_gocdb' = NoOutputs
          /\ UNCHANGED last_modified_gocdb
    /\ Forget
    /\ UNCHANGED <<src, clock, build, build_number, products>>

Session ==
    \/ CleanEntry \/ CleanDone \/ ApplyRegenerate
    \/ ClearTypeEntry \/ ClearTypesDone \/ ClearGeneratedEntry \/ ClearGeneratedDone
    \/ ForceRegenerate \/ ForceDone
    \/ ScanCheck \/ ScanParse \/ ScanDone
    \/ BindStart \/ Bind \/ Parse \/ Classes \/ Emit \/ Register
    \/ SaveTimes \/ SaveGeneratedFrom \/ Exit \/ Fail

---------------------------------------------------------------------------
(* The user.                                                               *)
UserMayAct(a) == a \in UserActions /\ (pc = "idle" \/ ConcurrentEdits)
session == <<records, tables, work, pc, program, upgrading>>

(* A new content, with a modification time the file never had.             *)
Edit(i) ==
    /\ UserMayAct("edit") /\ clock[i] < MaxStamp
    /\ clock' = [clock EXCEPT ![i] = @ + 1]
    /\ src' = [src EXCEPT ![i] = clock[i] + 1]
    /\ UNCHANGED <<build, crashes, products, session>>

Delete(s) ==
    /\ UserMayAct("delete") /\ src[s] # 0
    /\ src' = [src EXCEPT ![s] = 0]
    /\ UNCHANGED <<clock, build, crashes, products, session>>

(* An earlier file is moved back, with the modification time it had.       *)
Restore(s, v) ==
    /\ UserMayAct("restore") /\ v \in 1 .. clock[s] /\ v # src[s]
    /\ src' = [src EXCEPT ![s] = v]
    /\ UNCHANGED <<clock, build, crashes, products, session>>

RemoveOutput(o) ==
    /\ UserMayAct("remove") /\ Exists(o) /\ Remove({o})
    /\ UNCHANGED <<userVars, macros, registered, input_cache, session>>

Install ==
    /\ pc = "idle" /\ build < MaxBuild
    /\ build' = build + 1
    /\ UNCHANGED <<src, clock, crashes, products, session>>

User ==
    \/ \E i \in Edited : Edit(i)
    \/ \E s \in Sources : Delete(s)
    \/ \E s \in Sources, v \in Stamps : Restore(s, v)
    \/ \E o \in Outputs : RemoveOutput(o)
    \/ Install

Next == (\E p \in Programs : Start(p)) \/ Session \/ Crash \/ User

Spec == Init /\ [][Next]_vars

(* A started session runs on until it ends (it waits for nothing), and a   *)
(* build system that calls the tool calls it again.                        *)
FairSpec == Spec /\ WF_vars(Session) /\ WF_vars(Start("generate"))

---------------------------------------------------------------------------
(* Types of the variables: the tables are total functions, stamp 0 and     *)
(* the empty set standing for absent entries.                              *)
TypeOK ==
    /\ src \in [Inputs -> Stamps] /\ clock \in [Inputs -> Stamps]
    /\ build \in 1 .. MaxBuild /\ crashes \in 0 .. MaxCrashes
    /\ files \in [Outputs -> Content \cup {Missing}]
    /\ macros \in Stamps
    /\ registered \in [Sources -> Stamps] /\ input_cache \in [Sources -> Stamps]
    /\ last_modified_gocdb \in [Inputs -> Stamps]
    /\ generated_from_gocdb \in [Inputs -> SUBSET Outputs]
    /\ build_number \in 0 .. MaxBuild
    /\ pc \in Pcs /\ program \in AllPrograms \cup {"none"}
    /\ pc # "idle" => program \in AllPrograms
    /\ todo \subseteq Inputs /\ current \in Inputs
    /\ pc \in {"bind", "parse", "classes", "emit"} => todo \subseteq Sources
    /\ pc \in {"parse", "classes", "emit"} => current \in Sources
    /\ last_modified_times \in [Inputs -> Stamps]
    /\ out_last_modified_times \in [Inputs -> Stamps]
    /\ generated_from \in [Inputs -> SUBSET Outputs]
    /\ regenerate_files \subseteq Inputs
    /\ upgrading \in BOOLEAN /\ bodies \in BOOLEAN
    /\ parsed \in [Sources -> Stamps]

FreshGen(s) == files[Gen(s)] = [by |-> s, at |-> src[s], bodies |-> TRUE]
FreshType(i, t) == files[TypeFile(t)] = [by |-> i, at |-> src[i], bodies |-> TRUE]
Recorded(i) == src[i] # 0 /\ last_modified_gocdb[i] = src[i]
Generated == pc = "exit" /\ program \in Generating

(* What is on disk between sessions, and after a kill in any of them: a    *)
(* source that last_modified.gocdb calls up to date has its outputs made   *)
(* from its present content, or has lost them and is still listed in       *)
(* generated_from.gocdb, by which the next session notices.                *)
RecordedIsRecoverable ==
    \A s \in Sources : Recorded(s) =>
        \/ FreshGen(s)
        \/ ~Exists(Gen(s)) /\ Gen(s) \in generated_from_gocdb[s]

(* A source called up to date has its present content in input_cache, from *)
(* which the next session registers its classes without parsing it.        *)
CacheFollowsRecord ==
    \A s \in Sources : Recorded(s) => input_cache[s] = src[s]

(* generate_type_db.cpp:75: "Skipping ... Not modified."  What a session    *)
(* has recorded and nobody has touched is not parsed again by the next.    *)
RecordedIsSkipped ==
    pc = "scan parse" /\ program = "generate" /\ Recorded(current) =>
        \E o \in generated_from_gocdb[current] : ~Exists(o)

(* docs/cli/generate.rst: a successful generate leaves the generated files *)
(* of every source it was given, made from the source as it is.            *)
SourcesComplete ==
    Generated => \A s \in Sources \cap Present : FreshGen(s)

(* A successful generate registers the classes of exactly the sources      *)
(* there are, each as it is now, and leaves a TypeDB that answers for every *)
(* declared type with its present declaration.                             *)
RegistrationComplete == \A s \in Sources : registered[s] = src[s]
TypesComplete ==
    \A i \in Present : Judge(i, src[i]) # "unparsable" =>
        \A t \in TypesOf[i][src[i]] : FreshType(i, t)
TablesComplete == Generated => RegistrationComplete /\ TypesComplete

(* After a successful generate macros.h and core_includes.h are there, for *)
(* the present extension api.                                              *)
MacrosComplete == Generated => macros = src[Api]

(* No session that succeeds leaves an output of a source that is gone.     *)
NoOrphans ==
    pc = "exit" => \A o \in Outputs : Exists(o) => src[files[o].by] # 0

(* docs/cli/clear.rst: clear is the way out of "an unrecoverable issue".   *)
(* After one that succeeds there is no output and no record of one, so     *)
(* that the next session starts as the first did; whatever happened before *)
(* and whoever edits meanwhile.                                            *)
ClearedIsClean ==
    pc = "exit" /\ program = "clear" =>
        /\ \A o \in Outputs : ~Exists(o)
        /\ macros = 0 /\ \A s \in Sources : registered[s] = 0
        /\ last_modified_gocdb = NoStamps /\ generated_from_gocdb = NoOutputs

(* Once the user leaves the project in a state the generators accept,      *)
(* repeated runs of generate reach a state where every output is fresh.    *)
Acceptable == \A i \in Present : Judge(i, src[i]) = "ok"
Settled ==
    /\ \A s \in Sources \cap Present : FreshGen(s)
    /\ \A s \in Sources : registered[s] = src[s]
    /\ \A i \in Present : \A t \in TypesOf[i][src[i]] : FreshType(i, t)
    /\ macros = src[Api]
Converges == <>[]Acceptable => <>[]Settled

(* ... and from then on no file is parsed any more.                        *)
BecomesIncremental == <>[]Acceptable => <>[](pc \notin {"scan parse", "parse"})

===========================================================================
