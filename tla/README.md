# Verification of godot-object-compiler

`goc` reads the C++ headers of a Godot extension, records the types they declare, and
generates for every header with a `GODOT_GENERATED_CLASS` the `.generated.h` and
`.generated.cpp` that bind its classes to Godot.  A build system calls it before every
compilation, so nearly all of its risk lies in what it remembers between calls: a
modification time recorded too early, an output forgotten, a lock left behind.  Inside one
call the risk lies in the texts having to agree: a property that names a setter nobody
bound, a definition without a declaration, a type found under another type's name, a macro
generated for a line the compiler will not ask for.

This project models both, checks the models with TLC on small instances, and proves the
central statements with TLAPS for every value of the constants.

## 1. Inventory

Paths are under `src/src/`.

| Component | State | Operations | What makes it correct |
|---|---|---|---|
| Incremental build: `library/library_context.cpp`, `application/programs/generate*.cpp`, `clear.cpp` | `last_modified.gocdb`, `generated_from.gocdb`, `last_goc_build_number.txt`, `type_db/`, `input_cache/`, the generated folder; in memory the loaded and the outgoing table of times, the table of outputs, the set to regenerate | load, clean, apply, scan, bind, emit, register, save; clear, clear generated, clear type_db | a source recorded as up to date has its outputs or is known to miss them; a successful `generate` is complete; repeated runs settle |
| Process lock and exit marker: `application/application.cpp` | `.lock`, `.goc_graceful_lock` | `LockFile` construction, lock, try_lock, unlock, destruction; `exit_gracefully` | no process hangs or trips over what another left; an ungraceful exit is noticed |
| Program search, arguments: `application/programs/program.cpp`, `application/arguments/` | registered programs, argument values, path aliases | find the program, parse a list in passes until none adds a value | the longest match wins; aliases settle whatever the order; every part of a run gets the same paths |
| C++ parser: `library/parsers/libclang/`, `parsers/common.cpp` | the text given to libclang, the tree being built, where the next node goes | strip excluded sections, one handler per cursor kind | the tree nests as the header does; a macro carries the line the compiler will ask for; types survive |
| Attributes: `parsers/attribute_argument_parser.cpp`, `attribute_db.cpp`, `library_godot/attributes/`, assumptions | tables filled before `main`; the names of Godot's values, listed on demand | split and parse arguments, merge defaults, read them | the tree has what the compiler sees; the generators read what was written, or the default |
| Extension api: `library_godot/parsers/extension_api_parser.cpp` | the header of every class name | list the headers, parse the json | an engine type has the header that declares it |
| Type database: `library/type_db.cpp` | one file per type and attribute, a cache in memory | save, look up (namespaces, usings, template counts), read and write trees | what is read is what was written; the lookup finds what C++ would; the cache changes nothing |
| Syntax tree, node database: `library/tree/syntax/`, `library/node_db.cpp` | parent and child links, indices, ids, `_nodes` | add, insert, remove, replace, clone, create, change id; searches | links agree in both directions; an id finds its node; a search finds what the user wrote |
| Generators: `library_godot/generators/` | injected members, generated sources, `_bind_methods`, the register body, the name lists | one generator per attribute, over the entries of a class body in order | the generated code compiles, and Godot finds every name it is told |
| Output tree: `library/tree/output/` | a second tree | transform syntax nodes to text nodes, print | what compiles is what was built |
| String utilities: `library/core/string_utilities.cpp` | none | split, trim, match, wrap, change case | they agree with each other |
| Compiled resources, developer programs, build scripts | none | - | not modelled, see section 6 |

How they interact.  `Application::run` reads the command line, takes the lock, loads the
tables into `LibraryContext`, and runs a program.  `generate` runs the scan (`generate
type_db`: parse the api and every input that is modified, write their types) and then
`generate bindings` (for every source: the parse or its cached copy, the generators for every
class, the two files if the source is modified; at the end the registration of all classes).
Both halves ask and update the same table of modification times through `file_modified`;
every writer registers what it writes with `register_generated_file`; `cleanup` saves both
tables at the end of a program that succeeded.  The generators look types up in the TypeDB,
whose files are syntax trees read back through the node database, where some of their nodes
may still be alive; what they build is printed through the output tree.

What is hard here.  The steps of one session against edits, deletions and kills between any
two of them; tables that answer from one copy and are saved from another; programs run in an
order the author did not have in mind; two processes over check-then-act files; destructors
of temporaries that remove a file; one generator that fails after another has added its
part; nodes that are cloned, replaced and re-read while others remember their ids; handlers
that move the point of insertion under a visitor that is called again from inside; tables
filled by whoever asks first; names cut at the wrong end.  `PROJECT.json` lists the hazards
with the line where each bites.

## 2. Modules

| Module | Models |
|---|---|
| `IncrementalBuild` | the goc directory and one session after another, with the user, installs of new versions and kills |
| `BuildContract` | abstract: what `generate` promises, whatever it remembers |
| `IncrementalBuildInv` | the refinement mapping to `BuildContract`, the disciplines the theorems need, the inductive invariants |
| `IncrementalBuildProofs`, `TablesProofs` | theorems about the three above: the outputs and the contract; the other tables, and what clear and cleaning leave |
| `LockFiles`, `LockFilesProofs` | `LockFile` over `.lock` and the marker, by several processes; theorems |
| `CommandLine`, `CommandLineProofs` | `find_program`, the lists of arguments and the passes over them, through one run of the tool; theorems |
| `HeaderParser` | from the lines of a header to its syntax tree and the names of its macros |
| `TreeSearch` | extends it: what the programs search that tree for |
| `AttributeArguments` | from the text in the brackets of an attribute to what its generator reads |
| `ExtensionApi` | the headers of godot-cpp and the types of `extension_api.json` |
| `TypeLookup`, `TypeLookupProofs` | extends it: the files of the TypeDB, the lookup and its cache, the walk along bases; theorems |
| `EngineTypes` | extends that: what the TypeDB has to say of the types of the engine |
| `SyntaxTree`, `SyntaxTreeProofs` | the heap of nodes, ids, clones, and the files trees are kept in; theorems |
| `ClassBindings`, `ClassBindingsProofs` | one run of `generate_bindings` over the classes and their entries; theorems |
| `Characters`, `Strings` | the case of letters; the string utilities |
| `BasicFacts` | lemmas the proofs share, about numbers, sequences and their places, iterated functions, the elements of a set in order |
| `OutputTree` | extends it: output nodes, the transformation of syntax nodes, printing |
| `GeneratedText` | extends that: types from clang's spelling to the printed header, source and `macros.h` |
| `MC...` | their instances for TLC |

**IncrementalBuild.**  An input (a header or `extension_api.json`) is known by its
modification stamp, 0 for a file that is not there; an output by the input and stamp it was
made from.  Every product thus carries what it *is*, and the tables what the tool *believes*.
`pc` is the line the session is at; each action is one iteration of a loop or one call that
writes a file.  `Start` is `Application::run` up to the two loads, `CleanEntry` and
`ApplyRegenerate` are `clean_generated_files` and `regenerate_file_apply`, `Scan*` are
`GenerateTypeDB`, `BindStart`, `Bind`, `Parse`, `Classes`, `Emit`, `Register` are
`GenerateBindings`, `Clear*` the three clear programs, `Save*` is `cleanup`.  `Fail` is a
`PROG_ERR_COND`: nothing is saved (the process still exits with code 0,
`application.cpp:59-69`).  `Crash` is a kill at any `pc` in `CrashPoints`; a table that was
being written may be left truncated, which loading takes for absent.

**LockFiles.**  Each process walks through the stages of `Application::run`; a stage is a few
file operations (`op`), each its own step, so that every check can be stale when acted on.
The line `lock = LockFile(...)` constructs a temporary whose destructor removes the file if it
exists: stages "construct lock" and "construct marker".

**CommandLine.**  `lists` are the argument lists still to be parsed before `stage` goes on;
`Pass` is one pass of `parse_arguments`, which resolves aliases to what is registered so far;
`PassThrows` the text that throws in the middle of one.  The other actions are the parts of
the tool that register lists and ask for values.  `texts` and `rest` are the arguments the context
holds: all the user gave in `Application::run`, what `find_program` left after it.  Without a
program it leaves none (`program.cpp:72`), so that `setup_context` parses the defaults, shows
help and ends.  `Reference` follows the aliases without passes or order.

**HeaderParser, TreeSearch.**  A header is a sequence of line kinds, a declaration is its
line.  `GiveText` is all that happens before libclang (sections removed, includes ended), each
`Handle*` one handler of a cursor; `frames` is where nodes go and what is restored.  A node is
its kind, its declaration and its parent; `TreeSearch` has the searches of `Node` and
`Context` over these, and what is read lazily.

**AttributeArguments.**  A text is a sequence of tokens.  The actions follow one attribute
through split, parse, merge of defaults and the generator that reads it, header after header,
with the tables that stay filled in between; `Compiles` and `Meant` say what the C++ compiler
sees, from the prototypes in `macros.h`.

**ExtensionApi, TypeLookup.**  Names are sequences of characters, qualified names sequences of
those.  `IncludeFile` is one file of `setup_include_paths`, `ApiTypes` what `parse_file`
gives; `ParseApi` saves it, `Save` a type of the user; `Validate` looks the assumed types up,
`LookUp` any name from any namespace; `AskBase`, `NextBase` are the recursion of
`class_has_base_class`.  `Cpp` is the abstract lookup: scopes from the inside out.

**SyntaxTree.**  A node lives while someone holds it or an owner of it (`Becomes` collects
the rest, as the `Ref`s do).  `Read` is `read_from_file`: sections whose node lives become
clones, their children are skipped, the other sections become nodes with the ids of the file.

**ClassBindings.**  A name is a sequence of parts.  An entry is an attribute and its target;
each `Generate*` operator gives what a generator adds (members, definitions, bound methods,
properties, signals, names) or a failure.  `Init` takes every class the MC module lists.

**Strings, OutputTree, GeneratedText.**  Pure operators, and three actions that use them as
the programs do (`GenerateMacroInclude`, `Read`, `GenerateBindings`).  `Meant` gives the tokens
of a node tree without the layout, `CompiledLines` what the compiler makes of a text.

## 3. Runs

Passing runs:

| Run | Instance | Shows |
|---|---|---|
| `durable` | two headers, two contents each, one rejected by the generators, one unparsable; generate, regenerate, clear, clear type_db; edits, deletions, lost outputs; one kill anywhere but between the last two writes | recorded means recoverable, caches follow the record, success means complete, nothing recorded is parsed again, `BuildContract` is implemented, `WholeInv` holds |
| `upgrade` | a second goc version, edits of the api, deleted and restored headers, `generate bindings` alone | `macros.h` follows the api, no orphan, clear is clean |
| `converge` | fairness, edits, one kill at *any* point | once the project is acceptable and left alone, the outputs settle, and then nothing is parsed any more |
| `locks` | three launches of two processes, overlapping or not, two kills, panics | until the first overlap no assertion of `LockFile` fails, a stale lock does not block, the marker means an ungraceful exit and a graceful one leaves nothing; until the first kill everyone ends |
| `command_line` | two usual command lines, up to two arguments of each replaced by aliases, alias circles, unknown flags; eight lists of words, two of them without a program | the longest program runs; parsing ends with what the arguments at hand say, in any order, and each part of the run gets the same values, but for a run that has ended without a program |
| `header_tree` | four drafts, up to two more lines of nineteen kinds anywhere, with and without attribute arguments | the tree is the header; the macros expand; searches find what was written |
| `arguments` | six macros, up to three arguments and flags, literals with commas and escaped quotes, an api that lacks names | the arguments are those the compiler sees; generators read them or the defaults |
| `type_lookup` | eleven apis, some defective, over four lists of include directories; up to two of seven user types, a whole namespace, one inheritance chain, a template beside a class of its name; names from everywhere | engine types have their header, the cache is exact, C++ would find the same, bases are recognised and the walk ends |
| `syntax_tree` | trees of up to three nodes and their clones (five alive), two edits and any number of reads after the file was written | links, indices and ids agree, a replacement keeps the id, a file reads back as written whoever is alive, copies share nothing |
| `class_bindings` | every body of up to three of twenty-four entries, pairs of classes, every hierarchy of four | the generated parts compile together with the class and agree on every name; bases are registered first |
| `generated_text` | properties and virtual functions of types in many spellings, up to two members; macro tables; every text of up to four characters | types read back, the printed files are the built trees, the string utilities agree |

Violation run:

| Run | Statement | What happens |
|---|---|---|
| `flags_hint` | `docs/macros/parameters/GOC_EnumGeneratorOptions.rst:14`, properties of an `EnumFlags` enum are shown as flags | the TypeDB was filled by a scan that skips arguments, so the option is never seen; and `HintFlags()` would panic, its validation is commented out |

**Bounds and why they suffice.**  *Build*: two headers, since the tables are per input and the
only interaction between sources is through the loop order, the shared save and the shared
type files; `b` renames its type between contents.  Two contents: stale against fresh; the
proofs need no bound.  One kill: what a session leaves is all that the next can see, and
`WholeInv` says it for any number.  *Locks*: two kills leave a marker and a lock from different
processes.  *Command line*: two unusual arguments make a circle of aliases or a chain through
a default.  *Header*: each draft has what nests; two added lines make a section, a pair of an
attribute and its target, or one block in another; nodes are only added next to `current`, so
that longer bodies repeat this.  *Arguments*: an argument is parsed by the prototypes left
over by those before it; three show one consumed in between; the int property alone has that
many, the other types fewer (`Types`, `Lacks`).  *Lookup*: two types show any one name hiding
another, `MaxCached` = 2 a stale answer and one that builds on it; a whole namespace is there
for names of three parts; the types of the api are saved in one step, since nothing is looked
up before.  *Tree*: a parent, child and grandchild of which any part can be dropped, plus
what a clone or a read adds; `replace_child` that takes children needs a fourth node, a clone.
*Bindings*: a generator reads at most a property and the two accessors it names; an heir, its
base, the base's base and one in between.  *Text*: two members show each separator; four
characters a delimiter, a blank and two others.

**Fairness.**  `WF_vars(Session)`: a session never waits, so it goes on to its end or is
killed (kills are bounded).  `WF_vars(Start("generate"))`: the build system calls the tool
again; the statements of `converge` are about such a user.  `WF_vars(Step(p))` for each process
of `LockFiles`: the operating system schedules it, and the program it runs ends.
`WF_vars(BaseFound \/ NoBase \/ NextBase)`: the recursion of `class_has_base_class` goes on.

**Deadlock** is checked in `command_line` and `type_lookup`, whose final states stutter
explicitly.  It is switched off where the system may stop: a user stops calling the tool,
launches and edits are bounded, a header, a class or an attribute is done.

## 4. Proofs

All theorems hold for every value of the constants that satisfies the `ASSUME`s of the
modules (types of the constants, no more than the code reads) and the hypotheses named here.

| Theorem | States | Under |
|---|---|---|
| `IncrementalBuildProofs`: `TypeCorrect` | `TypeOK` | - |
| `Invariance`, `Recoverable`, `Complete` | `IInv`, `RecordedIsRecoverable`, `SourcesComplete` | `Disciplined` |
| `Refinement` | `Spec => Contract!Spec`: every step of the tool, its user and its killer is one `BuildContract` allows | `Disciplined` |
| `TablesProofs`: `CacheFollows` | `CacheFollowsRecord` | `Disciplined` |
| `TablesFollow` | `TablesComplete` | `Disciplined`, `OneOwner` |
| `WholeInvariance`, `Skipped` | `WholeInv`, `RecordedIsSkipped` | `Disciplined`, `OneOwner`, `GodotApi` |
| `Cleared` | `ClearedIsClean` | - |
| `MacrosFollow` | `MacrosComplete` | `Disciplined`, `MacrosKept` |
| `OrphansGone` | `NoOrphans` | `Disciplined`, `OneOwner`, `Tidy` |
| `LockFilesProofs`: `LockTypes` | `TypeOK`, also of processes that overlap | - |
| `SequentialNeverPanics`, `SequentialMarker` | `NoLockPanic`, `MarkerMeansUngraceful` | - (`~overlapped` is in the properties) |
| `ClassBindingsProofs`: `Emitted` | `EmittedIsAdded` | - |
| `Ordered` | `RegisteredInOrder` | `Orderly` |
| `Compiles` | `SourcesCompile` | `EvenNames` |
| `Agree` | `NamesAgree` | `OwnAccessors` |
| `CommandLineProofs`: `Longest`, `Same` | `LongestProgram`, `SameValues` | - (what holds without a program is in the properties) |
| `TypeLookupProofs`: `Cached` | `CacheExact` | - |
| `FindsRight`, `Descends` | `FindsWhatCppFinds`, `BasesRecognized` | - (`NoHomonyms`, `OneTypePerName`, `BasesAreQualified` are in the properties) |
| `SyntaxTreeProofs`: `TreeStaysIntact` | `TreeIntact` | `Fresh = TRUE` |
| `CopiesStayApart` | `CopiesAreApart` | `Fresh = TRUE` |
| `ReplacementsKeepIds` | `ReplacementKeepsId` | `Fresh = TRUE` |

**The hypotheses** describe the use, never the code, and each conjunct is needed: section 5
has the counterexample.  `Disciplined`: no file comes back with an old time, nobody edits
while the tool runs, no blank in a path, the halves of `generate` are not run alone, and no
kill between the last two writes.  `OneOwner`: two inputs never declare one type.  `GodotApi`:
`extension_api.json` parses and declares something.  `MacrosKept`: what loses `macros.h` while
the api counts as modified does not occur.  `Tidy`: every session succeeds and only the tool
removes outputs.  `Orderly`: no accessor that is renamed or bound later, no heir before the
base of its base.  `EvenNames`: no signal, and no property that emits one, is exposed under
another name.  `OwnAccessors`: no two custom properties share an accessor.
`Fresh = TRUE`: what is given to `replace_child` has no parent, as its callers in `type.cpp` see to;
the code does not look.  That the classes
are ones that can be written, where no name the user chose is one goc makes, is no hypothesis
but part of the model (`WellNamed`): goc does not look, the compiler and Godot reject them.

**The build.**  `RecordedIsRecoverable` is about the disk, but whether the disk stays right
depends on the tables in memory, which depend on how far the session is.  `DiskInv` is the
disk; `SetupInv` says that until work begins the loaded and the outgoing table are the same
and everything called up to date is fresh, still to be looked at, or marked; `WorkInv` that
while `generate` works whatever is called up to date *is* `Done`, and whatever the loop has
left behind is too; `SaveInv` that the table about to be saved is right.  `ControlInv` ties the
control point to the program, `OwnGenOnly` keeps the cleaning of one source from removing
another's output, `StampsInThePast` makes a new stamp differ from every recorded one.
`WholeInv` follows the other tables through the same phases: `CacheInv` the parse cache and the
registration, `TypesInv` the type files, which belong to one input by `OwnTypesOnly`, and
`SkipInv` that what is recorded and still to be parsed has lost an output.  `ClearInv`,
`MacrosInv` and `OrphanInv` are of their theorems alone; the last shows first that no session
can fail.  TLC checks `WholeInv` in `durable`, without `clear generated`, which doubles the
states and is left to the proof.  There is one lemma per conjunct and one step per action.

**The bindings.**  `EveryStep` says of each generator what it adds for the entry it visits; the
invariants use that and not the generators.  `Emitted`: a signal is added in the step that
defines what emits it.  `Ordered` has three parts.  A class is put before its first heir, so
one that comes later needs room between its base and its heirs: `RoomFor` says that it has it,
for every class still to come, and is kept because an heir of a class comes after what that
class descends from.  `FunctionsBound` says that an accessor with an attribute of its own has
been bound.  `GroupInv` keeps the groups of the body and those of the statements in step.

`Compiles` and `Agree` ask of each visit what it may do to names: `CodeOf`, that it defines and
declares names of its own entry only (`Defined`), each once; `EvenCode`, that it defines what it
declares and reads what there is; `MethodsOf`, that it binds names of its entry only (`Bound`);
`Offers`, that it offers nothing else.  One lemma per generator shows this (`AutoCode`,
`VisitMethods`); what is added in a visit then differs from all before, because entries do
not share names (`CodeInv`, `BoundInv`), and it agrees with itself (`EvenInv`, `OfferInv`).

**The command line.**  Aliases are only added, so a value that a text stands for stays what it
is (`Fixed`); a value left by a pass is fixed or absent; when no list is left, what is asked
for is fixed, and what is fixed is unique.  From its second pass on a list gains a value in
each, hence the bound on the passes.  This is `ToldInv`, of a process that goes by what the
user gave.  Once no program was found `HelplessInv` takes over (`HelplessBegins`): the one pass
left gives `goc_path` its default, setup asks for it and the process ends.

**The lookup.**  Nothing is looked up before all is saved (`LookupInv`), so that what is cached
stays true.  The files are the saved types, each under its paths (`FilesInv`), and a query
finds what is under one of its paths or nothing is under any (`AnswerInv`); without namesakes
it is then of no matter in which order the paths are tried, and `CppFacts` puts what C++ finds
under one of them.  `Descends` needs that bases of bases are all found after as many steps as
there are types (a pigeonhole argument, `Saturated`) and that the walk stays on ancestors with
the assumed class above it if it was at first (`WalkInv`).

**The syntax tree.**  `TreeIntact` is far from inductive: nothing in it keeps a node from being
its own ancestor, two nodes from sharing an id that `Becomes` would then forget, or the file
from listing a section before its parent.  The invariant `TreeInv` says of the nodes there are
(`Live`) that they are closed under children (`Closed`), that links agree in both directions
(`Linked`), that each has an id which finds it (`Named`), and `Grounded`: every set of nodes has
one without children in it, so no node is below itself.  `FileInv` says that the file is a tree
with parents first.

`Below` is computed by as many steps as there can be nodes; `BelowFacts` shows it to be the
least set closed under children (one of those steps adds nothing, by counting), and all
arguments about owners use that alone.  Each operation of `Context` is shown to lead from one
well-formed heap to another (`Well`), and `Becoming` says once and for all that what the `Ref`s
collect afterwards leaves it so.  `replace_child` moves its children one by one; the loop keeps
`Well` and moves a prefix of the list.

A clone and a read both *plant* new trees beside the old ones (`Planted`): names, links and ids
of new nodes that mention no old one.  `PlantedIsWell` does both at once.  That a clone plants
needs what `Preorder` lists, by induction on the steps of the walk (`WalkTrace`): the nodes of
the subtree, each once, parents first.  That a read plants needs the parts of a file to be a
forest, although some of them stand for a section and others for a node of a clone: `Kept`
drops the children of a section whose node lives, so a part's parent is a part before it, and
none is listed twice.  `CopiesStayApart` adds that the outline of an old tree depends on its
own nodes only.

**Only model-checked.**
- Liveness and fairness, which TLAPS does not handle: `Converges`, `BecomesIncremental`,
  `EveryProcessEnds`, `StaleLockDoesNotBlock`, `BaseWalkEnds`.
- What rests on recursive operators over trees and texts, about which the provers cannot
  reason: `EngineTypesFound` and the properties of `HeaderParser`, `TreeSearch`,
  `AttributeArguments` and `GeneratedText`.
- `Settled` of the command line, an equality with the order of aliases left open: its proof
  would need all orders of a list.
- `ReadBack`: that what is read has the outline of what was written would need the walk through
  the new tree compared, section by section, with the one the file was written from.

## 5. Counterexamples outside the runs

What the passing runs exclude, and what TLC finds when a constant or a precondition is
changed.  The rows marked F contradict a statement of the repository and are the findings
of `PROJECT.json`.

| Change | Violated | Why |
|---|---|---|
| F `durable`, `Programs` = {"generate", "generate type_db"} | `SourcesComplete` | `docs/cli/generate.rst:4-6`: `generate type_db` saves the times `generate` then finds unmodified; it succeeds without code |
| F `upgrade`, `Programs` = {"generate", "clear generated"} | `MacrosComplete` | `docs/cli/clear_generated.rst`: the macros are gone and the api counts as unmodified; they are not written again |
| F `durable`, `SpacesInPaths = TRUE` | `RecordedIsSkipped` | lists are read with `operator>>` up to the first blank; the rest counts as a missing output and the file is parsed in every run, against `generate_type_db.cpp:75` |
| F `locks`, the invariant `UngracefulExitIsDetected` | itself | `application.cpp:112`: the temporary's destructor has removed the marker before `try_lock` looks |
| F `class_bindings`, `Members <- RenamedSignal`, `Usage = {"renamed signal"}` | `SourcesCompile` | `docs/macros/GODOT_SIGNAL.rst:14-19`: the emitter is defined under the exposed name, which nobody declared |
| F `arguments` with `RpcParts`, `OneComma`, `OnlyInt`, `Complete`; the invariant `NamesListed` | itself | `godot_rpc.cpp:202`: the names of Godot's rpc values are listed by whoever lists another type first; an incremental run has nobody |
| F `arguments`, `ArgumentsAsWritten` without `Plain` | `ArgumentsAsWritten` | brackets are counted in literals: `GODOT_CATEGORY("a)")` has no argument |
| F `header_tree`, `BodiesExpand` without `NothingMoved` | `BodiesExpand` | a section between `// goc off` and `// goc on` is cut out before lines are counted; the macro behind it is generated for another line |
| `durable`, "restore" in `UserActions` | `SourcesComplete` | a header moved back has the time that is recorded, or one that was |
| `durable`, `ConcurrentEdits = TRUE` | `ImplementsContract`, `SourcesComplete` | an edit between the parse and the emission is noted with the new time, and the code is of the old content |
| `durable`, `CrashPoints <- EveryPc` | `RecordedIsRecoverable` | the times are saved, the outputs are not; a source is up to date and untracked |
| `durable`, `Programs` with "generate bindings" | `TablesComplete` | the other half's times are saved |
| two headers that declare the same type | `TablesComplete` | the type file belongs to both; cleaning one removes the other's |
| `upgrade`, `CrashPoints <- EveryPc` and one kill | `MacrosComplete` | the build number is recorded and the files are removed at once, the cleared tables only at the end of the session; the next one finds the api unmodified |
| `upgrade`, "remove", `clear type_db`, or `Verdict <- SomeBroken` | `NoOrphans` | outputs are left that no saved table tracks |
| `locks`, `NoLockPanic` without `~overlapped` | `NoLockPanic` | check and creation are separate steps; two processes hold `.lock`, one removes the other's |
| `locks`, `EveryProcessEnds` without `kills > 0` | `EveryProcessEnds` | a waiter does not learn that the owner is gone |
| `command_line`, `Settled` for lists with a missing required argument | `Settled` | a required argument without a value ends the passes although others could still be resolved |
| `command_line`, `SameValues` without its exception | `SameValues` | no program is found, `find_program` leaves no arguments: the lock is in the `goc_path` the user gave, setup adds the default `.goc` to the write paths (`application.cpp:191-194`), and ignores the log level; the run then ends in an error |
| `type_lookup`, `Projects <- CircleProject`, `BaseWalkEnds` without `NoHomonyms` | `BaseWalkEnds` | bases are looked up by the name in the source: `game::Label : Button` finds `::Button : game::Label` (the TODO in `class_has_base_class`) |
| `class_bindings`, `Members <- Uneven`, `MaxMembers = 4`, `Usage = {"renamed emitter"}` | `SourcesCompile` | the setter compares and emits by the exposed name of a field, assigns by its own |
| ... `{"renamed accessor"}`, `{"accessor bound later"}` | `RegisteredInOrder` | a property names an accessor that is bound under another name, or later |
| ... `{"shared accessor"}` | `NamesAgree` | two properties with one accessor each bind it |
| `class_bindings`, `Usage = {"heir first"}` | `RegisteredInOrder` | a class is put before its first heir or last, whatever its base |
| `syntax_tree`, `Fresh = FALSE` | `TreeIntact` | `replace_child` of a node that has a parent leaves it in both lists |
| `ReadBack` without `Intact` | `ReadBack` | a node changed since the dump is cloned as it is; a node removed from its parent gives "Multiple root nodes" |

What the models do as the code does, and a reader may not expect:

- *Command line.*  Without a program the arguments are forgotten (`program.cpp:72`): the lock
  is in the `goc_path` that was given, all that follows goes by the defaults.  A text that is
  only an alias (`{alias:a}`) throws out of `parse_arguments` (`PassThrows`).  An unnamed
  argument that cannot be parsed drops the values collected so far but not the index, so that
  later ones are gone too (`argument.h:350`).
- *Header.*  A header without any `#include` has its macros a line off.  A stray `// goc on`
  before an "off" excludes everything to the end.  What is declared before the last `#include`
  is never visited, and an `#include` on a last line without a newline makes the text parsed
  twice.  An attribute before a declaration without a handler belongs to the next that has
  one; as the last of its block it dereferences null (`attribute.cpp:43`).  A second
  `GODOT_GENERATED_BODY` in a class is accepted and has no macro.
- *Arguments.*  A `|` in a literal splits flags; a blank before a comma between inner
  arguments makes the literal before it unreadable; flags are accepted of types that have none
  and may be given twice; a channel in lower case hex or with a digit 8 after a leading 0
  panics.
- *Types.*  Modifiers of a type with template arguments are lost (`handler.cpp:152`).
  `string_suffix` holds of a suffix one character longer than the text
  (`string_utilities.cpp:510`).  A virtual const function gets a caller that is not const
  (`godot_function_generator.cpp:246`).
- *Lookup.*  An attribute behind a using is looked for without its number of template
  arguments (`using_path` in `_get_type_attribute`): that of a template is missed, and asked
  for `Button` with one argument the tool gives an attribute of the plain `godot::Button`.  A class in `extension_api.json` without a header, or any malformed enum outside
  a builtin class, makes the whole api absent; the error is not passed on, and its time is
  noted.  A missing include directory ends the listing, and nobody is told
  (`generate_type_db.cpp:158`).  `core/object.hpp` and `classes/object.hpp` have one canonical
  name; the last listed is used.

## 6. Not modelled

- Module (engine) mode of the programs, `execute_module`: its loop over engine folders has
  the same tables; `any_of` in it stops at the first modified file
  (`generate_bindings.cpp:160`).
- The clear after an ungraceful exit (`application.cpp:218-224`) in `IncrementalBuild`:
  `LockFiles` shows that it is not reached after a kill by a process that runs alone.
- `DEV_BUILD`, where PANIC throws; to the files it is a `Kill`.
- Files are assumed whole or absent, but for the tables; the truncated name of an output with
  a blank is assumed not to exist.  `generated_from` is a set, in the code a list that grows.
- Time stamps never repeat for different contents; the clock's granularity is the platform's.
- `p_is_source` in the scan of extension mode is always false, so that branch has no action.
- A type that is saved again while its old answer is cached: in one session everything is
  saved before anything is looked up, except by the `input_cache`, which holds no types.
- `ClassBindings` leaves out includes and texts; virtual methods by name only.  `SyntaxTree`
  leaves out what node kinds hold and tags.  `HeaderParser` leaves out libclang's set-up and
  diagnostics and access specifiers other than `public:`; `GeneratedText` comments.
- Of the tables of Godot's names a few of each kind stand for all; defaults of parameters
  never reach the tree.
- Of `find_all_subsets` (`godot_macro_include_generator.cpp:284`) only that each parameter is
  taken at most once.  `generate_resources` and the other developer programs run at the
  tool's own build; compiled resources are data; the programs that print (`help`, `version`,
  `print ...`), documentation, CMake and SCons scripts hold no state.
- Include paths of the compiler (`get_standard_include_paths`) and everything libclang does.

## 7. Plan

Done in this order: the incremental build and its contract, the lock, the class bindings, the
syntax tree; then the type lookup, the command line, the C++ parser and the searches of its
tree, attribute arguments, the output tree with the text utilities, the extension api.

Then the theorems of section 4.  Left, most important first:

1. A theorem for `ReadBack`, from `BuiltIsPlanted` and what `Preorder` lists.
2. Module mode as a second scan and bind loop in `IncrementalBuild`.
3. Edits while the tool runs, with a weaker contract: nothing newer than the record is lost.
4. `replace_child` with aliased references in a transformator
   (`output_transformator.cpp:243`).

## 8. Running

```
tlc -config Build_durable.cfg MCIncrementalBuild.tla
tlapm IncrementalBuildProofs.tla
```

`PROJECT.json` has for each definition the lines it models, for each property a mutation of
a definition that breaks it, and the list of hazards, runs, findings and theorems.
