----------------------------- MODULE TypeLookup -----------------------------
(* TypeDB (library/type_db.cpp): the scan writes every declared type, and   *)
(* every attribute of it, to a file whose path is made from the qualified   *)
(* name and the number of template arguments.  The generators then look     *)
(* types up by the names that stand in the sources, from the namespace they *)
(* stand in, through the directives of LibraryContext::usings, and keep     *)
(* what they found in a cache.                                              *)
(*                                                                          *)
(* A qualified name is a sequence of names.  mangle_name is injective here: *)
(* hashes do not collide.  A file that exists can be read (module           *)
(* SyntaxTree says when).  One session: everything is scanned, the api of   *)
(* the engine first, then looked up, as generate does.                      *)
EXTENDS ExtensionApi

CONSTANTS
    Projects,       \* the api, the include directories and the types of a project
    Usings,         \* LibraryContext::usings, a sequence of namespaces
    Assumed,        \* the names of the types that AssumedGodotTypes demands
    RootClass,      \* the one of them that class_is_godot_object_type asks for
    Queries,        \* what the generators may look up
    MaxCached       \* bound: no free lookup once so many answers are cached

NoType == [full |-> <<>>, params |-> 0, optional |-> 0, is |-> "nothing",
           base |-> <<>>, attributes |-> {}, header |-> NoHeader]
NoAttribute == "no attribute"
Nowhere == <<<<"?">>>>                \* from_namespace == nullptr

Query(name, count, attribute, from) ==
    [name |-> name, count |-> count, attribute |-> attribute, from |-> from]

IsSequence(s) == s \in Seq(ToSet(s))

(* Only classes have template parameters and bases (class.h).               *)
ASSUME ProjectsAssumption ==
    /\ \A p \in Projects : IsFiniteSet(p.types)
    /\ \A p \in Projects : \A t \in p.types :
          /\ IsSequence(t.full) /\ t.full # <<>> /\ IsSequence(t.base)
          /\ t.params \in Nat /\ t.optional \in 0 .. t.params
          /\ t.is # "class" => t.params = 0 /\ t.base = <<>>
    /\ \A p \in Projects : \A d \in ToSet(p.directories) : d.files # {}
    /\ \A p \in Projects : \A S \in {p.api.builtin_classes, p.api.classes} :
          /\ IsFiniteSet(S)
          /\ \A c \in S : IsFiniteSet(c.enums) /\ \A e \in c.enums : IsSequence(e.name)
    /\ \A p \in Projects : /\ IsFiniteSet(p.api.global_enums)
                          /\ \A e \in p.api.global_enums : IsSequence(e.name)
    /\ RootClass \in Assumed
ASSUME CoreAssumption ==
    /\ IsFiniteSet(CoreClasses) /\ IsFiniteSet(CoreOthers)
    /\ \A c \in CoreClasses : c.params \in Nat /\ c.optional \in 0 .. c.params
    /\ \A o \in CoreOthers : IsSequence(o.full) /\ o.full # <<>>
ASSUME UsingsAssumption == IsSequence(Usings) /\ \A u \in ToSet(Usings) : IsSequence(u)
ASSUME QueriesAssumption == \A q \in Queries :
    /\ q = Query(q.name, q.count, q.attribute, q.from) /\ q.count \in Nat
    /\ IsSequence(q.name) /\ q.name # <<>> /\ IsSequence(q.from)

VARIABLES
    declared,   \* the types of the project, and those of the engine once they are read
    saved,      \* those the scan has written
    files,      \* path -> what was written there
    cache,      \* TypeDB::_cache
    phase,      \* "api", "scan", "validate", "bind" or "failed"
    assumed,    \* the assumptions validated so far, and their types
    walk,       \* class_has_base_class: [of, at, result]
    answer      \* the last lookup: [query, found]

vars == <<apiVars, declared, saved, files, cache, phase, assumed, walk, answer>>

---------------------------------------------------------------------------
(* Where a type is saved: once for every number of arguments it can be      *)
(* given; an attribute next to it.                                          *)

Path(name, count, attribute) ==
    [name |-> name, count |-> count, attribute |-> attribute]

\* Mutant of Counts: the defaults of template parameters are forgotten.
CountsAll(t) == {t.params}

Counts(t) == IF t.is = "class" /\ t.params > 0
             THEN (t.params - t.optional) .. t.params ELSE {0}

TypePaths(t) == {Path(t.full, n, NoAttribute) : n \in Counts(t)}
AttributePaths(t) == {Path(t.full, n, a) : n \in Counts(t), a \in t.attributes}

(* resolve_possible_namespaces: from the outermost namespace in, and in     *)
(* each the name without more and more of its qualifiers.                   *)
Candidates(name, from) ==
    IF from = Nowhere THEN <<name>>
    ELSE LET n == Len(name)
         IN  [i \in 1 .. n * (Len(from) + 1) |->
                SubSeq(from, 1, (i - 1) \div n)
                    \o SubSeq(name, ((i - 1) % n) + 1, n)]

(* The path a using directive sends a lookup to: the one of an attribute    *)
(* forgets the number of template arguments.                                *)
Through(u, p) ==
    Path(u \o p.name, IF p.attribute = NoAttribute THEN p.count ELSE 0, p.attribute)

FirstOf(S) == CHOOSE i \in S : \A j \in S : i <= j

(* What the files say of a path: what is there, or what the first using     *)
(* finds.                                                                   *)
Stored(p) ==
    LET via == {i \in DOMAIN Usings : Through(Usings[i], p) \in DOMAIN files}
    IN  IF p \in DOMAIN files THEN files[p]
        ELSE IF via # {} THEN files[Through(Usings[FirstOf(via)], p)]
        ELSE NoType

Known(p) == IF p \in DOMAIN cache THEN cache[p] ELSE Stored(p)

PathsOf(q) ==
    LET names == Candidates(q.name, q.from)
    IN  <<>> \o [i \in DOMAIN names |-> Path(names[i], q.count, q.attribute)]

(* The place of the first path under which something is found, or 0.        *)
Hit(q) == LET paths == PathsOf(q)
          IN  SelectInSeq(paths, LAMBDA p : Known(p) # NoType)

Find(q) == LET hit == Hit(q) IN IF hit = 0 THEN NoType ELSE Known(PathsOf(q)[hit])

\* Mutant of Remember: the answer is kept under the first path of the query.
RememberFirst(q) ==
    IF Hit(q) = 0 THEN cache
    ELSE LET p == PathsOf(q)[1]
         IN  [x \in DOMAIN cache \cup {p} |-> IF x = p THEN Find(q) ELSE cache[x]]

(* ... and the cache after it: the answer is kept under the path that was   *)
(* tried, wherever it was found.                                            *)
Remember(q) ==
    IF Hit(q) = 0 THEN cache
    ELSE LET p == PathsOf(q)[Hit(q)]
         IN  [x \in DOMAIN cache \cup {p} |-> IF x = p THEN Find(q) ELSE cache[x]]

Unasked == [query |-> Query(<<>>, 0, NoAttribute, Nowhere), found |-> NoType]
Idle == [of |-> NoType, at |-> NoType, result |-> "none"]

---------------------------------------------------------------------------
Init ==
    /\ \E p \in Projects : api = p.api /\ directories = p.directories /\ declared = p.types
    /\ reading = 1 /\ seen = {} /\ include_paths = <<>>
    /\ saved = {} /\ files = <<>> /\ cache = <<>>
    /\ phase = "api" /\ assumed = <<>>
    /\ walk = Idle
    /\ answer = Unasked

ListHeader(f) ==
    /\ phase = "api" /\ IncludeFile(f)
    /\ UNCHANGED <<declared, saved, files, cache, phase, assumed, walk, answer>>

(* generate_from_file for the api: an error is not passed on, and nothing   *)
(* is saved.                                                                *)
ParseApi ==
    /\ phase = "api" /\ PathsAreSetUp
    /\ declared' = declared \cup ApiTypes
    /\ files' = [p \in UNION {TypePaths(t) : t \in ApiTypes} |->
                    CHOOSE t \in ApiTypes : p \in TypePaths(t)]
    /\ saved' = ApiTypes
    /\ phase' = "scan"
    /\ UNCHANGED <<apiVars, cache, assumed, walk, answer>>

(* generate_from_file: a type and its attributes.                           *)
Save(t) ==
    /\ phase = "scan" /\ t \in declared \ saved
    /\ files' = [p \in DOMAIN files \cup TypePaths(t) \cup AttributePaths(t) |->
                    IF p \in TypePaths(t) \cup AttributePaths(t) THEN t ELSE files[p]]
    /\ saved' = saved \cup {t}
    /\ UNCHANGED <<apiVars, declared, cache, phase, assumed, walk, answer>>

ScanEnds ==
    /\ phase = "scan" /\ saved = declared
    /\ phase' = "validate"
    /\ UNCHANGED <<apiVars, declared, saved, files, cache, assumed, walk, answer>>

(* validate_assumptions looks every one up, by its name alone; one that     *)
(* does not hold ends the program once all are looked at.                   *)
Validate(name) ==
    LET q == Query(name, 0, NoAttribute, Nowhere)
    IN  /\ phase = "validate" /\ name \notin DOMAIN assumed
        /\ assumed' = [n \in DOMAIN assumed \cup {name} |->
                          IF n = name THEN Find(q) ELSE assumed[n]]
        /\ cache' = Remember(q)
        /\ phase' = IF DOMAIN assumed' # Assumed THEN phase
                    ELSE IF \A n \in Assumed : assumed'[n].is = "class"
                    THEN "bind" ELSE "failed"
        /\ UNCHANGED <<apiVars, declared, saved, files, walk, answer>>

(* get_type_data and get_type_attribute, for a generator.                   *)
LookUp(q) ==
    /\ phase = "bind" /\ walk.result # "running"
    /\ Cardinality(DOMAIN cache) <= MaxCached
    /\ answer' = [query |-> q, found |-> Find(q)]
    /\ cache' = Remember(q)
    /\ walk' = Idle
    /\ UNCHANGED <<apiVars, declared, saved, files, phase, assumed>>

(* class_has_base_class: is the class, or the first base of it, or ..., the *)
(* assumed class?  Each base is looked up by the name in the source, from   *)
(* no namespace.                                                            *)
AskBase(t) ==
    /\ phase = "bind" /\ walk.result # "running" /\ t \in saved /\ t.is = "class"
    /\ walk' = [of |-> t, at |-> t, result |-> "running"]
    /\ answer' = Unasked
    /\ UNCHANGED <<apiVars, declared, saved, files, cache, phase, assumed>>

\* Mutant of BaseQuery: the last name of the base is enough.
BaseQueryLast(t) == Query(<<Last(t.base)>>, 0, NoAttribute, Nowhere)

BaseQuery(t) == Query(t.base, 0, NoAttribute, Nowhere)

Reaches == walk.at.full = assumed[RootClass].full

BaseFound ==
    /\ walk.result = "running" /\ Reaches
    /\ walk' = [walk EXCEPT !.result = "yes"]
    /\ UNCHANGED <<apiVars, declared, saved, files, cache, phase, assumed, answer>>

NoBase ==
    /\ walk.result = "running" /\ ~Reaches /\ walk.at.base = <<>>
    /\ walk' = [walk EXCEPT !.result = "no"]
    /\ UNCHANGED <<apiVars, declared, saved, files, cache, phase, assumed, answer>>

\* Mutant of NextBase: the class is asked again instead of its base.
NextBaseSame ==
    /\ walk.result = "running" /\ ~Reaches /\ walk.at.base # <<>>
    /\ LET found == Find(BaseQuery(walk.at))
       IN  walk' = IF found.is = "class" THEN [walk EXCEPT !.at = walk.of]
                   ELSE [walk EXCEPT !.result = "no"]
    /\ cache' = Remember(BaseQuery(walk.at))
    /\ UNCHANGED <<apiVars, declared, saved, files, phase, assumed, answer>>

NextBase ==
    /\ walk.result = "running" /\ ~Reaches /\ walk.at.base # <<>>
    /\ LET found == Find(BaseQuery(walk.at))
       IN  walk' = IF found.is = "class" THEN [walk EXCEPT !.at = found]
                   ELSE [walk EXCEPT !.result = "no"]
    /\ cache' = Remember(BaseQuery(walk.at))
    /\ UNCHANGED <<apiVars, declared, saved, files, phase, assumed, answer>>

Ended == phase \in {"bind", "failed"} /\ walk.result # "running" /\ UNCHANGED vars

Next ==
    \/ \E d \in DOMAIN directories : \E f \in directories[d].files : ListHeader(f)
    \/ ParseApi
    \/ \E t \in declared : Save(t) \/ AskBase(t)
    \/ ScanEnds
    \/ \E n \in Assumed : Validate(n)
    \/ \E q \in Queries : LookUp(q)
    \/ BaseFound \/ NoBase \/ NextBase
    \/ Ended

Spec == Init /\ [][Next]_vars /\ WF_vars(BaseFound \/ NoBase \/ NextBase)

---------------------------------------------------------------------------
(* What C++ would find: the name from the innermost scope out; a using      *)
(* directive makes the members of its namespace visible outside of all.     *)

Takes(t, count) == t.params - t.optional <= count /\ count <= t.params
Named(full, count) == {t \in declared : t.full = full /\ Takes(t, count)}

CppLevel(name, count, from, k) ==
    Named(SubSeq(from, 1, k) \o name, count)
        \cup IF k > 0 THEN {}
             ELSE UNION {Named(Usings[i] \o name, count) : i \in DOMAIN Usings}

CppScope(from) == IF from = Nowhere THEN <<>> ELSE from

AnyOf(S) == CHOOSE t \in S : TRUE
Cpp(name, count, from) ==
    LET scope == CppScope(from)
        found == {k \in 0 .. Len(scope) : CppLevel(name, count, scope, k) # {}}
    IN  IF found = {} THEN NoType
        ELSE AnyOf(CppLevel(name, count, scope, Max(found)))

(* The project has no two types that differ in their scope alone.           *)
NoHomonyms ==
    \A t, u \in declared :
        Last(t.full) = Last(u.full) /\ (\E n \in 0 .. t.params : Takes(t, n) /\ Takes(u, n))
            => t = u

(* The bases C++ sees: of each class the first, from the scope it is in.    *)
CppBase(t) == IF t.base = <<>> THEN NoType ELSE Cpp(t.base, 0, Front(t.full))
Onward(base, t) ==
    LET n == Cardinality(DOMAIN base)
        up[i \in 0 .. n] ==
            IF i = 0 THEN {t} ELSE up[i - 1] \cup {base[x] : x \in up[i - 1] \cap DOMAIN base}
    IN  up[n] \cap DOMAIN base
Ancestors(t) == Onward([x \in declared |-> CppBase(x)], t)
(* Every base on the way is named so that it is found from outside too.     *)
BasesAreQualified(t) ==
    \A u \in Ancestors(t) : u.base # <<>> => Cpp(u.base, 0, <<>>) # NoType

---------------------------------------------------------------------------
TypeOK ==
    /\ saved \subseteq declared
    /\ \A p \in DOMAIN files : files[p] \in saved
    /\ \A p \in DOMAIN cache : cache[p] \in saved
    /\ phase \in {"api", "scan", "validate", "bind", "failed"}
    /\ DOMAIN assumed \subseteq Assumed
    /\ walk.at \in saved \cup {NoType} /\ walk.result \in {"none", "running", "yes", "no"}
    /\ answer.found \in saved \cup {NoType}

(* The cache of TypeDB never changes an answer: what is kept under a path   *)
(* is what the files say of it, although it may come from another path      *)
(* (through a using), and whichever lookups came before.                    *)
CacheExact == TypeOK /\ \A p \in DOMAIN cache : cache[p] = Stored(p)

(* A lookup finds what C++ would, unless a type of the same name elsewhere  *)
(* comes first; an attribute is found if the type has it, but, by the path  *)
(* that forgets the template arguments, through a using it may be missed,   *)
(* or be that of a type without any.  And the qualified name of what was    *)
(* found finds it again, from anywhere (Type::qualified).                   *)
UnderUsing(t) == \E i \in DOMAIN Usings : IsPrefix(Usings[i], t.full)
FindsWhatCppFinds ==
    LET q == answer.query
        found == answer.found
        t == Cpp(q.name, q.count, q.from)
    IN  answer # Unasked =>
        /\ NoHomonyms /\ t # NoType =>
              IF q.attribute = NoAttribute THEN found = t
              ELSE \/ found = IF q.attribute \in t.attributes THEN t ELSE NoType
                   \/ q.count > 0 /\ IF found = NoType THEN UnderUsing(t)
                                      ELSE UnderUsing(found) /\ Takes(found, 0)
        /\ found # NoType /\ q.attribute = NoAttribute =>
              Find([q EXCEPT !.name = found.full]) = found

(* class_has_base_class says whether the class derives from the assumed     *)
(* one, along first bases that are named so as to be found from outside.    *)
OneTypePerName == \A t, u \in declared : t.full = u.full => t = u
BasesRecognized ==
    walk.result \in {"yes", "no"} /\ NoHomonyms /\ OneTypePerName
        /\ BasesAreQualified(walk.of) =>
    (walk.result = "yes" <=> assumed[RootClass] \in Ancestors(walk.of))

(* ... and it comes to an end.  (With homonyms it may follow a circle.)     *)
BaseWalkEnds ==
    NoHomonyms /\ walk.result = "running" ~> walk.result # "running"

=============================================================================
