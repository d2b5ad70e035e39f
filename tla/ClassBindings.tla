--------------------------- MODULE ClassBindings ---------------------------
(***************************************************************************)
(* What generate_bindings makes of the classes it visits.  Each one is     *)
(* registered in generated_register_types.cpp.  The entries of its body    *)
(* are then visited in order, and each attribute adds to the members       *)
(* injected by GODOT_GENERATED_BODY, to the definitions in the generated   *)
(* source and to the statements of _bind_methods; whether the result       *)
(* compiles, and whether Godot finds what is registered, depends on the    *)
(* additions agreeing with each other and with what the user wrote.        *)
(*                                                                         *)
(* A name is a sequence of parts, so that get_a is <<"get", "a">>.  An     *)
(* entry is an attribute with the field or function after it; an attribute *)
(* "none" is a function without one.                                       *)
(***************************************************************************)
EXTENDS Naturals, Sequences, SequencesExt

CONSTANTS
    Inputs,         \* the sequences of classes that may be visited
    Usage           \* the uneven usages that may occur: see Evenly

NoName == <<>>
BindMethods == <<"", "bind_methods">>
Notification == <<"", "notification">>

(* Types by what the generators ask of them.                               *)
Scalars == {"int", "enum"}                      \* left uninitialized by default
Objects == {"Object", "Object*", "RefCounted*"} \* class_is_godot_object_type
Collections == {"Array"}
Known == Scalars \cup Objects \cup Collections \cup {"String", "Ref<RefCounted>"}
Types == Known \cup {"Ref<Object>", "unknown", "void"}

ASSUME UsageAssumption ==
    Usage \subseteq {"renamed signal", "renamed emitter", "renamed accessor",
                     "accessor bound later", "shared accessor", "heir first"}

(* Classes and the entries of their bodies come in sequences, and names    *)
(* are made of parts; a function has one.                                  *)
Sequence(s) == s \in Seq(ToSet(s))
Access == {"public", "protected", "private"}
WellFormed(e) ==
    /\ Sequence(e.target) /\ Sequence(e.bind)
    /\ CASE e.attribute = "property" ->
                \/ e.accessors = <<>> /\ {e.get, e.set} \subseteq Access
                \/ Sequence(e.accessors) /\ Len(e.accessors) = 2
         [] e.attribute \in {"none", "function", "signal"} ->
                e.target # NoName /\ e.access \in Access /\ Sequence(e.takes)
         [] e.attribute = "enum" -> Sequence(e.values)
         [] e.attribute = "group" -> e.level \in 0 .. 2

ASSUME InputsAssumption ==
    \A cs \in Inputs :
        /\ Sequence(cs) /\ cs # <<>>
        /\ \A c \in ToSet(cs) : Sequence(c.body) /\ \A e \in ToSet(c.body) : WellFormed(e)

VARIABLES
    classes,        \* the classes, in the order of the visit
    turn,           \* the class that is visited
    pos,            \* entries of its body visited
    status,         \* "new", "open", "failed"
    registered,     \* the names of the classes of the register body, in order
    bind_methods,   \* statements of _bind_methods
    members,        \* functions and fields declared by GODOT_GENERATED_BODY
    sources,        \* functions defined in the generated source
    rpcs,           \* names configured by _notification
    names           \* entries of PropertyNames, FunctionNames, SignalNames

result == <<bind_methods, members, sources, rpcs, names>>
vars == <<classes, turn, pos, status, registered, result>>

class == classes[turn].body

---------------------------------------------------------------------------
(* The user's class.                                                       *)
IsFunction(e) == e.attribute \in {"none", "function", "signal"}
Custom(e) == e.attribute = "property" /\ e.accessors # <<>>
Automatic(e) == e.attribute = "property" /\ e.accessors = <<>>
Declares(e) == e.target # NoName
Exposed(e) == IF e.bind = NoName THEN e.target ELSE e.bind
Functions(c) == {e \in ToSet(c) : IsFunction(e)}
Fields(c) == {e.target : e \in {x \in ToSet(c) : Automatic(x)}}
FunctionNames(c) == {e.target : e \in Functions(c)}
FunctionNamed(c, n) == CHOOSE e \in Functions(c) : e.target = n

Getter(e) == IF Custom(e) THEN e.accessors[1] ELSE <<"get">> \o Exposed(e)
Setter(e) == IF Custom(e) THEN e.accessors[2] ELSE <<"set">> \o Exposed(e)
Parameter(e) == <<"p">> \o Exposed(e)
Initialized(e) == <<"", "">> \o Exposed(e) \o <<"", "initialized">>
ChangedSignal(e) == IF e.signal = NoName THEN Exposed(e) \o <<"changed">> ELSE e.signal
VirtualName(e) == <<"">> \o Exposed(e)

(* A setter that emits: EmitChangedValue passes the new value on.          *)
Emits(e) == e.emit # "no"
ValuesEmitted(e) == IF e.emit = "value" THEN 1 ELSE 0
AddsSignal(e) == Automatic(e) /\ Emits(e) /\ e.signal = NoName

(* get_bind_methods_body and get_notification_body: a generated function   *)
(* steps aside for one of the user.                                        *)
Generated(c, n) == IF n \in FunctionNames(c) THEN <<"", "generated">> \o n ELSE n

(* The functions goc defines, for every class and for one entry, and the   *)
(* names under which it binds methods for an entry.                        *)
Scripted(e) == e.attribute = "function" /\ e.virtual /\ ~e.static
Common(c) == {Generated(c, BindMethods), Generated(c, Notification)}
Defined(e) ==
    CASE Automatic(e) ->
            {Getter(e), Setter(e)} \cup {n \in {ChangedSignal(e)} : AddsSignal(e)}
      [] Scripted(e) -> {VirtualName(e)}
      [] e.attribute = "signal" -> {Exposed(e)}
      [] OTHER -> {}
Bound(c, e) ==
    CASE Automatic(e) -> {Getter(e), Setter(e)}
      [] Custom(e) -> {Getter(e), Setter(e)}
                        \ {f.target : f \in {x \in Functions(c) : x.attribute = "function"}}
      [] e.attribute = "function" -> {Exposed(e)}
      [] OTHER -> {}

(* C++ and Godot both want names to be unique: the user's, those exposed   *)
(* as properties, as functions and as signals, those of the functions of   *)
(* the user and of goc, and of the methods bound (but see Evenly).         *)
Unique(c, P(_), f(_)) == \A i, j \in DOMAIN c :
    P(c[i]) /\ P(c[j]) /\ f(c[i]) = f(c[j]) => i = j
WellNamed(c) ==
    /\ Unique(c, Declares, LAMBDA e : e.target)
    /\ Unique(c, LAMBDA e : e.attribute = "property", Exposed)
    /\ Unique(c, LAMBDA e : e.attribute = "function", Exposed)
    /\ Unique(c, LAMBDA e : e.attribute = "signal", Exposed)
    /\ Common(c) \cap FunctionNames(c) = {}
    /\ \A e \in ToSet(c) :
          /\ Defined(e) \cap Common(c) = {}
          /\ e.attribute # "signal" => Defined(e) \cap FunctionNames(c) = {}
    /\ \A i, j \in DOMAIN c : i # j =>
          /\ Defined(c[i]) \cap Defined(c[j]) = {}
          /\ ~(Custom(c[i]) /\ Custom(c[j])) => Bound(c, c[i]) \cap Bound(c, c[j]) = {}

(* Usages the generators are not even-handed about.  For each of them one  *)
(* of the properties below fails.                                          *)
RenamedAccessor(c) == \E e \in ToSet(c), f \in Functions(c) :
    /\ Custom(e) /\ f.target \in ToSet(e.accessors)
    /\ f.attribute = "function" /\ f.bind # NoName
AccessorBoundLater(c) == \E i, j \in DOMAIN c :
    /\ i < j /\ Custom(c[i]) /\ c[j].attribute = "function"
    /\ c[j].target \in ToSet(c[i].accessors)
UsedIn(u, c) ==
    CASE u = "renamed signal" ->
            \E e \in ToSet(c) : e.attribute = "signal" /\ e.bind # NoName
      [] u = "renamed emitter" ->
            \E e \in ToSet(c) : Automatic(e) /\ e.bind # NoName /\ e.emit # "no"
      [] u = "renamed accessor" -> RenamedAccessor(c)
      [] u = "accessor bound later" -> AccessorBoundLater(c)
      [] u = "shared accessor" ->
            \E i, j \in DOMAIN c :
                /\ i # j /\ Custom(c[i]) /\ Custom(c[j])
                /\ ToSet(c[i].accessors) \cap ToSet(c[j].accessors) # {}
BodyUsages == {"renamed signal", "renamed emitter", "renamed accessor",
               "accessor bound later", "shared accessor"}
Evenly(c) == \A u \in BodyUsages \ Usage : ~UsedIn(u, c)

(* The indices of the classes of cs that i inherits from: the smallest set *)
(* with the base of i and those of its members.                            *)
BaseOf(cs, j, k) == cs[j].base = cs[k].name
Ancestors(cs, i) ==
    {k \in DOMAIN cs : \A S \in SUBSET DOMAIN cs :
        (\A j \in S \cup {i}, b \in DOMAIN cs : BaseOf(cs, j, b) => b \in S) => k \in S}

(* An heir of a class is visited before the base of that class, and the    *)
(* class itself after both.                                                *)
HeirFirst(cs) == \E i, j, k \in DOMAIN cs :
    i < j /\ j < k /\ BaseOf(cs, k, j) /\ k \in Ancestors(cs, i)

Visitable(cs) ==
    /\ \A i \in DOMAIN cs : WellNamed(cs[i].body) /\ Evenly(cs[i].body)
    /\ \A i, j \in DOMAIN cs : cs[i].name = cs[j].name => i = j
    /\ \A i \in DOMAIN cs : i \notin Ancestors(cs, i)
    /\ HeirFirst(cs) => "heir first" \in Usage

---------------------------------------------------------------------------
(* Statements, declarations and definitions.                               *)
BindMethod(n, f) == [do |-> "bind", name |-> n, uses |-> <<f>>, arguments |-> 0]
AddProperty(n, s, g) == [do |-> "property", name |-> n, uses |-> <<s, g>>, arguments |-> 0]
AddSignal(n, k) == [do |-> "signal", name |-> n, uses |-> <<>>, arguments |-> k]
BindVirtual(n) == [do |-> "virtual", name |-> n, uses |-> <<n>>, arguments |-> 0]
BindConstant(n) == [do |-> "constant", name |-> n, uses |-> <<>>, arguments |-> 0]
AddGroup(n, k) == [do |-> "group", name |-> n, uses |-> <<>>, arguments |-> k]

Member(n, access, is) == [name |-> n, access |-> access, is |-> is]

(* A definition reads names and emits signals, each with some arguments.   *)
Define(n, parameters, reads, emits) ==
    [name |-> n, parameters |-> parameters, reads |-> reads, emits |-> emits]

NoNames == [of \in {"property", "function", "signal"} |-> <<>>]

Init ==
    /\ classes \in {cs \in Inputs : Visitable(cs)}
    /\ turn = 1 /\ pos = 0 /\ status = "new" /\ registered = <<>>
    /\ bind_methods = <<>> /\ members = <<>> /\ sources = <<>> /\ rpcs = <<>>
    /\ names = NoNames

(* GodotClassGenerator::do_generate, for a class that passes its checks.   *)
Opened ==
    /\ members' = <<Member(Generated(class, BindMethods), "public", "function"),
                    Member(Generated(class, Notification), "public", "function")>>
    /\ sources' = <<Define(Generated(class, BindMethods), {}, {}, {}),
                    Define(Generated(class, Notification), {}, {}, {})>>
    /\ bind_methods' = <<>> /\ rpcs' = <<>> /\ names' = NoNames

(* generate_initialization: a class goes before the first class listed     *)
(* that has it as its base, or last.                                       *)
Register(c) ==
    LET base(n) == (CHOOSE x \in ToSet(classes) : x.name = n).base
        heirs == {i \in DOMAIN registered : base(registered[i]) = c.name}
        first == CHOOSE i \in heirs : \A k \in heirs : i <= k
    IN  CASE c.custom -> registered
          [] ~c.custom /\ heirs = {} -> Append(registered, c.name)
          [] OTHER -> InsertAt(registered, first, c.name)

OpenClass ==
    /\ status = "new" /\ status' = "open"
    /\ Opened /\ registered' = Register(classes[turn])
    /\ UNCHANGED <<classes, turn, pos>>

(* The next class starts from a result of its own.                         *)
NextClass ==
    /\ status = "open" /\ pos = Len(class) /\ turn < Len(classes)
    /\ turn' = turn + 1 /\ pos' = 0 /\ status' = "new"
    /\ bind_methods' = <<>> /\ members' = <<>> /\ sources' = <<>> /\ rpcs' = <<>>
    /\ names' = NoNames
    /\ UNCHANGED <<classes, registered>>

(* The loop over the children of the class body.                           *)
Visiting(attribute) ==
    /\ status = "open" /\ pos < Len(class) /\ class[pos + 1].attribute = attribute
    /\ pos' = pos + 1
Keep == UNCHANGED <<classes, turn, status, registered>>
Current == class[pos + 1]

(* check_for_property_type_errors, and that defaults are known.            *)
PropertyType(t) == t \in Known \ {"Object", "RefCounted*"}

(* check_for_field_property_errors, and the check of a duplicating getter. *)
BindableField(e) ==
    /\ ~e.const /\ ~e.static /\ PropertyType(e.type)
    /\ e.type \in Scalars \cup Objects => e.initialized
    /\ e.duplicated => e.type \in Collections

(* check_for_custom_bound_property_errors.                                 *)
BindableAccessors(e) ==
    /\ e.bind # NoName
    /\ ToSet(e.accessors) \subseteq FunctionNames(class)
    /\ LET getter == FunctionNamed(class, e.accessors[1])
           setter == FunctionNamed(class, e.accessors[2])
       IN  /\ getter.takes = <<>> /\ setter.returns = "void"
           /\ setter.takes = <<getter.returns>> /\ PropertyType(getter.returns)

Accepted(e) ==
    CASE Automatic(e) -> BindableField(e)
      [] Custom(e) -> BindableAccessors(e)
      [] e.attribute = "signal" ->
            e.returns = "void" /\ \A i \in DOMAIN e.takes : e.takes[i] \in Known
      [] OTHER -> TRUE

SignalDefinition(n, k) == Define(n, {}, {}, {<<n, k>>})
GetterDefinition(e) == Define(Getter(e), {}, {e.target}, {})

(* Mutant: the value the signal carries is forgotten.                      *)
SetterDefinitionBare(e) ==
    Define(Setter(e), {Parameter(e)},
           {e.target, Parameter(e)} \cup
           (IF e.readonly THEN {Initialized(e)} ELSE {}) \cup
           (IF Emits(e) THEN {Exposed(e)} ELSE {}),
           IF Emits(e) THEN {<<ChangedSignal(e), 0>>} ELSE {})

(* The generated setter: the guard of a readonly property, the comparison  *)
(* with the old value if it emits, the assignment, the emission.           *)
SetterDefinition(e) ==
    Define(Setter(e), {Parameter(e)},
           {e.target, Parameter(e)} \cup
           (IF e.readonly THEN {Initialized(e)} ELSE {}) \cup
           (IF Emits(e) THEN {Exposed(e)} ELSE {}),
           IF Emits(e) THEN {<<ChangedSignal(e), ValuesEmitted(e)>>} ELSE {})

(* What an auto generated property declares ...                            *)
AutoMembers(e) ==
    (IF e.readonly THEN <<Member(Initialized(e), "private", "field")>> ELSE <<>>) \o
    (IF AddsSignal(e) THEN <<Member(ChangedSignal(e), "private", "function")>> ELSE <<>>) \o
    <<Member(Getter(e), e.get, "function"), Member(Setter(e), e.set, "function")>>

(* ... and defines.                                                        *)
AutoSources(e) ==
    (IF AddsSignal(e)
     THEN <<SignalDefinition(ChangedSignal(e), ValuesEmitted(e))>> ELSE <<>>) \o
    <<GetterDefinition(e), SetterDefinition(e)>>

(* Mutant: a custom accessor is bound even if it is bound as a function.   *)
AccessorBindsAlways(e) ==
    <<BindMethod(Getter(e), Getter(e)), BindMethod(Setter(e), Setter(e))>>

(* The accessors are bound, unless they are under a GODOT_FUNCTION.        *)
AccessorBind(e, n) ==
    IF Automatic(e) \/ FunctionNamed(class, n).attribute # "function"
    THEN <<BindMethod(n, n)>> ELSE <<>>
AccessorBinds(e) == AccessorBind(e, Getter(e)) \o AccessorBind(e, Setter(e))

(* Mutant: the property is added before its accessors are bound.           *)
PropertyBindsEarly(e) ==
    <<AddProperty(Exposed(e), Setter(e), Getter(e))>> \o AccessorBinds(e) \o
    (IF AddsSignal(e)
     THEN <<AddSignal(ChangedSignal(e), ValuesEmitted(e))>> ELSE <<>>)

PropertyBinds(e) ==
    AccessorBinds(e) \o
    (IF AddsSignal(e)
     THEN <<AddSignal(ChangedSignal(e), ValuesEmitted(e))>> ELSE <<>>) \o
    <<AddProperty(Exposed(e), Setter(e), Getter(e))>>

(* GodotPropertyGenerator::do_generate.                                    *)
GenerateProperty ==
    /\ Visiting("property") /\ Accepted(Current)
    /\ bind_methods' = bind_methods \o PropertyBinds(Current)
    /\ members' = members \o IF Automatic(Current) THEN AutoMembers(Current) ELSE <<>>
    /\ sources' = sources \o IF Automatic(Current) THEN AutoSources(Current) ELSE <<>>
    /\ names' = [names EXCEPT
            !.property = Append(@, Exposed(Current)),
            !.signal = IF AddsSignal(Current) THEN Append(@, ChangedSignal(Current)) ELSE @]
    /\ Keep /\ UNCHANGED rpcs

(* Mutant: a function is bound under its own name.                         *)
FunctionBindsTarget(e) ==
    IF Scripted(e)
    THEN <<BindVirtual(VirtualName(e)), BindMethod(e.target, VirtualName(e))>>
    ELSE <<BindMethod(e.target, e.target)>>

(* GodotFunctionGenerator: a script virtual is bound through a function    *)
(* that asks the script first.                                             *)
FunctionBinds(e) ==
    IF Scripted(e)
    THEN <<BindVirtual(VirtualName(e)), BindMethod(Exposed(e), VirtualName(e))>>
    ELSE <<BindMethod(Exposed(e), e.target)>>

GenerateFunction ==
    /\ Visiting("function") /\ Accepted(Current)
    /\ bind_methods' = bind_methods \o FunctionBinds(Current)
    /\ \/ /\ Scripted(Current)
          /\ members' = members \o
                 <<Member(VirtualName(Current), Current.access, "function"),
                   Member(VirtualName(Current), Current.access, "virtual")>>
          /\ sources' = Append(sources,
                 Define(VirtualName(Current), {}, {Current.target}, {}))
       \/ ~Scripted(Current) /\ UNCHANGED <<members, sources>>
    /\ rpcs' = IF Current.rpc THEN Append(rpcs, Exposed(Current)) ELSE rpcs
    /\ names' = [names EXCEPT !.function = Append(@, Current.target)]
    /\ Keep

(* Mutant: the emitting function is generated for signals with arguments.  *)
GenerateSignalLoaded ==
    /\ Visiting("signal") /\ Accepted(Current)
    /\ bind_methods' = Append(bind_methods, AddSignal(Exposed(Current), Len(Current.takes)))
    /\ sources' = IF Current.takes = <<>> THEN sources
                  ELSE Append(sources, SignalDefinition(Exposed(Current), Len(Current.takes)))
    /\ names' = [names EXCEPT !.signal = Append(@, Exposed(Current))]
    /\ Keep /\ UNCHANGED <<members, rpcs>>

(* GodotSignalGenerator::do_generate and bind_signal.  The emitting        *)
(* function is defined under the name of the signal.                       *)
GenerateSignal ==
    /\ Visiting("signal") /\ Accepted(Current)
    /\ bind_methods' = Append(bind_methods, AddSignal(Exposed(Current), Len(Current.takes)))
    /\ sources' = Append(sources, SignalDefinition(Exposed(Current), Len(Current.takes)))
    /\ names' = [names EXCEPT !.signal = Append(@, Exposed(Current))]
    /\ Keep /\ UNCHANGED <<members, rpcs>>

(* GodotEnumGenerator::do_generate: one constant for each value.           *)
GenerateEnum ==
    /\ Visiting("enum")
    /\ bind_methods' = bind_methods \o
           [i \in DOMAIN Current.values |-> BindConstant(Current.values[i])]
    /\ Keep /\ UNCHANGED <<members, sources, rpcs, names>>

(* The generators of godot_hint_generators.cpp: a category (level 0) is    *)
(* bound as a group (1), a subgroup is level 2.                            *)
GenerateGroup ==
    /\ Visiting("group")
    /\ bind_methods' = Append(bind_methods,
           AddGroup(Current.bind, IF Current.level = 0 THEN 1 ELSE Current.level))
    /\ Keep /\ UNCHANGED <<members, sources, rpcs, names>>

(* A function without an attribute.                                        *)
PassBy ==
    /\ Visiting("none")
    /\ Keep /\ UNCHANGED <<bind_methods, members, sources, rpcs, names>>

(* A GEN_ERR ends the program before anything is written for this file; a  *)
(* class may also fail the checks on its bases and includes.               *)
Reject ==
    /\ \/ status = "new"
       \/ status = "open" /\ pos < Len(class) /\ ~Accepted(Current)
    /\ status' = "failed"
    /\ bind_methods' = <<>> /\ members' = <<>> /\ sources' = <<>> /\ rpcs' = <<>>
    /\ names' = NoNames /\ registered' = <<>>
    /\ UNCHANGED <<classes, turn, pos>>

Next == OpenClass \/ NextClass \/ GenerateProperty \/ GenerateFunction \/ GenerateSignal
        \/ GenerateEnum \/ GenerateGroup \/ PassBy \/ Reject

Spec == Init /\ [][Next]_vars

---------------------------------------------------------------------------
Complete == status = "open" /\ pos = Len(class)
Named(s, n) == {i \in DOMAIN s : s[i].name = n}
Doing(what) == {i \in DOMAIN bind_methods : bind_methods[i].do = what}
BoundNames(what) == {bind_methods[i].name : i \in Doing(what)}
Declared(n) == {i \in Named(members, n) : members[i].is = "function"}
Emissions == UNION {sources[i].emits : i \in DOMAIN sources}
GivenSignals == {e.signal : e \in {x \in ToSet(class) : Automatic(x)}}

(* Every statement, declaration and status is of its kind, and the visit   *)
(* of the class body never runs past its end.                              *)
TypeOK ==
    /\ turn \in DOMAIN classes /\ pos \in 0 .. Len(class)
    /\ ToSet(registered) \subseteq {c.name : c \in ToSet(classes)}
    /\ status \in {"new", "open", "failed"}
    /\ \A i \in DOMAIN bind_methods : bind_methods[i].arguments \in Nat
    /\ \A i \in DOMAIN members :
          /\ members[i].access \in Access
          /\ members[i].is \in {"function", "field", "virtual"}
    /\ DOMAIN names = {"property", "function", "signal"}

(* Every class the user does not register is, once, after its base, as     *)
(* ClassDB demands, in whatever order the sources are visited.             *)
BasesFirst ==
    /\ \A i, j \in DOMAIN registered : registered[i] = registered[j] => i = j
    /\ \A i, j \in DOMAIN registered, c \in ToSet(classes) :
          c.name = registered[i] /\ c.base = registered[j] => j < i
    /\ status = "open" => \A k \in 1 .. turn :
          classes[k].custom \/ classes[k].name \in ToSet(registered)

(* A property is added with accessors that earlier statements have bound,  *)
(* as Godot demands.                                                       *)
BoundBeforeNamed ==
    \A i \in Doing("property") : \A n \in ToSet(bind_methods[i].uses) :
        \E j \in Doing("bind") : j < i /\ bind_methods[j].name = n

(* A signal emitted by generated code is added, with as many arguments as  *)
(* it is emitted with.  (A name given to EmitChanged is the user's to add.) *)
EmittedIsAdded ==
    TypeOK /\ \A emission \in Emissions : emission[1] \notin GivenSignals =>
        \E i \in Doing("signal") : /\ bind_methods[i].name = emission[1]
                                   /\ bind_methods[i].arguments = emission[2]

(* A member function is defined exactly once if and only if the generated  *)
(* body, or a signal prototype, declares it                                *)
(* (docs/macros/descriptions/GODOT_SIGNAL.rst: "an implementation which    *)
(* can be used to emit the signal will be generated").                     *)
DefinedIffDeclared ==
    Complete =>
        /\ \A i \in DOMAIN members : members[i].is = "function" =>
              \E j \in DOMAIN sources : Named(sources, members[i].name) = {j}
        /\ \A e \in ToSet(class) : e.attribute = "signal" =>
              \E j \in DOMAIN sources : Named(sources, e.target) = {j}
        /\ \A j \in DOMAIN sources :
              \/ Declared(sources[j].name) # {}
              \/ \E e \in ToSet(class) :
                    e.attribute = "signal" /\ e.target = sources[j].name

(* ... and every name its bodies read is a parameter or a member.          *)
BodiesResolve ==
    \A i \in DOMAIN sources : \A n \in sources[i].reads \ sources[i].parameters :
        n \in Fields(class) \cup FunctionNames(class) \/ Named(members, n) # {}

(* The generated source compiles: definitions and declarations agree, and  *)
(* so do the names the definitions use.                                    *)
SourcesCompile == DefinedIffDeclared /\ BodiesResolve

(* No function is declared twice or bound twice, whichever of the          *)
(* attributes of the class ask for it.                                     *)
NoNameTwice ==
    /\ \A i \in Doing("bind"), j \in Doing("bind") :
          bind_methods[i].name = bind_methods[j].name => i = j
    /\ \A n \in {members[k].name : k \in DOMAIN members} :
          \A i, j \in Declared(n) : i = j
    /\ \A i \in DOMAIN members : members[i].is = "function" =>
          members[i].name \notin FunctionNames(class)

(* The names offered to C++ and those configured for remote calls are      *)
(* names Godot knows.  (FunctionNames offers a function's own name, also   *)
(* when it is bound under another one.)                                    *)
NamesAreBound ==
    /\ ToSet(names.property) \subseteq BoundNames("property")
    /\ \A n \in ToSet(names.function) : FunctionNamed(class, n).bind = NoName =>
          n \in BoundNames("bind")
    /\ ToSet(names.signal) \subseteq BoundNames("signal")
    /\ ToSet(rpcs) \subseteq BoundNames("bind")

(* A property is shown under the group that is open where it is declared.  *)
LastBefore(S, i) == CHOOSE j \in S \cup {0} : j < i /\ \A k \in S : k < i => k <= j
Shown == [i \in {k \in DOMAIN class : class[k].attribute = "property"} |->
            LastBefore({k \in DOMAIN class : class[k].attribute = "group"}, i)]
GroupsFollowBody ==
    Complete => \A i \in Doing("property") :
        LET k == CHOOSE x \in DOMAIN Shown : Exposed(class[x]) = bind_methods[i].name
            g == LastBefore(Doing("group"), i)
        IN  IF Shown[k] = 0 THEN g = 0
            ELSE g # 0 /\ bind_methods[g].name = class[Shown[k]].bind

(* What is registered comes in the order Godot demands and the class has:  *)
(* bases before heirs, accessors before their property, groups before what *)
(* is shown in them.                                                       *)
RegisteredInOrder == BasesFirst /\ BoundBeforeNamed /\ GroupsFollowBody

(* The names of a class agree: none is made or bound twice, and each that  *)
(* is offered to C++ or to remote calls is one Godot knows.                *)
NamesAgree == NoNameTwice /\ NamesAreBound

=============================================================================
