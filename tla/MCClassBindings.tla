-------------------------- MODULE MCClassBindings --------------------------
EXTENDS ClassBindings

CONSTANTS
    Members,        \* the entries a class body may have
    MaxMembers,     \* bound: entries of a class body
    MaxClasses      \* bound: classes with an empty body, next to each other

(* The entries of a class body, each the plain one but for one aspect.     *)
Field(n, t, bind) ==
    [attribute |-> "property", target |-> <<n>>, bind |-> bind, accessors |-> <<>>,
     type |-> t, const |-> FALSE, static |-> FALSE, initialized |-> t \in Scalars,
     duplicated |-> FALSE, readonly |-> FALSE, emit |-> "no", signal |-> NoName,
     get |-> "public", set |-> "private"]
CustomProperty(n) ==
    [attribute |-> "property", target |-> NoName, bind |-> <<n>>,
     accessors |-> <<<<"get", "k">>, <<"set", "k">>>>, emit |-> "no", signal |-> NoName]
Function(attribute, n, bind, returns, takes) ==
    [attribute |-> attribute, target |-> n, bind |-> bind, returns |-> returns,
     takes |-> takes, static |-> FALSE, virtual |-> FALSE, rpc |-> FALSE,
     access |-> "public"]
Group(level, n) ==
    [attribute |-> "group", target |-> NoName, bind |-> n, level |-> level]
Enum(n, values) ==
    [attribute |-> "enum", target |-> <<n>>, bind |-> NoName, values |-> values]

Plain == {
    Field("a", "int", NoName),
    [Field("a", "int", NoName) EXCEPT !.emit = "signal"],
    [Field("a", "Array", NoName) EXCEPT !.duplicated = TRUE, !.emit = "value",
                                        !.readonly = TRUE],
    [Field("b", "Object*", <<"x">>) EXCEPT !.initialized = TRUE, !.readonly = TRUE],
    [Field("c", "String", NoName) EXCEPT !.emit = "value", !.signal = <<"s">>],
    CustomProperty("k"),
    Function("none", <<"get", "k">>, NoName, "int", <<>>),
    Function("function", <<"get", "k">>, NoName, "int", <<>>),
    Function("none", <<"set", "k">>, NoName, "void", <<"int">>),
    [Function("function", <<"f">>, <<"g">>, "int", <<"int">>) EXCEPT !.rpc = TRUE],
    [Function("function", <<"v">>, NoName, "void", <<>>) EXCEPT !.virtual = TRUE],
    [Function("function", <<"v">>, NoName, "void", <<>>) EXCEPT !.static = TRUE],
    Function("none", BindMethods, NoName, "void", <<>>),
    Function("signal", <<"s">>, NoName, "void", <<"int">>),
    Function("signal", <<"t">>, NoName, "void", <<>>),
    Enum("E", <<<<"A">>, <<"B">>>>),
    Group(0, <<"first">>), Group(2, <<"second">>), Group(1, NoName)}

(* Entries that are rejected.                                              *)
Faulty == {
    [Field("a", "int", NoName) EXCEPT !.initialized = FALSE],
    [Field("b", "int", NoName) EXCEPT !.duplicated = TRUE],
    Field("b", "Ref<Object>", NoName),
    Function("signal", <<"t">>, NoName, "void", <<"unknown">>),
    Function("none", <<"set", "k">>, NoName, "void", <<>>)}

All == Plain \cup Faulty

(* A class with a signal exposed under another name.                       *)
RenamedSignal == {
    Function("signal", <<"s">>, <<"exposed">>, "void", <<"int">>),
    Function("signal", <<"t">>, NoName, "void", <<>>),
    Field("a", "int", NoName)}

(* The entries for the other uneven usages.                                *)
Uneven == {
    [Field("a", "int", <<"x">>) EXCEPT !.emit = "signal"],
    CustomProperty("k"), CustomProperty("l"),
    Function("none", <<"get", "k">>, NoName, "int", <<>>),
    Function("function", <<"get", "k">>, NoName, "int", <<>>),
    Function("function", <<"get", "k">>, <<"g">>, "int", <<>>),
    Function("none", <<"set", "k">>, NoName, "void", <<"int">>)}

(* Either one class, with any body, or several classes, whose order is     *)
(* what matters.                                                           *)
Class(n, base, custom, body) ==
    [name |-> n, base |-> base, custom |-> custom, body |-> body]
Bodies == UNION {[1 .. n -> Members] : n \in 0 .. MaxMembers}
ClassNames == 1 .. MaxClasses
Hierarchies == {[i \in ClassNames |-> Class(i, bases[i], i \in custom, <<>>)] :
                   bases \in [ClassNames -> 0 .. MaxClasses], custom \in {{}, {1}}}
Simple == {<<Class(1, 0, FALSE, body)>> : body \in Bodies}
Pairs == {<<Class(1, 0, FALSE, <<first>>), Class(2, 1, FALSE, <<second>>)>> :
             first \in Members, second \in Members}
AllInputs == Simple \cup Pairs \cup Hierarchies
=============================================================================
