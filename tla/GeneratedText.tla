--------------------------- MODULE GeneratedText ---------------------------
(***************************************************************************)
(* From the types clang spells to the text goc writes: the members of a    *)
(* class are read, and the files generated for its header and for the      *)
(* attribute macros are printed through the output tree.                   *)
(***************************************************************************)
EXTENDS OutputTree

CONSTANTS
    PropertyTypes,  (* the types of the properties                          *)
    ReturnTypes,    (* the types a virtual function returns                 *)
    ParameterTypes, (* the types it takes                                   *)
    MacroTables,    (* the attribute macros, each with its parameter types  *)
    MaxMembers,     (* the members written in the class                     *)
    Texts,          (* the texts the string utilities are given             *)
    Affixes         (* the beginnings and ends they are asked for           *)

VARIABLES
    phase,   (* what the program does next                                 *)
    table,   (* the attribute macros registered                            *)
    members, (* the members of the class, with their types as written      *)
    read,    (* the same with the trees of their types                     *)
    macros,  (* the text of macros.h                                       *)
    derives, (* whether the base class has the attribute too               *)
    header,  (* the text of the generated header                           *)
    source   (* the text of the generated source                           *)

vars == <<phase, table, members, read, macros, derives, header, source>>

---------------------------------------------------------------------------
(* A type is written with a const, a name, template arguments and what     *)
(* follows them; clang spells it in one way.                               *)

RECURSIVE Spelled(_)
Spelled(type) ==
    LET arguments == [k \in DOMAIN type.arguments |-> Spelled(type.arguments[k])]
    IN  (IF type.const THEN <<"const", " ">> ELSE <<>>) \o type.name
        \o (IF arguments = <<>> THEN <<>>
            ELSE <<"<">> \o StringVectorCombine(arguments, <<",", " ">>) \o <<">">>)
        \o (IF type.modifiers = <<>> THEN <<>> ELSE Blank \o type.modifiers)

Const == Modifier("const")
Reference == Modifier("&")
Pointer == Modifier("*")

TypeIsConst(s) == StringPrefix(s, <<"const", " ">>)
AfterConst(s) == IF TypeIsConst(s) THEN From(s, 3) ELSE s

(* The character before the first modifier goes with it.                   *)
GetModifiers(s) ==
    LET signs == SelectSeq(s, LAMBDA c : c \in {"&", "*"})
    IN  [k \in DOMAIN signs |-> Modifier(signs[k])]
(* Mutant: the name keeps what stands between its modifiers.               *)
WithoutLastModifier(s) ==
    LET last == SelectLastInSeq(s, LAMBDA c : c \in {"&", "*"})
    IN  IF last = 0 THEN s ELSE StringTrim(SubSeq(s, 1, last - 2))
WithoutModifiers(s) ==
    LET first == SelectInSeq(s, LAMBDA c : c \in {"&", "*"})
    IN  IF first = 0 THEN s ELSE StringTrim(SubSeq(s, 1, first - 2))

(* What follows the template arguments is not looked at.                   *)
RECURSIVE GetTypeFromSpelling(_)
GetTypeFromSpelling(s) ==
    LET sections == StringGetEnclosedSections(s, "<", ">", ",")
        templated == Len(sections) > 1
        spelling == IF templated THEN sections[1] ELSE s
        arguments == [k \in 1 .. Len(sections) - 1 |-> GetTypeFromSpelling(sections[k + 1])]
        named == AfterConst(spelling)
    IN  Tree("type",
             (IF TypeIsConst(spelling) THEN <<Const>> ELSE <<>>)
             \o <<Identifier(WithoutModifiers(named))>> \o GetModifiers(named)
             \o (IF templated THEN <<Tree("template_arguments", arguments)>> ELSE <<>>))

Printed(node) == ShrinkInnerSpace(StringTrim(GetOutput(Transform(node, None))))
Without(type, Drop(_)) == Tree("type", SelectSeq(type.children, LAMBDA c : ~Drop(c)))
TypeName(type) == Printed(type)
TypeNameUntemplated(type) ==
    Printed(Without(type, LAMBDA c : c.is \in {"modifier", "template_arguments"}))
TypeNameUnmodified(type) == Printed(Without(type, LAMBDA c : c.is = "modifier"))
TypeNameUnmodifiedPtr(type) == Printed(Without(type, LAMBDA c : c \in {Const, Reference}))
TemplateArguments(type) == SeqOfIs(type.children, {"template_arguments"})
TemplateArgumentCount(type) ==
    IF TemplateArguments(type) = <<>> THEN 0 ELSE Len(TemplateArguments(type)[1].children)

ConstRef(name) == Tree("type", <<Const, Identifier(name), Reference>>)
IsVoid(type) == TypeName(type) = <<"void">>
IsObject(type) == \E k \in DOMAIN type.children : type.children[k] = Pointer

---------------------------------------------------------------------------
(* What the generators build for the members.                              *)

Class == <<"A">>
InClass(name) == Class \o <<"::">> \o name
Function(children) == Tree("function", children)
Declaration(children) == Function(Append(children, Semicolon))
Call(name, arguments) == Function(<<Identifier(name), Tree("arguments", arguments)>>)
Statement(name, arguments) ==
    Declaration(<<Identifier(name), Tree("arguments", arguments)>>)
Parameters(parameters) == Tree("parameters", parameters)
Parameter(type, name) == Tree("parameter", <<type, Identifier(name)>>)
Quoted(name) == Argument(StringLiteral(name))
Named(name) == Argument(Identifier(name))
AccessSpecifier(type) == [is |-> "access", type |-> type]
Void == TypeNamed(<<"void">>)

BindMethod(name, parameters) ==
    Statement(<<"ClassDB", "::", "bind_method">>,
        <<Call(<<"D_METHOD">>,
               <<Quoted(name)>> \o [k \in DOMAIN parameters |-> Quoted(parameters[k])]),
          Tree("argument", <<Reference, Identifier(Class), Text(<<"::">>), Text(name)>>)>>)

GetterName(member) == <<"get_">> \o member.name
SetterName(member) == <<"set_">> \o member.name
GivenName(member) == <<"p_">> \o member.name
InitializedName(member) == <<"__">> \o member.name \o <<"__initialized">>
SetType(member) == IF IsObject(member.type) THEN member.type ELSE ConstRef(TypeName(member.type))

Getter(member) == <<member.type, Identifier(GetterName(member)), Parameters(<<>>), Const>>
Setter(member) ==
    <<Void, Identifier(SetterName(member)),
      Parameters(<<Parameter(SetType(member), GivenName(member))>>)>>
Implementation(children, body) ==
    Function(Append([children EXCEPT ![2] = Identifier(InClass(children[2].name))],
                    Tree("body", body)))

InitializedField(member) ==
    Tree("field", <<TypeNamed(<<"bool">>), Identifier(InitializedName(member)),
                    Literal(<<"false">>)>>)
ReadonlyChecks(member) ==
    <<If(Text(InitializedName(member)), <<Text(<<"ERR_FAIL_MSG", "(", ")", ";">>)>>),
      Text(InitializedName(member) \o <<" ", "=", " ", "true", ";">>)>>
SetterBody(member) ==
    (IF member.readonly THEN ReadonlyChecks(member) ELSE <<>>)
    \o <<Assign(member.name, Text(GivenName(member)))>>

(* A property without usage flags has no argument for them.                *)
BuildPropertyInfo(member) ==
    Call(<<"PropertyInfo">>,
        <<Argument(Literal(<<"Variant", "::", "TYPE">>)), Quoted(member.name),
          Argument(Literal(<<"HINT">>)), Argument(Literal(<<"\"", "\"">>))>>
        \o (IF member.usages = <<>> THEN <<>>
            ELSE <<ListNode(<<" ", "|", " ">>,
                            [k \in DOMAIN member.usages |-> Literal(member.usages[k])])>>))

(* The structs of the names derive from those of the base, if that is a    *)
(* class with the attribute.                                               *)
NamesStruct(name, named, based) ==
    [is |-> "class", specifier |-> "struct", name |-> name,
     bases |-> IF based THEN <<<<"Base", "::">> \o name>> ELSE <<>>,
     body |-> Tree("body", [k \in DOMAIN named |->
         Text(<<"static", " ", "NAME", " ">> \o named[k].name \o <<"(", ")", "{", "}">>)])]

VirtualName(member) == <<"_">> \o member.name
VirtualCaller(member) ==
    <<member.type, Identifier(VirtualName(member)),
      Parameters([k \in DOMAIN member.parameters |->
                     Parameter(member.parameters[k].type, member.parameters[k].name)])>>
ParameterNames(member) == [k \in DOMAIN member.parameters |-> member.parameters[k].name]
NamedAll(names) == [k \in DOMAIN names |-> Named(names[k])]
GdVirtual(member) ==
    Statement(<<IF IsVoid(member.type) THEN "GDVIRTUAL" ELSE "GDVIRTUAL_R">>,
        (IF IsVoid(member.type) THEN <<>> ELSE <<Named(TypeNameUnmodifiedPtr(member.type))>>)
        \o <<Named(VirtualName(member))>>
        \o [k \in DOMAIN member.parameters |->
               Named(TypeNameUnmodifiedPtr(member.parameters[k].type))])
VirtualBody(member) ==
    LET void == IsVoid(member.type)
        result == <<"return_value">>
        call == Function(<<Text(<<"!">>), Identifier(<<"GDVIRTUAL_CALL">>),
                    Tree("arguments", <<Named(VirtualName(member))>>
                        \o NamedAll(ParameterNames(member))
                        \o (IF void THEN <<>> ELSE <<Named(result)>>))>>)
        given == Statement(member.name, NamedAll(ParameterNames(member)))
    IN  (IF void THEN <<>>
         ELSE <<Text(TypeName(member.type) \o Blank \o result \o <<" ", "=", " ", "{", "}", ";">>)>>)
        \o <<If(call, <<Spaces(<<Text(<<"return">>), given>>)>>)>>
        \o (IF void THEN <<>> ELSE <<Text(<<"return", " ">> \o result \o <<";">>)>>)
BindVirtual(member) ==
    <<Statement(<<"GDVIRTUAL_BIND">>,
          <<Named(VirtualName(member))>>
          \o [k \in DOMAIN member.parameters |-> Quoted(member.parameters[k].name)]),
      BindMethod(VirtualName(member), ParameterNames(member))>>

AddGroup(member) == Statement(<<member.macro>>, <<Quoted(member.name), Quoted(<<>>)>>)

(* What each member adds to the public and private members of the body, to *)
(* the method that binds, and to the source.                               *)
PublicOf(m) ==
    CASE m.kind = "property" ->
             <<Function(Append(Getter(m), Semicolon)), Declaration(Setter(m))>>
      [] m.kind = "virtual" -> <<Declaration(VirtualCaller(m)), GdVirtual(m)>>
      [] OTHER -> <<>>
PrivateOf(m) == IF m.kind = "property" /\ m.readonly THEN <<InitializedField(m)>> ELSE <<>>
BindsOf(m) ==
    CASE m.kind = "property" ->
             <<BindMethod(GetterName(m), <<>>), BindMethod(SetterName(m), <<m.name>>),
               Statement(<<"ADD_PROPERTY">>, <<Argument(BuildPropertyInfo(m)),
                                              Quoted(SetterName(m)), Quoted(GetterName(m))>>)>>
      [] m.kind = "virtual" -> BindVirtual(m)
      [] m.kind = "group" -> <<AddGroup(m)>>
SourceOf(m) ==
    CASE m.kind = "property" ->
             <<Implementation(Getter(m), <<Return(m.name)>>),
               Implementation(Setter(m), SetterBody(m))>>
      [] m.kind = "virtual" -> <<Implementation(VirtualCaller(m), VirtualBody(m))>>
      [] OTHER -> <<>>

Each(all, Of(_)) == Joined([k \in DOMAIN all |-> Of(all[k])])
BindMethods == <<Void, Identifier(<<"_bind_methods">>), Parameters(<<>>)>>
Notification ==
    <<Void, Identifier(<<"_notification">>),
      Parameters(<<Parameter(TypeNamed(<<"int">>), <<"p_notification">>)>>)>>
NamesOf(all, name, kind, based) ==
    NamesStruct(name, SelectSeq(all, LAMBDA m : m.kind = kind), based)
GeneratedBody(all, based) ==
    Tree("context",
        <<Statement(<<"GDCLASS">>, <<Argument(Text(Class)), Argument(Text(<<"Base">>))>>),
          AccessSpecifier("public"),
          Tree("context",
               <<Declaration(<<Modifier("static")>> \o BindMethods), Declaration(Notification),
                 NamesOf(all, <<"PropertyNames">>, "property", based),
                 NamesOf(all, <<"FunctionNames">>, "function", based),
                 NamesOf(all, <<"SignalNames">>, "signal", based)>>
               \o Each(all, PublicOf)),
          AccessSpecifier("protected"), Tree("context", <<>>),
          AccessSpecifier("private"), Tree("context", Each(all, PrivateOf))>>)
GeneratedSources(all) ==
    Tree("context", <<NewLine, Implementation(BindMethods, Each(all, BindsOf)),
                      Implementation(Notification, <<>>)>>
                    \o Each(all, SourceOf))

---------------------------------------------------------------------------
(* The macros and types of the attributes.                                 *)

AttributeCheck(macro) ==
    <<"static_assert", "(", "return", " ">> \o macro.name \o <<"_prototype", "(", "...", ")", ")">>
Combined == <<"GOC_BODY_COMBINE", "(", "__LINE__", ")", "(", ")">>
(* Names, on lines of five.                                                *)
ShownNames(names) ==
    [k \in DOMAIN names |-> Text((IF k % 5 = 0 THEN Newline ELSE <<>>) \o names[k])]
GenerateMacro(macro) ==
    LET documented == DocComment(Lines(<<Text(macro.doc), NewLine,
                          Spaces(<<Text(<<"Available">>),
                                   Params(ShownNames([k \in DOMAIN macro.parameters |->
                                                         macro.parameters[k].name]))>>)>>))
    IN  (IF macro.doc = <<>> THEN <<>> ELSE <<documented>>)
        \o <<Define(macro.name, <<Text(<<"...">>)>>,
                 <<Text((IF macro.generates THEN Combined \o <<";", " ">> ELSE <<>>)
                        \o AttributeCheck(macro))>>)>>

ConstExpression == Modifier("constexpr")
Prototype(macro, parameters, body) ==
    Function(<<ConstExpression, TypeNamed(<<"bool">>), Identifier(macro.name \o <<"_prototype">>),
               Parameters(parameters), Tree("body", Append(body, Return(<<"true">>)))>>)

(* A parameter's values: constants, or functions of their arguments.       *)
ArgumentType == [string |-> Tree("type", <<Const, Identifier(<<"char">>), Pointer>>),
                 integer |-> TypeNamed(<<"int">>)]
NoValue == [string |-> <<"\"", "\"">>, integer |-> <<"0">>]
ArgumentParameter(argument) ==
    Tree("parameter", <<ArgumentType[argument.type], Identifier(argument.name)>>
                      \o (IF argument.optional THEN <<Literal(NoValue[argument.type])>> ELSE <<>>))
ValueOf(type, name) ==
    LET named == <<ConstExpression, TypeNamed(type.name), Identifier(name)>>
        parameters == [k \in DOMAIN type.arguments |-> ArgumentParameter(type.arguments[k])]
    IN  IF parameters = <<>> THEN Tree("field", Append(named, Literal(<<"{", "}">>)))
        ELSE Function(named \o <<Parameters(parameters), Tree("body", <<Return(<<"{", "}">>)>>)>>)
Values(type) ==
    Joined([k \in DOMAIN type.values |->
        (IF type.documented THEN <<DocComment(Text(<<"text", "\n">>))>> ELSE <<>>)
        \o <<ValueOf(type, type.values[k]), NewLine>>])
GenerateAttributeParameterType(type) ==
    IF type.builtin THEN <<>>
    ELSE <<DocComment(Lines(<<Spaces(<<Text(<<"Possible">>), Params(ShownNames(type.values))>>)>>)),
           Text(<<"class", " ">> \o type.name \o <<" ", "{", "}", ";">>), NewLine>>
         \o (IF type.flag
             THEN <<Function(<<ConstExpression, TypeNamed(type.name),
                      Identifier(<<"operator", " ", "|">>),
                      Parameters(<<Parameter(TypeNamed(type.name), <<"a">>),
                                   Parameter(TypeNamed(type.name), <<"b">>)>>),
                      Tree("body", <<Return(<<"{", "}">>)>>)>>)>>
             ELSE <<>>)
         \o Values(type)

(* One prototype for no argument, one for each, and a template for every   *)
(* number of them from two on.                                             *)
Generic == [t |-> <<<<"T1">>, <<"T2">>, <<"T3">>, <<"T4">>, <<"T5">>>>,
            p |-> <<<<"a1">>, <<"a2">>, <<"a3">>, <<"a4">>, <<"a5">>>>]
TemplateLine(n) ==
    Spaces(<<Text(<<"template", " ">>),
             Chevrons(<<Params([k \in 1 .. n |-> Text(<<"typename", " ">> \o Generic.t[k])])>>)>>)
TemplateBody(macro, n) ==
    LET Pairs == [k \in 1 .. n - 1 |-> [j \in 1 .. n - k |->
                     Text(<<"static_assert", "(", "!">> \o Generic.t[k] \o <<",">>
                          \o Generic.t[k + j] \o <<")", ";">>)]]
    IN  Joined(Pairs) \o [k \in 1 .. n |->
            Text(macro.name \o <<"_prototype", "(">> \o Generic.p[k] \o <<")", ";">>)]
GeneratePrototypeMethods(macro) ==
    <<Prototype(macro, <<Tree("parameter", <<>>)>>, <<>>), NewLine>>
    \o Joined([k \in DOMAIN macro.parameters |->
           <<Prototype(macro, <<Tree("parameter", <<Text(macro.parameters[k].name)>>)>>, <<>>),
             NewLine>>])
    \o Joined([n \in 1 .. Len(macro.parameters) - 1 |->
           <<TemplateLine(n + 1),
             Prototype(macro, [k \in 1 .. n + 1 |->
                 Tree("parameter", <<Text(Generic.t[k] \o Blank \o Generic.p[k])>>)],
                 TemplateBody(macro, n + 1)),
             NewLine>>])

(* The type of a parameter is generated for the first macro that takes it. *)
ParametersOf(all) == UNION {Range(all[k].parameters) : k \in DOMAIN all}
NewTypes(all, k) ==
    SelectSeq(all[k].parameters, LAMBDA type : type \notin ParametersOf(SubSeq(all, 1, k - 1)))
GenerateMacros(all) ==
    <<Define(<<"GOC_BODY_COMBINE">>, <<Text(<<"A">>), Text(<<"B">>)>>, <<Text(<<"A", "##", "B">>)>>)>>
    \o Each(all, GenerateMacro)
Generate(all) ==
    LET body == Joined([k \in DOMAIN all |->
                    Each(NewTypes(all, k), GenerateAttributeParameterType)
                    \o GeneratePrototypeMethods(all[k])])
    IN  Tree("context",
            <<PragmaOnce, Include(<<"core_includes.h">>), SystemInclude(<<"type_traits">>)>>
            \o GenerateMacros(all)
            \o <<[is |-> "namespace", name |-> <<"GOC_Macros">>, body |-> Tree("body", body)]>>)

---------------------------------------------------------------------------
(* The program.                                                            *)

Init ==
    /\ phase = "start" /\ table = <<>>
    /\ members = <<>> /\ read = <<>>
    /\ macros = <<>> /\ derives = FALSE /\ header = <<>> /\ source = <<>>

(* The file is written when the engine's api is new; <<>> is the one of    *)
(* before.                                                                 *)
GenerateMacroInclude ==
    /\ phase = "start"
    /\ phase' = "read"
    /\ table' \in MacroTables \cup {<<>>}
    /\ macros' = IF table' = <<>> THEN <<>> ELSE GetOutput(Generate(table'))
    /\ UNCHANGED <<members, read, derives, header, source>>

ReadType(type) == GetTypeFromSpelling(Spelled(type))
ReadParameters(parameters) ==
    [k \in DOMAIN parameters |-> [parameters[k] EXCEPT !.type = ReadType(@)]]
ReadMember(member) ==
    CASE member.kind = "property" -> [member EXCEPT !.type = ReadType(@)]
      [] member.kind = "virtual" ->
             [member EXCEPT !.type = ReadType(@), !.parameters = ReadParameters(@)]
      [] OTHER -> member

Name(k) == <<IF k = 1 THEN "hp" ELSE "mp">>
Usages(readonly) == IF readonly THEN <<<<"EDITOR">>, <<"STORAGE">>>> ELSE <<>>
PropertyNamed(name) ==
    {[kind |-> "property", name |-> name, type |-> type, readonly |-> readonly,
      usages |-> Usages(readonly)] : type \in PropertyTypes, readonly \in BOOLEAN}
ParameterLists == {<<>>} \cup {<<[type |-> type, name |-> <<"x">>]>> : type \in ParameterTypes}
VirtualNamed(name) ==
    {[kind |-> "virtual", name |-> name, type |-> type, parameters |-> parameters] :
        type \in ReturnTypes, parameters \in ParameterLists}
GroupNamed(name) ==
    {[kind |-> "group", name |-> name, macro |-> macro] : macro \in {"ADD_GROUP", "ADD_SUBGROUP"}}
MembersNamed(name) == PropertyNamed(name) \cup VirtualNamed(name) \cup GroupNamed(name)

(* A bound: members are read beside the macros of before only, the text of *)
(* one file says nothing of the other.                                     *)
Read ==
    /\ phase = "read" /\ Len(members) < MaxMembers /\ table = <<>>
    /\ \E member \in MembersNamed(Name(Len(members) + 1)) :
           /\ members' = Append(members, member)
           /\ read' = Append(read, ReadMember(member))
    /\ UNCHANGED <<phase, table, macros, derives, header, source>>

HeaderStart ==
    Lines(<<PragmaOnce, Text(<<"#undef", " ", "GOC_FILE_ID">>),
            Define(<<"GOC_FILE_ID">>, <<>>, <<Text(<<"id">>)>>),
            Include(<<"macros.h">>), NewLine>>)
SourceStart == Lines(<<Include(<<"a.h">>), NewLine>>)
GeneratedMacro(all, based) == Define(<<"GOC_GENERATED">>, <<>>, <<GeneratedBody(all, based)>>)
GlobalMacro == Define(<<"GOC_GLOBAL">>, <<>>, <<Tree("context", <<>>)>>)
GenerateBindings ==
    /\ phase = "read"
    /\ phase' = "done"
    /\ derives' \in BOOLEAN
    /\ header' = GetOutput(HeaderStart)
                 \o GetOutput(GeneratedMacro(read, derives')) \o Newline \o GetOutput(GlobalMacro)
    /\ source' = GetOutput(SourceStart)
                 \o GetOutput(Transform(GeneratedSources(read), None))
    /\ UNCHANGED <<table, members, read, macros>>

Next == GenerateMacroInclude \/ Read \/ GenerateBindings
Spec == Init /\ [][Next]_vars

---------------------------------------------------------------------------
(* What a C++ compiler reads of a text: comments left out, lines that end  *)
(* in a backslash joined with the next, one directive a line.              *)

RECURSIVE WithoutComments(_)
WithoutComments(s) ==
    LET begin == Find(s, <<"/**">>, 1)
        end == Find(s, <<"*", "/">>, begin)
    IN  IF begin = 0 THEN s
        ELSE SubSeq(s, 1, begin - 1)
             \o (IF end = 0 THEN <<"unclosed">> ELSE WithoutComments(From(s, end + 2)))
Tokens(s) == SelectSeq(s, LAMBDA c : ~IsWhitespace(c))
CompiledLines(s) ==
    LET joined == StringReplace(WithoutComments(s), <<"\\", "\n">>, Blank)
        lines == Pieces(joined, Newline)
    IN  Listed([k \in DOMAIN lines |-> Tokens(lines[k])])
Directive(line) == line # <<>> /\ line[1] \in {"#pragma", "#undef", "#define", "#include"}
Directives(s) == SelectSeq(CompiledLines(s), Directive)
Code(s) == Joined(SelectSeq(CompiledLines(s), LAMBDA line : ~Directive(line)))

(* No word runs into the next one.                                         *)
Signs == {" ", "\n", "(", ")", "{", "}", "<", ">", ",", ";", ":", "::", "&", "*", "=", "|", "!",
          "\"", "\\", "##", "/", "/**"}
Fronts == {"get_", "set_", "p_", "_", "__"}
Ends == {"__initialized", "_prototype"}
Apart(s) ==
    \A i \in 1 .. Len(s) - 1 :
        ~(s[i] \notin Signs \cup Fronts /\ s[i + 1] \notin Signs \cup Ends)

(* The words and signs a node stands for.                                  *)
RECURSIVE Meant(_)
MeantBy(nodes, sign) == StringVectorCombine([k \in DOMAIN nodes |-> Meant(nodes[k])], sign)
Valued(node) ==
    Each(node.children,
         LAMBDA c : (IF c.is = "literal" THEN <<"=">> ELSE <<>>) \o Meant(c))
Meant(node) ==
    CASE node.is = "modifier" -> <<node.word>>
      [] node.is = "identifier" -> Tokens(node.name)
      [] node.is \in {"literal", "snippet"} -> Tokens(node.content)
      [] node.is = "access" -> <<node.type, ":">>
      [] node.is \in {"parameters", "arguments"} ->
             <<"(">> \o MeantBy(node.children, <<",">>) \o <<")">>
      [] node.is = "template_arguments" -> <<"<">> \o MeantBy(node.children, <<",">>) \o <<">">>
      [] node.is = "parameter" -> Valued(node)
      [] node.is = "field" -> Valued(node) \o <<";">>
      [] node.is = "body" -> <<"{">> \o MeantBy(node.children, <<>>) \o <<"}">>
      [] node.is = "class" -> <<node.specifier>> \o node.name
             \o (IF node.bases = <<>> THEN <<>> ELSE <<":", "public">> \o node.bases[1])
             \o Meant(node.body) \o <<";">>
      [] node.is = "namespace" -> <<"namespace">> \o node.name \o Meant(node.body)
      [] node.is = "list" -> MeantBy(node.children, Tokens(node.delimiter))
      [] node.is = "enclosing" ->
             IF node.before[1] = "/**" THEN <<>>
             ELSE node.before \o MeantBy(node.children, <<>>) \o node.after
      [] OTHER -> MeantBy(node.children, <<>>)

(* A text is compiled as it was built: each directive is a line of its own *)
(* with all that belongs to it, and nothing else is in one.                *)
CompiledAs(text, nodes) ==
    LET meant == SelectSeq([k \in DOMAIN nodes |-> Meant(nodes[k])], LAMBDA line : line # <<>>)
    IN  /\ Directives(text) = SelectSeq(meant, Directive)
        /\ Code(text) = Joined(SelectSeq(meant, LAMBDA line : ~Directive(line)))
        /\ Apart(text)

---------------------------------------------------------------------------
(* Properties.                                                             *)

(* The generated files say what the generators built: no delimiter that is *)
(* left out glues two words together, a macro ends where its body ends     *)
(* however deep its lines are nested, and a comment closes where it should *)
(* (ListNode, IndentNode, ReplaceNode, OutputTransformator).               *)
PrintedAsBuilt ==
    /\ table # <<>> => CompiledAs(macros, Generate(table).children)
    /\ phase = "done" =>
           /\ CompiledAs(header, HeaderStart.children \o <<GeneratedMacro(read, derives), GlobalMacro>>)
           /\ CompiledAs(source, SourceStart.children \o GeneratedSources(read).children)

(* The types whose spelling the reader understands: no reference to or     *)
(* pointer to a template, no const pointer, no temporary.                  *)
RECURSIVE Understood(_)
Understood(type) ==
    /\ type.arguments = <<>> \/ type.modifiers = <<>>
    /\ "const" \notin Range(type.modifiers)
    /\ \A k \in DOMAIN type.arguments : Understood(type.arguments[k])

(* The tree a written type stands for.                                     *)
RECURSIVE TreeOf(_)
TreeOf(type) ==
    Tree("type",
        (IF type.const THEN <<Const>> ELSE <<>>) \o <<Identifier(type.name)>>
        \o [k \in DOMAIN type.modifiers |-> Modifier(type.modifiers[k])]
        \o (IF type.arguments = <<>> THEN <<>>
            ELSE <<Tree("template_arguments",
                        [k \in DOMAIN type.arguments |-> TreeOf(type.arguments[k])])>>))
Bare(type) == [type EXCEPT !.const = FALSE, !.modifiers = <<>>]

TypesOf(member) ==
    CASE member.kind = "property" -> <<member.type>>
      [] member.kind = "virtual" ->
             <<member.type>> \o [k \in DOMAIN member.parameters |-> member.parameters[k].type]
      [] OTHER -> <<>>

(* The tree of a type has all that was written, the names the generators   *)
(* look types up by leave out what they say they do, and what is printed   *)
(* of a type is read as the same type again                                *)
(* (get_type_from_spelling, Type::type_name).                              *)
ReadAs(type, tree) ==
    /\ Understood(type) =>
           /\ tree = TreeOf(type)
           /\ TypeNameUnmodified(tree) = TypeName(TreeOf(Bare(type)))
           /\ TypeNameUntemplated(tree) = type.name
           /\ TemplateArgumentCount(tree) = Len(type.arguments)
    /\ GetTypeFromSpelling(TypeName(tree)) = tree
TypesReadBack ==
    \A m \in DOMAIN members :
        \A k \in DOMAIN TypesOf(members[m]) :
            ReadAs(TypesOf(members[m])[k], TypesOf(read[m])[k])

(* The string utilities agree on every text: splitting and replacing lose  *)
(* nothing, trimming, wrapping and indenting change blanks only, columns   *)
(* stay straight, names are shown word by word (string_utilities.cpp).     *)
StringsAgree ==
    phase = "start" =>
        \A s \in Texts :
            /\ \A d \in {Newline, Blank, Underscore} : SplitsAgree(s, d)
            /\ BlanksAgree(s) /\ NamesShown(s)
            /\ \A from \in 1 .. 2, to \in 2 .. 3 : ExcerptsAgree(s, from, to)
            /\ \A n \in 1 .. 3 : ColumnsAgree(s, n)
            /\ \A t \in Affixes : AffixesAgree(s, t)
=============================================================================
