------------------------- MODULE AttributeArguments -------------------------
(***************************************************************************)
(* The arguments of an attribute, from what the user writes between the    *)
(* brackets of GODOT_CLASS(...), GODOT_PROPERTY(...) and the others to     *)
(* what the generators take from them: IAttributeArgumentParser splits the *)
(* text, GodotAttributeArgumentParser finds the parameter type of each     *)
(* argument, generate_bindings adds the generators' defaults, and the      *)
(* generator of the attribute reads the result.                            *)
(*                                                                         *)
(* A text is a sequence of tokens: a name, a digit or a character of a     *)
(* literal, and "(", ")", ",", "|", the quote, the backslash and " ".      *)
(* Headers are processed one after the other, and each has one attribute   *)
(* that is followed here.  The names of Godot that the generators rely on  *)
(* are assumptions: the program checks them against the type database      *)
(* before it uses them.                                                    *)
(***************************************************************************)
EXTENDS Integers, Sequences, SequencesExt, FiniteSets, FiniteSetsExt

CONSTANTS
    Parts,          \* [macro -> what the user may write for it]
    Commas,         \* ways to write a comma: with and without blanks
    Numbers,        \* [text of an integer literal -> its value in C++]
    Functions,      \* the functions of the class: texts of names
    Fields,         \* access of the field below a GODOT_PROPERTY, or "none"
    Types,          \* [type of the property -> bound: arguments and flags]
    Lacks           \* [names the engine's api may lack -> bound: arguments and flags]

(* What the user writes: a value, with or without brackets, or a literal.  *)
Value(name) == [name |-> name, called |-> FALSE, inner |-> <<>>]
Call(name, inner) == [name |-> name, called |-> TRUE, inner |-> inner]
StringOf(text) == <<"\"">> \o text \o <<"\"">>
Quoted(text) == [name |-> "", called |-> FALSE, inner |-> <<StringOf(text)>>]

---------------------------------------------------------------------------
(* AssumedGodotTypes and AssumedParameterValues: what the generators take  *)
(* for granted, and what of it is validated when they start.               *)

AssumedTypes ==
    {"ClassDB", "Variant", "Object", "RefCounted", "Resource", "Node", "Ref", "Array",
     "TypedArray", "Dictionary", "TypedDictionary", "StringName", "Callable", "List",
     "PropertyInfo", "MultiplayerAPI", "Engine", "MultiplayerPeer", "ModuleInitializationLevel",
     "PropertyHint", "PropertyUsageFlags", "ADD_PROPERTY", "ADD_GROUP", "ADD_SUBGROUP",
     "Variant::Type", "Variant::INT", "Variant::FLOAT", "Variant::BOOL", "GDCLASS",
     "GDREGISTER_CLASS", "GDREGISTER_VIRTUAL_CLASS", "GDREGISTER_ABSTRACT_CLASS",
     "GDREGISTER_INTERNAL_CLASS", "GDREGISTER_RUNTIME_CLASS", "GDVIRTUAL_CALL", "GDVIRTUAL_BIND",
     "BIND_ENUM_CONSTANT", "BIND_BITFIELD_FLAG", "VARIANT_ENUM_CAST", "VARIANT_BITFIELD_CAST",
     "MultiplayerPeer::TransferMode", "MultiplayerAPI::RPCMode"}
ClassTypes == {"RegisterCustom", "GodotClass", "VirtualClass", "AbstractClass", "InternalClass",
               "RuntimeClass"}
Levels == {"LevelCore", "LevelServers", "LevelScene", "LevelEditor", "LevelMax"}
VariantTypes == {"VariantType" \o v : v \in
    {"Nil", "Bool", "Int", "Float", "String", "Vector2", "Vector2i", "Rect2", "Rect2i", "Vector3",
     "Vector3i", "Transform2d", "Vector4", "Vector4i", "Plane", "Quaternion", "Aabb", "Basis",
     "Transform3d", "Projection", "Color", "StringName", "NodePath", "Rid", "Object", "Callable",
     "Signal", "Dictionary", "Array", "PackedByteArray", "PackedInt32Array", "PackedInt64Array",
     "PackedFloat32Array", "PackedFloat64Array", "PackedStringArray", "PackedVector2Array",
     "PackedVector3Array", "PackedColorArray", "PackedVector4Array", "VariantMax"}}
Hints == {"Hint" \o h : h \in
    {"None", "Range", "Enum", "EnumSuggestion", "ExpEasing", "Link", "Flags", "Layers2dRender",
     "Layers2dPhysics", "Layers2dNavigation", "Layers3dRender", "Layers3dPhysics",
     "Layers3dNavigation", "LayersAvoidance", "File", "Dir", "GlobalFile", "GlobalDir",
     "ResourceType", "MultilineText", "Expression", "PlaceholderText", "ColorNoAlpha", "ObjectId",
     "TypeString", "NodePathToEditedNode", "ObjectTooBig", "NodePathValidTypes", "SaveFile",
     "GlobalSaveFile", "IntIsObjectid", "IntIsPointer", "ArrayType", "DictionaryType", "LocaleId",
     "LocalizableString", "NodeType", "HideQuaternionEdit", "Password", "ToolButton", "Oneshot",
     "Max"}}
Usages == {"Usage" \o u : u \in
    {"None", "Storage", "Editor", "Internal", "Checkable", "Checked", "Group", "Category",
     "Subgroup", "ClassIsBitfield", "NoInstanceState", "RestartIfChanged", "ScriptVariable",
     "StoreIfNull", "UpdateAllIfModified", "ScriptDefaultValue", "ClassIsEnum", "NilIsVariant",
     "Array", "AlwaysDuplicate", "NeverDuplicate", "HighEndGfx", "NodePathFromSceneRoot",
     "ResourceNotPersistent", "KeyingIncrements", "DeferredSetResource",
     "EditorInstantiateObject", "EditorBasicSetting", "ReadOnly", "Secret", "Default",
     "NoEditor"}}
Virtuals == {"NoVirtual", "ScriptVirtual", "ScriptVirtualRequired"}
RpcModes == {"Disabled", "AnyPeer", "Authority"}
RpcSyncs == {"CallRemote", "CallLocal"}
TransferModes == {"Unreliable", "UnreliableOrdered", "Reliable"}
AssumedValues ==
    UNION {ClassTypes, Levels, VariantTypes, Hints, Usages, Virtuals, RpcModes, RpcSyncs,
           TransferModes, {"Channel"}}

(* validate_assumptions: not all of them.                                  *)
CheckedTypes == AssumedTypes \ {"Variant::INT", "Variant::FLOAT", "Variant::BOOL"}
CheckedHints == {"HintNone", "HintEnum", "HintArrayType", "HintDictionaryType",
                 "HintResourceType", "HintNodeType"}
CheckedUsages == {"UsageNone", "UsageStorage", "UsageEditor", "UsageGroup", "UsageCategory",
                  "UsageSubgroup", "UsageDefault", "UsageNoEditor"}
CheckedValues ==
    (AssumedValues \ (Hints \cup Usages \cup {"LevelMax", "VariantTypeVariantMax"}))
        \cup CheckedHints \cup CheckedUsages

---------------------------------------------------------------------------
VARIABLES
    phase,          \* "start", "assumed", "write", "parse", "merge", "read", "done", ...
    missing,        \* what the api lacks
    validated,      \* which assumptions were: "none", "types", "values"
    api_modified,   \* does generate_bindings write macros.h in this process?
    listed,         \* the lazy types the program has asked for
    macro,          \* the attribute
    field,          \* the field below it
    property_type,  \* the type of the property
    written,        \* its arguments as written: sequences of parts
    comma,          \* how commas are written
    todo,           \* texts still to be parsed
    arguments,      \* the tree: type, name, inner literals
    read            \* what the generator took from it

api == <<missing, validated, api_modified>>
header == <<macro, field, property_type, comma>>
vars == <<phase, api, listed, header, written, todo, arguments, read>>
Nothing == [of |-> "nothing"]

---------------------------------------------------------------------------
(* The type of a property: what it is, the types it takes, whether the     *)
(* field is a pointer and whether it has a value.                          *)
PropertyType(of, inner) == [of |-> of, inner |-> inner, pointer |-> FALSE, initialized |-> TRUE]
IntType == PropertyType("int", <<>>)
IsObject(t) == t.of \in {"Object", "Node", "RefCounted"}
IsRefOfRefCounted(t) == t.of = "Ref" /\ t.inner[1].of = "RefCounted"
IsEnum(t) == t.of \in {"enum", "flags"}       \* GODOT_ENUM() and GODOT_ENUM(EnumFlags)
IsCollection(t) == t.of \in {"Array", "Dictionary", "TypedArray", "TypedDictionary"}
VariantTypeOf == [int |-> "VariantTypeInt", String |-> "VariantTypeString",
                  Array |-> "VariantTypeArray", Dictionary |-> "VariantTypeDictionary"]

(* check_for_property_type_errors and check_for_field_property_errors.     *)
TypeErrors(t) ==
    \/ t.of = "Ref" /\ ~IsRefOfRefCounted(t)
    \/ t.of = "RefCounted"
    \/ IsObject(t) /\ ~t.pointer
FieldErrors(t) ==
    \/ TypeErrors(t)
    \/ (IsObject(t) \/ t.of = "int" \/ IsEnum(t)) /\ ~t.initialized

---------------------------------------------------------------------------
(* The parameter types: value names (those that the api has), the          *)
(* arguments these take, whether the names are only *)
(* known once the program has asked for the list (other types that look up *)
(* names list them first), and whether values are combined with "|".       *)

ParameterType(id, names, takes) ==
    [id |-> id, names |-> names, takes |-> takes, lazy |-> FALSE, flags |-> FALSE]
ValueNamed(t, name) == name \in t.names /\ name \notin missing
Required == [kind |-> "string", optional |-> FALSE]
Optional == [kind |-> "string", optional |-> TRUE]

StringLiteral == ParameterType("StringLiteral", {}, <<>>)
GodotClassType ==
    ParameterType("GodotClassType", ClassTypes, <<>>)
GodotModuleInitializationLevel ==
    ParameterType("GodotModuleInitializationLevel", Levels, <<>>)
EnumGeneratorOptions ==
    ParameterType("EnumGeneratorOptions", {"EnumDefault", "EnumFlags"}, <<>>)
GodotCustomPropertyGetSet ==
    ParameterType("GodotCustomPropertyGetSet", {"AutoGetSet", "GetSet"}, <<Required, Required>>)
GodotVariantType ==
    ParameterType("GodotVariantType", VariantTypes, <<>>)
GodotPropertyHint ==
    ParameterType("GodotPropertyHint", Hints, <<Optional>>)
GodotPropertyUsageFlags ==
    [ParameterType("GodotPropertyUsageFlags", Usages, <<>>)
        EXCEPT !.flags = TRUE]
PropertySetability == ParameterType("PropertySetability", {"SetAnywhere", "Readonly"}, <<>>)
PropertyCollectionDuplication ==
    ParameterType("PropertyCollectionDuplication",
                  {"GetOriginal", "GetDuplicated", "GetDuplicatedDeep"}, <<>>)
PropertyGetAccessSpecifier ==
    ParameterType("PropertyGetAccessSpecifier", {"PrivateGet", "ProtectedGet", "PublicGet"}, <<>>)
PropertySetAccessSpecifier ==
    ParameterType("PropertySetAccessSpecifier", {"PrivateSet", "ProtectedSet", "PublicSet"}, <<>>)
PropertyGeneratorOptions ==
    ParameterType("PropertyGeneratorOptions",
                  {"Default", "EmitChanged", "EmitChangedValue"}, <<Optional>>)
GodotVirtual == ParameterType("GodotVirtual", Virtuals, <<>>)
GodotRpcMode ==
    [ParameterType("GodotRpcMode", RpcModes, <<>>) EXCEPT !.lazy = TRUE]
GodotRpcSync == ParameterType("GodotRpcSync", RpcSyncs, <<>>)
GodotRpcTransferMode ==
    [ParameterType("GodotRpcTransferMode", TransferModes, <<>>) EXCEPT !.lazy = TRUE]
GodotRpcChannel ==
    ParameterType("GodotRpcChannel", {"Channel"}, <<[kind |-> "int", optional |-> FALSE]>>)

(* AttributeDB: the types a macro takes, in the order of registration.     *)
Parameters(m) ==
    CASE m = "GODOT_CLASS" -> <<GodotClassType, GodotModuleInitializationLevel>>
      [] m = "GODOT_ENUM" -> <<EnumGeneratorOptions>>
      [] m = "GODOT_PROPERTY" ->
            <<StringLiteral, GodotCustomPropertyGetSet, GodotVariantType, GodotPropertyHint,
              GodotPropertyUsageFlags, PropertySetability, PropertyCollectionDuplication,
              PropertyGetAccessSpecifier, PropertySetAccessSpecifier, PropertyGeneratorOptions>>
      [] m = "GODOT_FUNCTION" ->
            <<StringLiteral, GodotVirtual, GodotRpcMode, GodotRpcSync, GodotRpcTransferMode,
              GodotRpcChannel>>
      [] OTHER -> <<StringLiteral>>     \* GODOT_SIGNAL, _CATEGORY, _GROUP, _SUBGROUP
Macros == DOMAIN Parts
LazyTypes == {t.id : t \in {p \in UNION {ToSet(Parameters(m)) : m \in Macros} : p.lazy}}

---------------------------------------------------------------------------
Init ==
    /\ phase = "start" /\ missing \in DOMAIN Lacks /\ validated = "none" /\ api_modified \in BOOLEAN
    /\ listed = {} /\ macro \in Macros /\ field \in Fields /\ property_type \in DOMAIN Types
    /\ macro # "GODOT_PROPERTY" => field = "none" /\ property_type = IntType
    /\ comma \in Commas /\ written = <<>> /\ todo = <<>> /\ arguments = <<>> /\ read = Nothing

(* execute and generate_bindings: the types first, then the values.        *)
ValidateAssumptions ==
    /\ phase = "start"
    /\ validated' = IF CheckedTypes \cap missing = {} THEN "values" ELSE "types"
    /\ phase' = IF (CheckedTypes \cup CheckedValues) \cap missing = {} THEN "assumed"
                ELSE "failed"
    /\ UNCHANGED <<missing, api_modified, listed, header, written, todo, arguments, read>>

(* Assumption::state, STATE_VALID; only a valid one gives its value.       *)
Valid(value) == validated = "values" /\ value \in CheckedValues /\ value \notin missing

(* execute_extension: macros.h, with the values of every type, is written  *)
(* when the api of the extension has changed.                              *)
GenerateMacroInclude ==
    /\ phase = "assumed"
    /\ phase' = "write"
    /\ listed' = IF api_modified THEN LazyTypes ELSE listed
    /\ UNCHANGED <<api, header, written, todo, arguments, read>>

MayWriteMore ==
    phase = "write" /\ Len(FlattenSeq(written)) < Min({Types[property_type], Lacks[missing]})

WriteArgument(part) ==
    /\ MayWriteMore
    /\ written' = Append(written, <<part>>)
    /\ UNCHANGED <<phase, api, listed, header, todo, arguments, read>>

WriteFlag(part) ==
    /\ MayWriteMore /\ written # <<>>
    /\ written' = [written EXCEPT ![Len(written)] = Append(@, part)]
    /\ UNCHANGED <<phase, api, listed, header, todo, arguments, read>>

Separated(texts, by) ==
    FlattenSeq([i \in DOMAIN texts |-> IF i = 1 THEN texts[i] ELSE by \o texts[i]])
TextOf(part) ==
    IF part.name = "" THEN part.inner[1]
    ELSE <<part.name>> \o (IF part.called THEN <<"(">> \o Separated(part.inner, comma) \o <<")">>
                           ELSE <<>>)
Content ==
    Separated([i \in DOMAIN written |->
                  Separated([k \in DOMAIN written[i] |-> TextOf(written[i][k])],
                            <<" ", "|", " ">>)], comma)

---------------------------------------------------------------------------
(* IAttributeArgumentParser.                                               *)

Trim(text) ==
    LET solid == {i \in DOMAIN text : text[i] # " "}
    IN  IF solid = {} THEN <<>> ELSE SubSeq(text, Min(solid), Max(solid))

(* Mutant: commas are looked for within strings and brackets too.          *)
SplitArgumentsAtCommas(text) ==
    LET Step(s, c) == IF c = "," THEN Append(s, <<>>)
                      ELSE [s EXCEPT ![Len(s)] = Append(@, c)]
    IN  IF Trim(text) = <<>> THEN <<>> ELSE FoldLeft(Step, << <<>> >>, text)

(* Brackets are counted inside of strings as well, and one too many means  *)
(* no arguments at all.  Only the last argument is trimmed.                *)
SplitArguments(text) ==
    LET Step(s, c) ==
            IF s.escaped THEN [s EXCEPT !.current = Append(@, c), !.escaped = FALSE]
            ELSE IF c = "," /\ ~s.quoted /\ s.open = 0
                 THEN [s EXCEPT !.parts = Append(@, s.current), !.current = <<>>]
            ELSE [s EXCEPT !.current = Append(@, c),
                           !.open = CASE c = "(" -> @ + 1 [] c = ")" -> @ - 1 [] OTHER -> @,
                           !.failed = @ \/ (c = ")" /\ s.open = 0),
                           !.quoted = IF c = "\"" THEN ~@ ELSE @,
                           !.escaped = (c = "\\")]
        end == FoldLeft(Step, [parts |-> <<>>, current |-> <<>>, open |-> 0, failed |-> FALSE,
                               quoted |-> FALSE, escaped |-> FALSE], text)
    IN  IF Trim(text) = <<>> \/ end.failed THEN <<>> ELSE Append(end.parts, Trim(end.current))

(* What is before the first "(" and between it and the first ")".          *)
SplitOuterInner(text) ==
    LET Step(s, c) ==
            IF s.closed THEN s
            ELSE IF ~s.escaped /\ c = "(" THEN [s EXCEPT !.open = TRUE]
            ELSE IF ~s.escaped /\ c = ")" THEN [s EXCEPT !.closed = TRUE]
            ELSE IF ~s.escaped /\ c = "\\" THEN [s EXCEPT !.escaped = TRUE, !.inner = Append(@, c)]
            ELSE IF s.open THEN [s EXCEPT !.inner = Append(@, c), !.escaped = FALSE]
            ELSE [s EXCEPT !.outer = Append(@, c)]
        end == FoldLeft(Step, [outer |-> <<>>, inner |-> <<>>, open |-> FALSE, closed |-> FALSE,
                               escaped |-> FALSE], text)
    IN  [outer |-> Trim(end.outer), inner |-> Trim(end.inner)]

(* At every "|".                                                           *)
SplitFlags(text) ==
    LET Step(s, c) == IF c = "|" THEN Append(s, <<>>) ELSE [s EXCEPT ![Len(s)] = Append(@, c)]
        split == FoldLeft(Step, << <<>> >>, text)
    IN  [i \in DOMAIN split |-> Trim(split[i])]

EnclosedByQuotes(text) == text # <<>> /\ Head(text) = "\"" /\ Last(text) = "\""

---------------------------------------------------------------------------
(* GodotAttributeArgumentParser.                                           *)

Argument(type, name, inner) == [type |-> type, name |-> name, inner |-> inner]

Parse ==
    /\ phase = "write"
    /\ LET split == SplitArguments(Content)
           flags == FlattenSeq([i \in DOMAIN split |-> SplitFlags(split[i])])
       IN  IF Len(split) > Len(Parameters(macro))
           THEN phase' = "refused" /\ UNCHANGED todo
           ELSE phase' = "parse" /\ todo' = flags
    /\ UNCHANGED <<api, listed, header, written, arguments, read>>

(* The types are tried in turn: the first whose names have the argument    *)
(* ends it, unless there are inner arguments.                              *)
TryTypes(text) ==
    LET split == SplitOuterInner(text)
        inner == SplitArguments(split.inner)
        Fits(t) == /\ Len(inner) <= Len(t.takes)
                   /\ Len(t.takes) - Len(inner)
                        <= Cardinality({i \in DOMAIN t.takes : t.takes[i].optional})
        Try(s, t) ==
            IF s.over THEN s
            ELSE IF t.id = "StringLiteral" /\ EnclosedByQuotes(text)
                 THEN [s EXCEPT !.found = Append(@, Argument(t.id, "", <<text>>)), !.over = TRUE]
            ELSE IF ~(Len(split.outer) = 1 /\ ValueNamed(t, Head(split.outer)))
                 THEN [s EXCEPT !.asked = @ \cup {t.id}]
            ELSE IF split.inner = <<>>
                 THEN [s EXCEPT !.asked = @ \cup {t.id}, !.over = TRUE,
                                !.found = Append(@, Argument(t.id, Head(split.outer), <<>>))]
            ELSE IF ~Fits(t) THEN [s EXCEPT !.asked = @ \cup {t.id}, !.over = TRUE, !.failed = TRUE]
            ELSE [s EXCEPT !.asked = @ \cup {t.id},
                           !.found = Append(@, Argument(t.id, Head(split.outer), inner))]
    IN  FoldLeft(Try, [found |-> <<>>, asked |-> {}, over |-> FALSE, failed |-> FALSE],
                 Parameters(macro))

ParseArgument ==
    /\ phase = "parse" /\ todo # <<>>
    /\ LET tried == TryTypes(Head(todo))
           refused == tried.failed \/ tried.found = <<>>    \* an empty one is found nowhere
       IN  /\ phase' = IF refused THEN "refused" ELSE phase
           /\ listed' = listed \cup (tried.asked \cap LazyTypes)
           /\ arguments' = arguments \o tried.found
    /\ todo' = Tail(todo)
    /\ UNCHANGED <<api, header, written, read>>

Parsed ==
    /\ phase = "parse" /\ todo = <<>>
    /\ phase' = "merge"
    /\ UNCHANGED <<api, listed, header, written, todo, arguments, read>>

---------------------------------------------------------------------------
(* The defaults of the generators.                                         *)

OfType(type, args) == SelectSeq(args, LAMBDA a : a.type = type.id)
FirstOf(type, args) == Head(OfType(type, args))
Has(type, args) == OfType(type, args) # <<>>
Name(type, args) == FirstOf(type, args).name

(* Literal::unwrap_string_literal, and the name given by the user or else. *)
IsString(literal) == Len(literal) >= 2 /\ EnclosedByQuotes(literal)
Unwrap(literal) == SubSeq(literal, 2, Len(literal) - 1)
NameOr(args, otherwise) ==
    LET literal == FirstOf(StringLiteral, args).inner[1]
    IN  IF IsString(literal) THEN Unwrap(literal) ELSE otherwise

(* GodotPropertyAttribute.                                                 *)
UsesField(args) ==
    Has(GodotCustomPropertyGetSet, args) => Name(GodotCustomPropertyGetSet, args) = "AutoGetSet"
TargetField(args) == field # "none" /\ UsesField(args)
CustomBind(args) ==
    /\ Has(StringLiteral, args) /\ Has(GodotCustomPropertyGetSet, args)
    /\ LET literals == FirstOf(GodotCustomPropertyGetSet, args).inner
       IN  /\ Len(literals) = 2 /\ IsString(literals[1]) /\ IsString(literals[2])
           /\ IsString(FirstOf(StringLiteral, args).inner[1])
BoundFunctions(args) ==
    LET literals == FirstOf(GodotCustomPropertyGetSet, args).inner
    IN  [i \in 1 .. 2 |-> Unwrap(literals[i])]

Default(type, name) == Argument(type.id, name, <<>>)
NoName == Argument("StringLiteral", "", << <<>> >>)

DefaultsOfClass == <<Default(GodotModuleInitializationLevel, "LevelScene"),
                     Default(GodotClassType, "GodotClass")>>
DefaultsOfEnum == <<Default(EnumGeneratorOptions, "EnumDefault")>>
DefaultsOfHint == <<Argument("StringLiteral", "", <<StringOf(<<>>)>>)>>
DefaultsOfSignal == <<NoName>>
DefaultsOfFunction ==
    <<NoName, Default(GodotVirtual, "NoVirtual"), Default(GodotRpcMode, "Disabled"),
      Default(GodotRpcSync, "CallRemote"), Default(GodotRpcTransferMode, "Reliable"),
      Argument("GodotRpcChannel", "Channel", << <<"0">> >>)>>

(* get_defaults_for_type.  The attributes in the type database were parsed *)
(* without their arguments (generate_type_db skips them), so no enum is    *)
(* found to be one of flags.                                               *)
AttributeInTypeDB(enum) ==
    [arguments |-> <<>>, unparsed |-> IF enum.of = "flags" THEN <<"EnumFlags">> ELSE <<>>]
IsFlags(enum) ==
    LET args == AttributeInTypeDB(enum).arguments
    IN  Has(EnumGeneratorOptions, args) /\ Name(EnumGeneratorOptions, args) = "EnumFlags"
Info(variant, hint, text) == [variant |-> variant, hint |-> hint, text |-> text]
NoInfo == Info("", "", <<>>)
RECURSIVE DefaultsOfType(_)
DefaultsOfType(t) ==
    LET inner == [i \in DOMAIN t.inner |-> DefaultsOfType(t.inner[i])]
        Typed(variant, hint) ==
            IF NoInfo \in ToSet(inner) THEN NoInfo
            ELSE Info(variant, hint,
                      FlattenSeq([i \in DOMAIN inner |->
                                     <<inner[i].variant, inner[i].hint>> \o inner[i].text]))
    IN  CASE IsRefOfRefCounted(t) ->
                Info("VariantTypeObject", "HintResourceType", StringOf(<<t.inner[1].of>>))
          [] t.of = "Node" -> Info("VariantTypeObject", "HintNodeType", StringOf(<<t.of>>))
          [] IsObject(t) -> Info("VariantTypeObject", "HintResourceType", StringOf(<<t.of>>))
          [] IsEnum(t) -> Info("VariantTypeInt", IF IsFlags(t) THEN "HintFlags" ELSE "HintEnum",
                               StringOf(<<"values">>))
          [] t.of = "TypedArray" -> Typed("VariantTypeArray", "HintArrayType")
          [] t.of = "TypedDictionary" -> Typed("VariantTypeDictionary", "HintDictionaryType")
          [] t.of \in DOMAIN VariantTypeOf ->
                Info(VariantTypeOf[t.of], "HintNone", StringOf(<<>>))
          [] OTHER -> NoInfo

DefaultsOfProperty(args) ==
    LET get == IF TargetField(args) THEN "PublicGet" ELSE "PrivateGet"
        set == CASE ~TargetField(args) -> "PrivateSet"
                 [] field = "private" -> "PrivateSet"
                 [] field = "protected" -> "ProtectedSet"
                 [] OTHER -> "PublicSet"
        info == DefaultsOfType(property_type)
    IN  <<Default(GodotCustomPropertyGetSet, "AutoGetSet"), NoName,
          Default(GodotVariantType, info.variant),
          Argument("GodotPropertyHint", info.hint, <<info.text>>),
          Default(GodotPropertyUsageFlags, "UsageDefault"),
          Default(PropertyGetAccessSpecifier, get), Default(PropertySetAccessSpecifier, set),
          Default(PropertySetability, "SetAnywhere"),
          Default(PropertyCollectionDuplication, "GetOriginal"),
          Default(PropertyGeneratorOptions, "Default")>>

Defaults(args) ==
    CASE macro = "GODOT_CLASS" -> DefaultsOfClass
      [] macro = "GODOT_ENUM" -> DefaultsOfEnum
      [] macro = "GODOT_PROPERTY" -> DefaultsOfProperty(args)
      [] macro = "GODOT_FUNCTION" -> DefaultsOfFunction
      [] macro = "GODOT_SIGNAL" -> DefaultsOfSignal
      [] OTHER -> DefaultsOfHint

(* A property without a field or a getter has no defaults, nor has one of  *)
(* an unknown type.                                                        *)
DefaultsFail ==
    /\ macro = "GODOT_PROPERTY"
    /\ \/ /\ ~TargetField(arguments)
          /\ CustomBind(arguments) => BoundFunctions(arguments)[1] \notin Functions
       \/ DefaultsOfType(property_type) = NoInfo

DefaultsPanic ==
    LET Names(d) == {d.name} \cup UNION {ToSet(d.inner[i]) : i \in DOMAIN d.inner}
    IN  \E d \in ToSet(Defaults(arguments)) :
            \E value \in Names(d) \cap AssumedValues : ~Valid(value)

(* Mutant: all defaults are added.                                         *)
MergedAll(args) == args \o Defaults(args)

(* merge_default_attribute_arguments.                                      *)
Merged(args) ==
    args \o SelectSeq(Defaults(args), LAMBDA d : \A i \in DOMAIN args : args[i].type # d.type)

MergeDefaults ==
    /\ phase = "merge"
    /\ LET fails == DefaultsFail
           panics == ~fails /\ DefaultsPanic
       IN  /\ phase' = CASE fails -> "refused" [] panics -> "panic" [] OTHER -> "read"
           /\ arguments' = IF fails \/ panics THEN arguments ELSE Merged(arguments)
    /\ UNCHANGED <<api, listed, header, written, todo, read>>

---------------------------------------------------------------------------
(* What the generators read.                                               *)

(* string_to_int: hexadecimal digits are capital letters.                  *)
Digits == <<"0", "1", "2", "3", "4", "5", "6", "7", "8", "9", "A", "B", "C", "D", "E", "F">>
NotAnInt == -1
NumberSuffixes == {"u", "U", "l", "L"}
StringToInt(text) ==
    LET Base == CASE Len(text) > 1 /\ SubSeq(text, 1, 2) \in {<<"0", "x">>, <<"0", "X">>} -> 16
                  [] Len(text) > 1 /\ SubSeq(text, 1, 2) \in {<<"0", "b">>, <<"0", "B">>} -> 2
                  [] Len(text) > 0 /\ Head(text) = "0" -> 8
                  [] OTHER -> 10
        digits == SelectSeq(SubSeq(text, IF Base \in {2, 16} THEN 3 ELSE 1, Len(text)),
                            LAMBDA c : c \notin NumberSuffixes)
        known == {i \in DOMAIN digits : digits[i] \in ToSet(SubSeq(Digits, 1, Base))}
    IN  IF text = <<>> \/ known # DOMAIN digits THEN NotAnInt
        ELSE FoldLeft(LAMBDA n, c : n * Base + IndexFirstSubSeq(<<c>>, Digits) - 1, 0, digits)

Literal(args, type, otherwise) ==
    LET inner == FirstOf(type, args).inner IN IF inner = <<>> THEN otherwise ELSE inner[1]

Channel(args) == StringToInt(Literal(args, GodotRpcChannel, <<>>))

ReadClass(args) ==
    [of |-> macro, level |-> Name(GodotModuleInitializationLevel, args),
     type |-> Name(GodotClassType, args)]
ReadEnum(args) == [of |-> macro, options |-> Name(EnumGeneratorOptions, args)]
ReadHint(args) == [of |-> macro, name |-> NameOr(args, <<>>)]
ReadSignal(args) == [of |-> macro, name |-> NameOr(args, <<"its own">>)]
ReadFunction(args, channel) ==
    [of |-> macro, name |-> NameOr(args, <<"its own">>), virtual |-> Name(GodotVirtual, args),
     rpc |-> IF Name(GodotRpcMode, args) = "Disabled" THEN Nothing
             ELSE [of |-> "rpc", mode |-> Name(GodotRpcMode, args),
                   transfer |-> Name(GodotRpcTransferMode, args),
                   call_local |-> Name(GodotRpcSync, args) = "CallLocal",
                   channel |-> channel]]
ReadProperty(args) ==
    [of |-> macro,
     name |-> NameOr(args, <<"its own">>),
     bind |-> IF TargetField(args) THEN <<>> ELSE BoundFunctions(args),
     variant |-> Name(GodotVariantType, args),
     hint |-> <<Name(GodotPropertyHint, args), Literal(args, GodotPropertyHint, StringOf(<<>>))>>,
     usage |-> [i \in DOMAIN OfType(GodotPropertyUsageFlags, args) |->
                   OfType(GodotPropertyUsageFlags, args)[i].name],
     accessors |->
        IF ~TargetField(args) THEN Nothing
        ELSE [of |-> "accessors", get |-> Name(PropertyGetAccessSpecifier, args),
              set |-> Name(PropertySetAccessSpecifier, args),
              setability |-> Name(PropertySetability, args),
              duplication |-> Name(PropertyCollectionDuplication, args),
              options |-> <<Name(PropertyGeneratorOptions, args),
                            Literal(args, PropertyGeneratorOptions, StringOf(<<>>))>>]]

Outcome(args, channel) ==
    CASE macro = "GODOT_CLASS" -> ReadClass(args)
      [] macro = "GODOT_ENUM" -> ReadEnum(args)
      [] macro = "GODOT_PROPERTY" -> ReadProperty(args)
      [] macro = "GODOT_FUNCTION" -> ReadFunction(args, channel)
      [] macro = "GODOT_SIGNAL" -> ReadSignal(args)
      [] OTHER -> ReadHint(args)

(* A property has a name and a type that fits, only a collection can be    *)
(* duplicated, and both functions of GetSet must be there.                 *)
Refuses(args) ==
    /\ macro = "GODOT_PROPERTY"
    /\ IF NameOr(args, <<"its own">>) = <<>> THEN TRUE
       ELSE IF TargetField(args)
       THEN \/ FieldErrors(property_type)
            \/ Name(PropertyCollectionDuplication, args) # "GetOriginal" /\ ~IsCollection(property_type)
            \/ ~IsString(Literal(args, PropertyGeneratorOptions, StringOf(<<>>)))
       ELSE TypeErrors(property_type) \/ \E f \in ToSet(BoundFunctions(args)) : f \notin Functions

(* GodotRpcModeArgument and GodotRpcTransferModeArgument: the names of     *)
(* Godot are looked up among those listed so far, not listed.              *)
Panics(args) ==
    /\ macro = "GODOT_FUNCTION" /\ Name(GodotRpcMode, args) # "Disabled"
    /\ \/ {"GodotRpcMode", "GodotRpcTransferMode"} \ listed # {}
       \/ Channel(args) = NotAnInt

Generate ==
    /\ phase = "read"
    /\ LET panics == Panics(arguments)
           refuses == Refuses(arguments)
       IN  /\ phase' = CASE panics -> "panic" [] refuses -> "refused" [] OTHER -> "done"
           /\ read' = IF panics \/ refuses THEN read ELSE Outcome(arguments, Channel(arguments))
    /\ UNCHANGED <<api, listed, header, written, todo, arguments>>

(* With an attribute of the same macro: no other macro lists its types.    *)
NextHeader ==
    /\ phase = "done"
    /\ phase' = "write"
    /\ field' \in Fields /\ property_type' \in DOMAIN Types /\ comma' \in Commas
    /\ macro # "GODOT_PROPERTY" => field' = "none" /\ property_type' = IntType
    /\ written' = <<>> /\ arguments' = <<>> /\ read' = Nothing
    /\ UNCHANGED <<api, listed, macro, todo>>

Next ==
    \/ ValidateAssumptions \/ GenerateMacroInclude
    \/ \E part \in Parts[macro] : WriteArgument(part)
    \/ \E part \in Parts[macro] : WriteFlag(part)
    \/ Parse \/ ParseArgument \/ Parsed \/ MergeDefaults \/ Generate \/ NextHeader

Spec == Init /\ [][Next]_vars

---------------------------------------------------------------------------
(* What the compiler makes of macros.h: a type of its own for each         *)
(* parameter type, functions for the values that take arguments, and       *)
(* prototypes that take each type at most once.                            *)
TypesWith(part) ==
    {t \in ToSet(Parameters(macro)) :
        IF part.name = "" THEN t.id = "StringLiteral" ELSE ValueNamed(t, part.name)}
TypeOf(part) == CHOOSE t \in TypesWith(part) : TRUE
WellTyped(part) ==
    /\ TypesWith(part) # {}
    /\ part.name # "" =>
        LET takes == TypeOf(part).takes
        IN  /\ part.called = (takes # <<>>)
            /\ Len(part.inner) <= Len(takes)
            /\ \A i \in DOMAIN takes :
                  IF i > Len(part.inner) THEN takes[i].optional
                  ELSE takes[i].kind = (IF part.inner[i] \in DOMAIN Numbers THEN "int" ELSE "string")
Compiles ==
    /\ \A i \in DOMAIN written : \A k \in DOMAIN written[i] :
          /\ WellTyped(written[i][k])
          /\ k > 1 => TypeOf(written[i][k]) = TypeOf(written[i][1]) /\ TypeOf(written[i][1]).flags
    /\ \A i, j \in DOMAIN written :
          i # j => TypeOf(written[i][1]) # TypeOf(written[j][1])

(* Limits of the splitting: no brackets or "|" in strings, and no blank    *)
(* before a comma between inner arguments.                                 *)
Plain ==
    /\ comma[1] # "," => \A i \in DOMAIN written : \A k \in DOMAIN written[i] :
                            Len(written[i][k].inner) < 2
    /\ \A i \in DOMAIN written : \A k \in DOMAIN written[i] :
          \A n \in DOMAIN written[i][k].inner :
              ToSet(written[i][k].inner[n]) \cap {"(", ")", "|"} = {}

Meant ==
    FlattenSeq([i \in DOMAIN written |->
        [k \in DOMAIN written[i] |->
            LET p == written[i][k] IN Argument(TypeOf(p).id, p.name, p.inner)]])

Unwritten ==
    LET types == {Meant[i].type : i \in DOMAIN Meant}
    IN  SelectSeq(Defaults(Meant), LAMBDA d : d.type \notin types)

(* What compiles is understood: the tree has the arguments that the text   *)
(* has for the compiler, with the types it gives them and in their order,  *)
(* and no header that compiles is refused for the text of its arguments.   *)
ArgumentsAsWritten ==
    phase \in {"merge", "refused"} /\ Compiles /\ Plain =>
        IsPrefix(Meant, arguments) /\ (phase = "merge" => arguments = Meant)

(* What the generator reads is what the user wrote, and for each thing he  *)
(* did not write the default, never both; whatever the api lacks, no       *)
(* default asks for an assumption that was not validated: the program      *)
(* gives up only when macros.h was not written in the same process or for  *)
(* a channel that string_to_int does not know.                             *)
ReadAsWritten ==
    phase \in {"done", "panic"} /\ Compiles /\ Plain =>
        /\ phase = "done" =>
              LET args == Meant \o Unwritten
              IN  read = Outcome(args, Numbers[Literal(args, GodotRpcChannel, <<>>)])
        /\ phase = "panic" => macro = "GODOT_FUNCTION"
        /\ phase = "panic" /\ api_modified => Channel(arguments) = NotAnInt

(* godot_rpc.cpp asserts that the name of Godot is found for the value of  *)
(* every argument that was parsed or added as a default.                   *)
NamesListed == phase # "panic"

(* EnumFlags: "display properties of this type as flags in the inspector", *)
(* so a property of such an enum has the hint for it, unless it was given  *)
(* another one.                                                            *)
FlagsAreShown ==
    phase = "done" /\ macro = "GODOT_PROPERTY" /\ property_type.of = "flags"
        /\ "HintFlags" \notin missing /\ Compiles =>
        Has(GodotPropertyHint, Meant) \/ read.hint[1] = "HintFlags"
=============================================================================
