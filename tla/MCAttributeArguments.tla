------------------------ MODULE MCAttributeArguments ------------------------
(* Values of every parameter type, and literals with what the parser looks  *)
(* for inside of them.                                                      *)
EXTENDS AttributeArguments, TLC

Values(names) == {Value(n) : n \in names}
Escaped == <<"\\", "\"", ",", "\\", "\"">>
MCNumbers == (<<"1">> :> 1) @@ (<<"0", "x", "1", "F">> :> 31)
             @@ (<<"0", "x", "1", "f">> :> 31) @@ (<<"0">> :> 0)
MCFunctions == {<<"get">>, <<"set">>}
MCParts ==
    ("GODOT_CLASS" :> Values({"RegisterCustom", "RuntimeClass", "LevelEditor", "Reliable"}))
    @@ ("GODOT_ENUM" :> Values({"EnumDefault", "EnumFlags"}))
    @@ ("GODOT_SIGNAL" :> {Quoted(<<>>), Quoted(<<"a">>), Value("Readonly"), Value("HintFlags")})
    @@ ("GODOT_CATEGORY" :> {Quoted(<<"a">>), Quoted(Escaped), Quoted(<<"a", ")">>),
                             Quoted(<<"a", "|", "b">>)})
    @@ ("GODOT_FUNCTION" :>
          {Quoted(<<"(">>)}
          \cup Values({"ScriptVirtual", "Authority", "CallLocal", "Unreliable"})
          \cup {Call("Channel", <<n>>) : n \in DOMAIN MCNumbers \ {<<"0">>, <<"1">>}})
    @@ ("GODOT_PROPERTY" :>
          {Quoted(<<"a">>),
           Call("GetSet", <<StringOf(<<"get">>), StringOf(<<"set">>)>>),
           Call("HintRange", <<StringOf(<<"0", ",", "1">>)>>),
           Call("HintRange", <<StringOf(<<"a", ")">>)>>),
           Call("EmitChanged", <<StringOf(Escaped)>>)}
          \cup Values({"UsageStorage", "UsageEditor", "GetDuplicated"}))
(* Types a property may have, some of them refused, and how many arguments  *)
(* may be written for it.                                                   *)
Pointer(t) == [t EXCEPT !.pointer = TRUE]
FlagsType == PropertyType("flags", <<>>)
MCTypes ==
    (IntType :> 3) @@ (FlagsType :> 2)
    @@ [t \in {PropertyType("Ref", <<PropertyType(of, <<>>)>>) : of \in {"Node", "RefCounted"}}
              \cup {Pointer(PropertyType(of, <<>>)) : of \in {"Node", "RefCounted", "Object"}}
              \cup {[PropertyType("enum", <<>>) EXCEPT !.initialized = FALSE],
                     PropertyType("unknown", <<>>), PropertyType("Node", <<>>),
                     PropertyType("TypedArray", <<PropertyType("TypedArray", <<FlagsType>>)>>),
                     PropertyType("TypedDictionary", <<IntType, PropertyType("unknown", <<>>)>>),
                     PropertyType("TypedDictionary", <<FlagsType, PropertyType("String", <<>>)>>)}
        |-> 1]
MCLacks == ({} :> 3) @@ ({"HintRange"} :> 1) @@ ({"HintNodeType"} :> 0) @@ ({"GDVIRTUAL_BIND"} :> 0)
OnlyInt == IntType :> 3
Complete == {} :> 3
MCFields == {"protected", "none"}
MCCommas == {<<",", " ">>, <<" ", ",", " ">>}
OneComma == {<<",", " ">>}

(* GODOT_FUNCTION(Authority) and the like, as in                            *)
(* tests/files/integration_tests/godot_function/rpc.h.                      *)
RpcParts == "GODOT_FUNCTION" :> {Value("Authority"), Value("CallLocal"), Value("Unreliable"),
                                Quoted(<<"a">>), Call("Channel", <<<<"1">>>>)}

(* GODOT_PROPERTY() as in tests/files/integration_tests/enums.h.            *)
FlagsParts == "GODOT_PROPERTY" :> {Quoted(<<"a">>), Value("HintNone"), Value("Readonly")}
=============================================================================
