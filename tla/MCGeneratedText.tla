--------------------------- MODULE MCGeneratedText ---------------------------
(* The generated text of small classes: every way a type is spelled.        *)
EXTENDS GeneratedText

Plain(name) == [const |-> FALSE, name |-> name, arguments |-> <<>>, modifiers |-> <<>>]
Node == Plain(<<"ns::Node">>)
Number == Plain(<<"unsigned", " ", "int">>)
VoidType == Plain(<<"void">>)
RefTo(type) == [Plain(<<"Ref">>) EXCEPT !.arguments = <<type>>]
MapTo(type) == [Plain(<<"Map">>) EXCEPT !.arguments = <<Number, type>>]
With(type, modifiers) == [type EXCEPT !.modifiers = modifiers]
AsConst(type) == [type EXCEPT !.const = TRUE]

MCPropertyTypes == {Number, RefTo(Node), MapTo(RefTo(Node)), With(Node, <<"*">>)}
MCReturnTypes == {VoidType, AsConst(RefTo(Node))}
MCParameterTypes ==
    {Number, AsConst(Node), With(AsConst(Node), <<"&">>), With(Node, <<"*">>),
     With(Node, <<"*", "*">>), With(Node, <<"*", "&">>), With(Node, <<"&", "&">>),
     With(Node, <<"*", "const">>), RefTo(With(Node, <<"*">>)), AsConst(RefTo(Node)),
     With(AsConst(RefTo(Node)), <<"&">>), MapTo(MapTo(AsConst(Node)))}

Argument1(type, optional) == [type |-> type, name |-> <<"x">>, optional |-> optional]
ParameterType(name, builtin, flag, values, documented, arguments) ==
    [name |-> name, builtin |-> builtin, flag |-> flag, documented |-> documented,
     values |-> [k \in 1 .. values |-> <<"value">>], arguments |-> arguments]
Kind == ParameterType(<<"Kind">>, FALSE, FALSE, 6, TRUE, <<>>)
Flags == ParameterType(<<"Flags">>, FALSE, TRUE, 2, FALSE, <<>>)
Hint == ParameterType(<<"Hint">>, FALSE, FALSE, 1, FALSE,
                      <<Argument1("string", FALSE), Argument1("integer", TRUE)>>)
Other == ParameterType(<<"Other">>, FALSE, FALSE, 0, FALSE, <<>>)
StringType == ParameterType(<<"StringName">>, TRUE, FALSE, 0, FALSE, <<>>)
Macro(name, generates, doc, parameters) ==
    [name |-> name, generates |-> generates, doc |-> doc, parameters |-> parameters]
Body == Macro(<<"GODOT_GENERATED_BODY">>, TRUE, <<>>, <<>>)
Doc == <<"text", "\n", "more", "\n">>
MCMacroTables ==
    {<<Body>>, <<Body, Macro(<<"GODOT_PROPERTY">>, FALSE, Doc, <<Flags, StringType, Kind, Hint, Other>>)>>,
     <<Macro(<<"GODOT_FUNCTION">>, FALSE, <<"text">>, <<Kind>>),
       Macro(<<"GODOT_SIGNAL">>, FALSE, Doc, <<Kind, Flags>>)>>}

Characters == {"a", "B", "1", "_", " ", "\n"}
MCTexts == SeqOf(Characters, 4)
MCAffixes == SeqOf({"a", "1"}, 2) \ {<<>>}
=============================================================================
