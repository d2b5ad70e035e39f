--------------------------- MODULE MCHeaderParser ---------------------------
(* Headers a user begins with, to which lines are added anywhere.           *)
EXTENDS TreeSearch

Example(inside) ==
    <<"#include", "GODOT_CLASS", "class : base", "GODOT_GENERATED_BODY">>
    \o inside \o <<"}", "GODOT_GENERATED_GLOBAL">>
MCDrafts == {
    Example(<<>>),
    Example(<<"GODOT_CLASS", "class : base", "GODOT_GENERATED_BODY", "}">>),
    <<"#include", "template class", "enum", "value", "}", "field[n]", "}">>,
    <<"namespace", "unnamed enum", "value", "}", "class", "}", "}", "function(p)">>}
MCLines == {"", "#include", "#define", "// goc off", "// goc on", "class;", "class", "}",
            "enum", "value", "function(p)", "constructor(p)", "field", "field = v", "public:",
            "GODOT_CLASS", "GODOT_GENERATED_BODY", "GODOT_GENERATED_GLOBAL",
            "GODOT_FUNCTION(?)"}
=============================================================================
