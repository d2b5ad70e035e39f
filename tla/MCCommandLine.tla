--------------------------- MODULE MCCommandLine ---------------------------
(***************************************************************************)
(* Command lines in which up to two arguments are given unusual texts.     *)
(***************************************************************************)
EXTENDS CommandLine

CONSTANT MaxUnusual     \* bound: arguments whose text is not the plain one

(* What a build gives: the required arguments of an extension or a module. *)
Usual == {
    [a \in {"project_type", "root_path", "godot_cpp", "extension_api"} |-> Plain],
    [a \in {"project_type", "root_path", "godot_root", "type_db_includes"} |->
        IF a = "project_type" THEN Module ELSE Plain]}

Unusual(a) ==
    IF a \in Flags THEN {Unknown}
    ELSE {Plain, Bare("goc_path")} \cup {Alias(b) : b \in Paths}
Subjects == {S \in SUBSET Named : Cardinality(S) <= MaxUnusual}

MCCommandLines ==
    UNION {{[a \in DOMAIN u \cup S |-> IF a \in S THEN t[a] ELSE u[a]] :
              t \in {f \in [S -> UNION {Unusual(a) : a \in S}] : \A a \in S : f[a] \in Unusual(a)}}
           : u \in Usual, S \in Subjects}
    \cup {[a \in {"root_path"} |-> Plain]}

MCWordLists == {
    <<"generate">>, <<"generate", "type_db">>, <<"clear", "type_db">>,
    <<>>, <<"init", "other">>, <<"init", "tools">>, <<"init", "tools", "other", "tools", "clear">>,
    <<"init", "tools", "other", Unresolved, "tools">>}
=============================================================================
