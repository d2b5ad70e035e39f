---------------------------- MODULE MCTypeLookup ----------------------------
(* A project around the namespaces godot and game.                          *)
EXTENDS EngineTypes

MCGodot == <<"g", "d">>
Game == <<"g", "a">>
Ui == <<"u", "i">>
Object == <<"O", "b">>
Node == <<"N", "o">>
Node2D == <<"N", "o", "2", "R">>
Ref == <<"R", "e">>
Mode == <<"M", "o">>
Sprite == <<"S", "p">>
Button == <<"B", "u">>
Label == <<"L", "a">>
Lost == <<"L", "o">>

(* The api, and the headers of godot-cpp, some of which are there twice.    *)
EnumOf(name, values) == [name |-> name, values |-> values]
ClassOf(name, inherits, enums) == [name |-> name, inherits |-> inherits, enums |-> enums]
BadEnums == {EnumOf(<<>>, TRUE), EnumOf(<<Mode>>, FALSE)}
ObjectClass == ClassOf(Object, <<>>, {})
Small == [json |-> TRUE, global_enums |-> {}, builtin_classes |-> {}, classes |-> {ObjectClass}]
Whole == [json |-> TRUE, global_enums |-> {EnumOf(<<Node, Label>>, TRUE)},
          builtin_classes |-> {ClassOf(Label, <<>>, {})},
          classes |-> {ObjectClass, ClassOf(Node, Object, {EnumOf(<<Mode>>, TRUE)}),
                       ClassOf(Node2D, Node, {})}]
Apis ==
    {Small, Whole, [Whole EXCEPT !.json = FALSE]}
    \cup {[Whole EXCEPT !.global_enums = {e}] : e \in BadEnums}
    \cup {[Whole EXCEPT !.builtin_classes = {c}] :
            c \in {ClassOf(<<>>, <<>>, {})} \cup {ClassOf(Button, <<>>, {e}) : e \in BadEnums}}
    \cup {[Whole EXCEPT !.classes = @ \cup {c}] :
            c \in {ClassOf(<<>>, <<>>, {}), ClassOf(Lost, <<>>, {})}
                  \cup {ClassOf(Button, Node, {e}) : e \in BadEnums}}

Header(directory, stem) == [path |-> <<directory, stem>>, stem |-> stem]
Directory(headers) == [exists |-> TRUE, files |-> headers]
Core == Directory({Header("core", <<"o", "b">>), Header("core", <<"n", "o">>)})
Generated ==
    Directory({Header("gen", <<"o", "b">>), Header("gen", <<"o", "_", "b">>),
               Header("gen", <<"r", "e">>), Header("gen", <<"b", "u">>),
               Header("gen", <<"n", "o", "_", "2", "r">>)})
Missing == [exists |-> FALSE, files |-> {Header("gone", <<"o", "b">>)}]
Usual == <<Core, Generated>>
Plain == <<Directory({Header("gen", <<"o", "b">>), Header("gen", <<"n", "o">>),
                      Header("gen", <<"r", "e">>), Header("gen", <<"n", "o", "_", "2", "r">>)})>>
DirectoryLists == {Usual, <<Generated, Core>>, <<Generated, Core, Missing>>, <<Core, Missing, Generated>>}

MCCoreClasses == {[name |-> Ref, params |-> 1, optional |-> 0]}
MCCoreOthers == {[full |-> <<MCGodot, <<"L", "e">>>>, is |-> "enum"],
                 [full |-> <<<<"G", "D">>>>, is |-> "define"]}

(* The types of the user.                                                   *)
T(full, params, optional, is, base, attributes) ==
    [full |-> full, params |-> params, optional |-> optional, is |-> is,
     base |-> base, attributes |-> attributes, header |-> full]
Gd == {"GodotClass"}

Pool == {
    T(<<MCGodot, <<"L", "i">>>>, 2, 1, "class", <<>>, Gd),
    T(<<Game, Node>>, 0, 0, "class", <<MCGodot, Node>>, Gd),
    T(<<Game, Node, Mode>>, 0, 0, "enum", <<>>, Gd),
    T(<<Game, Sprite>>, 0, 0, "class", <<Node>>, Gd),
    T(<<Game, Ui, Button>>, 0, 0, "class", <<Game, Sprite>>, {}),
    T(<<Game, Ui, Label>>, 0, 0, "class", <<Sprite>>, {}),
    T(<<Button>>, 1, 1, "class", <<Game, Ui, Button>>, Gd)}
UpTo(n) == {D \in SUBSET Pool : Cardinality(D) <= n}
InGame == {t \in Pool : t.full[1] = Game}
Heirs == {t \in InGame : Last(t.full) \in {Sprite, Button}}

(* A template, and a class of that name in the namespace of a using.        *)
Template == {T(<<Button>>, 1, 0, "class", <<>>, {}),
             T(<<MCGodot, Button>>, 0, 0, "class", <<>>, Gd)}

Project(a, lists, types) == [api |-> a, directories |-> lists, types |-> types]
MCProjects ==
    {Project(Whole, Plain, D) : D \in UpTo(1) \cup {Heirs, InGame}}
    \cup {Project(Small, Plain, D) : D \in UpTo(2) \cup {Template}}
    \cup {Project(a, lists, {}) : a \in Apis, lists \in DirectoryLists}

(* Classes of one name in two scopes, whose bases go round for the lookup.  *)
Circle == {T(<<Game, Button>>, 0, 0, "class", <<>>, {}),
           T(<<Game, Label>>, 0, 0, "class", <<Button>>, {}),
           T(<<Button>>, 0, 0, "class", <<Game, Label>>, {})}
CircleProject == {Project(Whole, Usual, Circle)}

MCUsings == <<<<MCGodot>>>>
MCAssumed == {<<Object>>}
MCRootClass == <<Object>>

MCQueries ==
    {Query(asked[1], asked[2], attribute, from) :
        asked \in {<<<<Node>>, 0>>, <<<<Node, Mode>>, 0>>, <<<<Ui, Button>>, 0>>,
                   <<<<Button>>, 0>>, <<<<Button>>, 1>>, <<<<<<"L", "i">>>>, 1>>},
        attribute \in {NoAttribute, "GodotClass"}, from \in {Nowhere, <<Game, Ui>>}}
=============================================================================
