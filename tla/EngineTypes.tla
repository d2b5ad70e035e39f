---------------------------- MODULE EngineTypes ----------------------------
(* What the TypeDB has to say of the types of the engine, by a reference of *)
(* its own for the headers that may be meant by the name of a class.        *)
EXTENDS TypeLookup

Texts == INSTANCE Strings

(* A file name spells a class name word by word, in any case.               *)
Capitals(s) == [i \in DOMAIN s |-> Raised(s[i])]
Spells(stem, name) == Capitals(Texts!MacroCaseToPascalCase(stem)) = Capitals(name)

(* The headers that may be meant by a name: those of the last directory     *)
(* that has one, of the directories up to the first that is not there.      *)
HeadersOf(name) ==
    LET Read(d) == \A e \in 1 .. d : directories[e].exists
        In(d) == {f \in directories[d].files : Spells(f.stem, name)}
        has == {d \in DOMAIN directories : Read(d) /\ In(d) # {}}
    IN  IF has = {} THEN {}
        ELSE {f.path : f \in In(CHOOSE d \in has : \A e \in has : e <= d)}

WellFormed(c) == c.name # <<>> /\ \A e \in c.enums : e.name # <<>> /\ e.values
ApiIsUsable ==
    /\ api.json /\ \A e \in api.global_enums : e.name # <<>> /\ e.values
    /\ \A c \in api.classes : WellFormed(c)
    /\ \A c \in api.classes \cup CoreClasses : HeadersOf(c.name) # {}

(* Of an engine class that has a header the TypeDB gives the header of that *)
(* name, of the last include directory that has one, for it and for what is *)
(* declared in it, unless something else of the api cannot be used: then    *)
(* it has nothing of it (extension_api_parser.cpp, get_type_header).        *)
EngineTypesFound ==
    phase \notin {"api", "scan"} /\ answer = Unasked =>
        \A c \in api.builtin_classes \cup api.classes : c.name # <<>> =>
            LET Found(full) == Find(Query(full, 0, NoAttribute, Nowhere))
                t == Found(<<Godot, c.name>>)
            IN  IF ApiIsUsable /\ WellFormed(c) /\ HeadersOf(c.name) # {}
                THEN /\ t.is = "class" /\ t.header \in HeadersOf(c.name)
                     /\ \A e \in c.enums :
                           LET inner == Found(t.full \o e.name)
                           IN  inner.is = "enum" /\ inner.header = t.header
                ELSE t = NoType
=============================================================================
