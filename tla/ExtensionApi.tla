---------------------------- MODULE ExtensionApi ----------------------------
(* ExtensionAPIParser: the types of the engine, from extension_api.json, a  *)
(* text with what the api does not list, and the headers of godot-cpp, to   *)
(* which a class is matched by a name without case and underscores.         *)
(*                                                                          *)
(* A name is a sequence of characters.  An entry of the api is a record; a  *)
(* field the json does not have is empty.                                   *)
EXTENDS Integers, FiniteSets, SequencesExt, Characters

CONSTANTS
    Godot,          \* the namespace of the engine
    CoreClasses,    \* core_interface: name, and number of template parameters
    CoreOthers      \* its other types: full name, and what it is

VARIABLES
    api,            \* extension_api.json: its enums, builtin classes and classes
    directories,    \* the include directories, in the order they are given
    reading, seen,  \* the directory being read, and the files it has given
    include_paths   \* ExtensionAPIParser::include_paths

apiVars == <<api, directories, reading, seen, include_paths>>

---------------------------------------------------------------------------
\* Mutant of CanonicalName: the underscores of a file name are kept.
CanonicalNameLowered(name) == [i \in DOMAIN name |-> Lowered(name[i])]

(* class_name_to_canonical_name                                             *)
CanonicalName(name) ==
    LET kept == SelectSeq(name, LAMBDA c : c # "_")
    IN  [i \in DOMAIN kept |-> Lowered(kept[i])]

(* setup_include_paths: the files of a directory come in any order, and a   *)
(* directory that is not there ends the loop (the caller does not ask).     *)
IncludeFile(f) ==
    /\ reading <= Len(directories) /\ directories[reading].exists
    /\ f \in directories[reading].files \ seen
    /\ include_paths' = [n \in DOMAIN include_paths \cup {CanonicalName(f.stem)} |->
                            IF n = CanonicalName(f.stem) THEN f.path ELSE include_paths[n]]
    /\ IF seen \cup {f} = directories[reading].files
       THEN reading' = reading + 1 /\ seen' = {}
       ELSE reading' = reading /\ seen' = seen \cup {f}
    /\ UNCHANGED <<api, directories>>

PathsAreSetUp == reading <= Len(directories) => ~directories[reading].exists

---------------------------------------------------------------------------
NoHeader == <<>>
HasHeader(name) == CanonicalName(name) \in DOMAIN include_paths

Type(full, params, optional, is, base, header) ==
    [full |-> full, params |-> params, optional |-> optional, is |-> is, base |-> base,
     attributes |-> {}, header |-> header]

(* parse_enum: it must have a name, "Variant.Type" is two names, and its    *)
(* values must be named and numbered.                                       *)
EnumFails(e) == e.name = <<>> \/ ~e.values
EnumType(e, scope, header) == Type(scope \o e.name, 0, 0, "enum", <<>>, header)

(* parse_class: what is declared in a class is in the header of the class.  *)
ClassFails(c) == c.name = <<>> \/ ~HasHeader(c.name) \/ \E e \in c.enums : EnumFails(e)
ClassTypes(c) ==
    LET header == include_paths[CanonicalName(c.name)]
        base == IF c.inherits = <<>> THEN <<>> ELSE <<c.inherits>>
    IN  {Type(<<Godot, c.name>>, 0, 0, "class", base, header)}
            \cup {EnumType(e, <<Godot, c.name>>, header) : e \in c.enums}

CoreTypes ==
    {Type(<<Godot, c.name>>, c.params, c.optional, "class", <<>>,
          include_paths[CanonicalName(c.name)]) : c \in CoreClasses}
    \cup {Type(o.full, 0, 0, o.is, <<>>, NoHeader) : o \in CoreOthers}

(* parse_file: a builtin class that fails is left out; any other failure    *)
(* gives no type at all.                                                    *)
ApiFails ==
    \/ ~api.json
    \/ \E e \in api.global_enums : EnumFails(e)
    \/ \E c \in api.classes : ClassFails(c)
    \/ \E c \in CoreClasses : ~HasHeader(c.name)
ApiTypes ==
    IF ApiFails THEN {}
    ELSE {EnumType(e, <<Godot>>, NoHeader) : e \in api.global_enums}
         \cup (UNION {ClassTypes(c) : c \in {b \in api.builtin_classes : ~ClassFails(b)}})
         \cup (UNION {ClassTypes(c) : c \in api.classes})
         \cup CoreTypes
=============================================================================
