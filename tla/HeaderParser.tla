---------------------------- MODULE HeaderParser ----------------------------
(***************************************************************************)
(* ClangParser: from the text of a header to the syntax tree, and from the *)
(* tree to the names of the macros generate_bindings defines for it.       *)
(*                                                                         *)
(* A header is a sequence of lines, a line is what it declares, and a      *)
(* declaration is known by its line number in the user's file.  Clang is   *)
(* external: it turns the text it is given into cursors, which the visitor *)
(* hands to one handler each.  The tree is the sequence of its nodes in    *)
(* the order they are added, each with its parent; identifiers and types   *)
(* are left out (GeneratedText.tla has the types).                          *)
(***************************************************************************)
EXTENDS Integers, Sequences, SequencesExt, FiniteSets

CONSTANTS
    Drafts,         \* headers the user begins with
    Lines,          \* the kinds of lines the user writes
    MaxWritten,     \* bound: lines added to a draft
    Macros          \* number of registered attribute macros

Attributes == {"GODOT_CLASS", "GODOT_GENERATED_BODY", "GODOT_GENERATED_GLOBAL",
               "GODOT_FUNCTION", "GODOT_FUNCTION(?)"}   \* (?): arguments that cannot be parsed

(* External: the cursors clang makes of a line.  "end" closes the last     *)
(* cursor that may have children.                                          *)
CursorKinds(line) ==
    CASE line = "class" -> <<"ClassDecl">>
      [] line = "class : base" -> <<"ClassDecl", "CXXBaseSpecifier">>
      [] line = "template class" -> <<"ClassTemplate", "TemplateTypeParameter">>
      [] line = "class;" -> <<"ClassDecl;">>
      [] line = "namespace" -> <<"Namespace">>
      [] line = "enum" -> <<"EnumDecl">>
      [] line = "unnamed enum" -> <<"EnumDecl{">>
      [] line = "value" -> <<"EnumConstantDecl">>
      [] line = "function(p)" -> <<"CXXMethod", "ParmDecl", "end">>
      [] line = "constructor(p)" -> <<"Constructor", "ParmDecl", "end">>
      [] line = "field" -> <<"FieldDecl", "end">>
      [] line = "field = v" -> <<"FieldDecl=", "IntegerLiteral", "end">>
      [] line = "field[n]" -> <<"FieldDecl", "IntegerLiteral", "end">>
      [] line = "public:" -> <<"CXXAccessSpecifier">>
      [] line = "}" -> <<"end">>
      [] line \in Attributes -> <<line>>
      [] OTHER -> <<>>      \* "", "#include", "#define", "// goc off", "// goc on"

Blocks == {"class", "class : base", "template class", "namespace", "enum", "unnamed enum"}
Classes == {"class", "class : base", "template class"}
Defining == Classes \cup {"enum", "unnamed enum", "field", "field = v", "field[n]"}
Opening == {"ClassDecl", "ClassTemplate", "Namespace", "EnumDecl", "EnumDecl{", "CXXMethod",
            "Constructor", "FieldDecl", "FieldDecl="}

VARIABLES
    phase,          \* "write", "parse", "visit", "bind", "done", "failed"
    text,           \* the user's header
    written,        \* lines added to it so far
    ends,           \* does its last line end with a newline?
    generated_found,\* are the generated headers it includes there already?
    parse_attributes,
    cursors,        \* those the visitor has not seen: kind, declaration, line
    tree,           \* nodes: kind, declaration, parent, line of an attribute
    frames,         \* ClangParserContext::root and current, and those to be restored
    macros          \* the macros defined in the generated header: line, class

vars == <<phase, text, written, ends, generated_found, parse_attributes, cursors, tree, frames, macros>>

Node(kind, of, parent) == [kind |-> kind, of |-> of, parent |-> parent, line |-> 0]
Global == Node("Namespace", 0, 0)

Init ==
    /\ phase = "write" /\ text \in Drafts /\ written = 0
    /\ ends = TRUE /\ generated_found = TRUE /\ parse_attributes = TRUE
    /\ cursors = <<>> /\ tree = <<Global>> /\ frames = <<>> /\ macros = {}

(* The innermost block around the i-th line, 0 at the top level.           *)
Enclosing(i) ==
    LET Open(o) == text[o] \in Blocks
        Closes(o, c) == /\ text[c] = "}"
                        /\ Cardinality({k \in o .. c : text[k] \in Blocks})
                             = Cardinality({k \in o .. c : text[k] = "}"})
        around == {o \in 1 .. i - 1 : Open(o) /\ ~\E c \in o .. i - 1 : Closes(o, c)}
    IN  IF around = {} THEN 0 ELSE CHOOSE o \in around : \A p \in around : p <= o

(* What C++ allows in which block.                                         *)
Legal(i) ==
    LET o == Enclosing(i)
        line == text[i]
    IN  CASE line = "}" -> o # 0
          [] line \in {"", "// goc off", "// goc on"} -> TRUE
          [] line \in {"#include", "#define"} -> o = 0
          [] line = "value" -> o # 0 /\ text[o] \in {"enum", "unnamed enum"}
          [] line \in {"constructor(p)", "public:", "GODOT_GENERATED_BODY",
                       "GODOT_FUNCTION", "GODOT_FUNCTION(?)"} -> o # 0 /\ text[o] \in Classes
          [] line \in {"namespace", "GODOT_GENERATED_GLOBAL"} -> o = 0 \/ text[o] = "namespace"
          [] OTHER -> o = 0 \/ text[o] \in Classes \cup {"namespace"}

WriteLine(line) ==
    /\ phase = "write" /\ written < MaxWritten
    /\ \E i \in 1 .. Len(text) + 1 : text' = InsertAt(text, i, line)
    /\ written' = written + 1
    /\ UNCHANGED <<phase, ends, generated_found, parse_attributes, cursors, tree, frames, macros>>

---------------------------------------------------------------------------
(* The text given to clang.  In these operators a line is a record of what *)
(* it is and its number in the user's file.                                *)

Numbered == [i \in DOMAIN text |-> [is |-> text[i], of |-> i]]
FirstFrom(ls, pos, is) == SelectInSubSeq(ls, pos, Len(ls), LAMBDA l : l.is = is)

(* The sections that strip_excluded_sections finds from pos on: an "off"   *)
(* with no "on" behind it, or with one before it, reaches the end.         *)
RECURSIVE Exclusions(_, _)
Exclusions(ls, pos) ==
    LET off == FirstFrom(ls, pos, "// goc off")
        on == FirstFrom(ls, pos, "// goc on")
    IN  IF off = 0 THEN {}
        ELSE IF on = 0 \/ on < off THEN off .. Len(ls)
        ELSE (off .. on) \cup Exclusions(ls, on + 1)
Stripped ==
    LET out == Exclusions(Numbered, 1)
    IN  SelectSeq(Numbered, LAMBDA l : l.of \notin out)

(* split_lines_include: 0 if there is none.                                *)
LastInclude(ls) == SelectLastInSeq(ls, LAMBDA l : l.is = "#include")

(* ... and the lines after it; an #include that ends the text without a    *)
(* newline is followed by the whole text once more.                        *)
AfterIncludes(ls) ==
    LET last == LastInclude(ls)
    IN  IF last = Len(ls) /\ ~ends THEN ls ELSE SubSeq(ls, last + 1, Len(ls))

(* The added section: an empty line, the marker, two helpers, and two      *)
(* lines for each macro.                                                   *)
LineCount(newlines) == newlines + 1
AddedNewlines == 1 + 1 + 2 + 2 * Macros
IncludeLines(ls) == LineCount(IF LastInclude(ls) = 0 THEN 0 ELSE LastInclude(ls) - 1)
TempLine(ls, j) == IncludeLines(ls) + AddedNewlines + j - 1     \* of the j-th line after it

(* Mutant: the lines of the section are counted as line_count counts them. *)
ToOriginalWhole(ls, temp) ==
    LET added == LineCount(AddedNewlines)
        first == IncludeLines(ls) + 1
    IN  IF temp < first + added - 1 THEN temp ELSE temp - added

(* ClangParserContext::line_temp_to_original                               *)
ToOriginal(ls, temp) ==
    LET added == LineCount(AddedNewlines) - 2
        first == IncludeLines(ls) + 1
    IN  IF temp < first + added THEN temp ELSE temp - added

Defines(ls) == SelectSeq(ls, LAMBDA l : l.is \in {"#define", "#include"})

CursorsOf(ls) ==
    FlattenSeq([j \in DOMAIN AfterIncludes(ls) |->
        LET l == AfterIncludes(ls)[j]
        IN  [k \in DOMAIN CursorKinds(l.is) |->
                [kind |-> CursorKinds(l.is)[k], of |-> l.of, line |-> TempLine(ls, j)]]])

Balanced(ls) ==
    LET Depth(n) == Cardinality({i \in 1 .. n : ls[i].is \in Blocks})
                    - Cardinality({i \in 1 .. n : ls[i].is = "}"})
    IN  Depth(Len(ls)) = 0 /\ \A n \in 0 .. Len(ls) : Depth(n) >= 0

(* External: errors clang reports about the text itself.  An attribute     *)
(* before the last #include is not yet one of goc's macros, and unknown if *)
(* no generated header defines it.                                         *)
AttributeBeforeInclude(ls) == \E i \in 1 .. LastInclude(ls) : ls[i].is \in Attributes
Diagnosed(ls) ==
    \/ ~Balanced(ls)
    \/ ~generated_found /\ AttributeBeforeInclude(ls)
    \/ LastInclude(ls) = Len(ls) /\ ~ends
       /\ \E i \in DOMAIN ls : ls[i].is \in Defining

(* ClangParser::config and parse, up to the visit of the first cursor      *)
(* after the marker; those before it are passed over.                      *)
Parse ==
    /\ phase = "write" /\ Balanced(Numbered) /\ {i \in DOMAIN text : ~Legal(i)} = {}
    /\ ends' \in {TRUE, Last(text) # "#include"}      \* where it matters
    /\ generated_found' \in {TRUE, ~AttributeBeforeInclude(Numbered)}
    /\ parse_attributes' \in BOOLEAN
    /\ phase' = "parse"
    /\ UNCHANGED <<text, written, cursors, tree, frames, macros>>

(* Nodes 1 and 2 are the global namespace and its body.                    *)
Visit ==
    /\ phase = "parse"
    /\ tree' = <<Global, Node("Body", 0, 1)>>
               \o [i \in DOMAIN Defines(Stripped) |->
                      Node(Defines(Stripped)[i].is, Defines(Stripped)[i].of, 2)]
    /\ IF Diagnosed(Stripped)
       THEN phase' = "failed" /\ UNCHANGED <<cursors, frames>>
       ELSE /\ phase' = "visit"
            /\ cursors' = CursorsOf(Stripped)
            /\ frames' = <<[root |-> 0, current |-> 2, skip |-> FALSE]>>
    /\ UNCHANGED <<text, written, ends, generated_found, parse_attributes, macros>>

---------------------------------------------------------------------------
(* The visitor.  It hands the next cursor to the first handler that        *)
(* handles it, visits the children of those that say Into with the root    *)
(* and the target they set, and puts the old ones back behind them.        *)

Cursor == Head(cursors)
Frame == Last(frames)
At(kinds) == phase = "visit" /\ cursors # <<>> /\ Cursor.kind \in kinds
Seen(kinds) == At(kinds) /\ ~Frame.skip
Size == Len(tree)

Pass ==
    /\ cursors' = Tail(cursors)
    /\ UNCHANGED <<text, written, ends, generated_found, parse_attributes, macros>>
Over ==     \* the children of an opening cursor are not visited
    /\ frames' = IF Cursor.kind \in Opening THEN Append(frames, [Frame EXCEPT !.skip = TRUE])
                 ELSE frames
    /\ Pass
Into(root, current) ==
    /\ frames' = Append(frames, [root |-> root, current |-> current, skip |-> FALSE])
    /\ Pass
AddNodes(nodes) == tree' = tree \o nodes /\ UNCHANGED phase
Declared(kind) == Node(kind, Cursor.of, Frame.current)
Part(kind, parent) == Node(kind, Cursor.of, parent)

(* Mutant: the root is put back, the target is not.                        *)
EndKeepingTarget ==
    /\ At({"end"})
    /\ frames' = [Front(frames) EXCEPT ![Len(frames) - 1].current = Frame.current]
    /\ Pass /\ UNCHANGED <<phase, tree>>

(* clang_visitChildren returns.                                            *)
End ==
    /\ At({"end"})
    /\ frames' = Front(frames)
    /\ Pass /\ UNCHANGED <<phase, tree>>

(* A cursor nobody handles, or below one whose children are not visited.   *)
Skipped ==
    /\ phase = "visit" /\ cursors # <<>> /\ Cursor.kind # "end"
    /\ Frame.skip \/ Cursor.kind = "Constructor"
    /\ Over /\ UNCHANGED <<phase, tree>>

(* ClassHandler: declarations and unnamed classes are left out.            *)
HandleClass ==
    /\ Seen({"ClassDecl", "ClassTemplate", "ClassDecl;"})
    /\ IF Cursor.kind = "ClassDecl;" THEN Over /\ UNCHANGED <<phase, tree>>
       ELSE LET parameters == IF Cursor.kind = "ClassTemplate"
                              THEN <<Part("TemplateParameters", Size + 1)>> ELSE <<>>
            IN  /\ AddNodes(<<Declared("Class")>> \o parameters
                            \o <<Part("BaseClasses", Size + 1), Part("Body", Size + 1)>>)
                /\ Into(Size + 1, Size + 3 + Len(parameters))

ChildOf(root, kind) == SelectInSeq(tree, LAMBDA n : n.parent = root /\ n.kind = kind)

HandleBaseClass ==
    /\ Seen({"CXXBaseSpecifier"})
    /\ IF tree[Frame.root].kind = "Class" /\ ChildOf(Frame.root, "BaseClasses") # 0
       THEN AddNodes(<<Part("Type", ChildOf(Frame.root, "BaseClasses"))>>) /\ Over
       ELSE phase' = "failed" /\ Over /\ UNCHANGED tree

(* parameter_count is the number of the nodes below TemplateParameters.    *)
HandleTemplateParameter ==
    /\ Seen({"TemplateTypeParameter"})
    /\ IF ChildOf(Frame.root, "TemplateParameters") = 0 THEN UNCHANGED <<phase, tree>>
       ELSE AddNodes(<<Part("TemplateParameter", ChildOf(Frame.root, "TemplateParameters"))>>)
    /\ Over

HandleNamespace ==
    /\ Seen({"Namespace"})
    /\ AddNodes(<<Declared("Namespace"), Part("Body", Size + 1)>>)
    /\ Into(Size + 1, Size + 2)

(* EnumHandler: the target a constant sets is dropped, as it says Over.    *)
HandleEnum ==
    /\ Seen({"EnumDecl", "EnumDecl{", "EnumConstantDecl"})
    /\ CASE Cursor.kind = "EnumDecl{" -> Over /\ UNCHANGED <<phase, tree>>
         [] Cursor.kind = "EnumDecl" ->
              /\ AddNodes(<<Declared("Enum"), Part("EnumValues", Size + 1)>>)
              /\ Into(Size + 1, Size + 2)
         [] OTHER -> AddNodes(<<Declared("EnumValue")>>) /\ Over

HandleMethod ==
    /\ Seen({"CXXMethod"})
    /\ AddNodes(<<Declared("Function"), Part("Parameters", Size + 1)>>)
    /\ Into(Size + 1, Size + 2)

HandleParameter == Seen({"ParmDecl"}) /\ AddNodes(<<Declared("Parameter")>>) /\ Over

(* FieldHandler: an assigned value becomes a literal, and only a field     *)
(* without one has its children visited.                                   *)
HandleField ==
    /\ Seen({"FieldDecl", "FieldDecl="})
    /\ IF Cursor.kind = "FieldDecl"
       THEN AddNodes(<<Declared("Field")>>) /\ Into(Frame.root, Size + 1)
       ELSE AddNodes(<<Declared("Field"), Part("Literal", Size + 1)>>) /\ Over

HandleLiteral == Seen({"IntegerLiteral"}) /\ AddNodes(<<Declared("Literal")>>) /\ Over

HandleAccess ==
    Seen({"CXXAccessSpecifier"}) /\ AddNodes(<<Declared("AccessSpecifier")>>) /\ Over

(* AttributeHandler, which comes before FieldHandler, and parse_attribute: *)
(* the arguments are only looked at if they are to be parsed.              *)
HandleAttribute ==
    /\ Seen(Attributes)
    /\ IF Cursor.kind = "GODOT_FUNCTION(?)" /\ parse_attributes
       THEN phase' = "failed" /\ UNCHANGED tree
       ELSE AddNodes(<<[Declared(Cursor.kind) EXCEPT
                            !.line = ToOriginal(Stripped, Cursor.line)]>>)
    /\ Over

(* ClangParser::parse returns OK.                                          *)
Parsed ==
    /\ phase = "visit" /\ cursors = <<>>
    /\ phase' = IF parse_attributes THEN "bind" ELSE "done"
    /\ UNCHANGED <<text, written, ends, generated_found, parse_attributes, cursors, tree, frames,
                   macros>>

---------------------------------------------------------------------------
(* generate_bindings: the classes under a GODOT_CLASS, and the names of    *)
(* the macros their GODOT_GENERATED_BODY will expand to.                   *)

Children(p) == SelectSeq([n \in DOMAIN tree |-> n], LAMBDA n : tree[n].parent = p)
PreviousSibling(n) == SelectLastInSubSeq(tree, 1, n - 1, LAMBDA m : m.parent = tree[n].parent)
BodyOf(c) == ChildOf(c, "Body")
Generated ==
    {c \in DOMAIN tree : /\ tree[c].kind = "Class" /\ PreviousSibling(c) # 0
                         /\ tree[PreviousSibling(c)].kind = "GODOT_CLASS"}
GlobalAttributes ==
    {n \in DOMAIN tree : tree[n].kind = "GODOT_GENERATED_GLOBAL" /\ tree[n].parent = 2}

(* A class needs a base, its GODOT_GENERATED_BODY as the first node of its *)
(* body, and a GODOT_GENERATED_GLOBAL in the global namespace.             *)
Acceptable(c) ==
    /\ Children(BodyOf(c)) # <<>>
    /\ tree[Head(Children(BodyOf(c)))].kind = "GODOT_GENERATED_BODY"
    /\ GlobalAttributes # {}
    /\ Children(ChildOf(c, "BaseClasses")) # <<>>

(* generated_macro_name: the id of the file is the same for all.  Without  *)
(* a GODOT_GENERATED_GLOBAL its macro is still defined, for line 0.        *)
MacroOf(attribute, of) == [line |-> attribute.line, class |-> of]

GenerateBindings ==
    /\ phase = "bind"
    /\ IF Cardinality(GlobalAttributes) > 1 \/ \E c \in Generated : ~Acceptable(c)
       THEN phase' = "rejected" /\ UNCHANGED macros
       ELSE /\ phase' = "done"
            /\ macros' =
                 {MacroOf(tree[Head(Children(BodyOf(c)))], tree[c].of) : c \in Generated}
                 \cup (IF GlobalAttributes = {} THEN {[line |-> 0, class |-> 0]}
                       ELSE {MacroOf(tree[n], 0) : n \in GlobalAttributes})
    /\ UNCHANGED <<text, written, ends, generated_found, parse_attributes, cursors, tree, frames>>

Next ==
    \/ \E line \in Lines : WriteLine(line)
    \/ Parse \/ Visit \/ End \/ Skipped \/ HandleClass \/ HandleBaseClass
    \/ HandleTemplateParameter \/ HandleNamespace \/ HandleEnum \/ HandleMethod
    \/ HandleParameter \/ HandleField \/ HandleLiteral \/ HandleAccess
    \/ HandleAttribute \/ Parsed \/ GenerateBindings

Spec == Init /\ [][Next]_vars

---------------------------------------------------------------------------
(* What the header says, read off its lines.                               *)
NodesOf(line) ==
    CASE line = "class" -> <<"Class">>
      [] line = "class : base" -> <<"Class", "Type">>
      [] line = "template class" -> <<"Class", "TemplateParameter">>
      [] line = "namespace" -> <<"Namespace">>
      [] line = "enum" -> <<"Enum">>
      [] line = "value" -> <<"EnumValue">>
      [] line = "function(p)" -> <<"Function", "Parameter">>
      [] line = "field" -> <<"Field">>
      [] line \in {"field = v", "field[n]"} -> <<"Field", "Literal">>
      [] line = "public:" -> <<"AccessSpecifier">>
      [] line \in Attributes -> <<line>>
      [] OTHER -> <<>>

(* docs/macros/exclusion.rst: what is between "goc off" and "goc on".      *)
IsMarker(line) == line \in {"// goc off", "// goc on"}
Excluded(i) ==
    LET marker == SelectLastInSubSeq(text, 1, i, IsMarker)
    IN  marker # 0 /\ text[marker] = "// goc off"
Declares(i) == ~Excluded(i) /\ NodesOf(text[i]) # <<>>
               /\ (Enclosing(i) # 0 => text[Enclosing(i)] # "unnamed enum")

Written ==
    FlattenSeq([i \in DOMAIN text |->
        IF ~Declares(i) THEN <<>>
        ELSE [k \in DOMAIN NodesOf(text[i]) |->
                 [kind |-> NodesOf(text[i])[k], of |-> i,
                  within |-> IF k = 1 THEN Enclosing(i) ELSE i]]])

Lists == {"Body", "BaseClasses", "TemplateParameters", "EnumValues", "Parameters"}
Outline ==
    LET shown == SelectSeq(tree, LAMBDA n : n.kind \notin Lists \cup {"#include", "#define"})
        Owner(n) == IF tree[n.parent].kind \in Lists THEN tree[tree[n.parent].parent].of
                    ELSE tree[n.parent].of
    IN  [i \in 1 .. Len(shown) - 1 |->
            [kind |-> shown[i + 1].kind, of |-> shown[i + 1].of, within |-> Owner(shown[i + 1])]]

(* Headers as they are usually written: the includes come before what is   *)
(* declared, "off" and "on" alternate, and leave blocks whole.             *)
IncludesFirst ==
    \A i, j \in DOMAIN text : text[i] = "#include" /\ NodesOf(text[j]) # <<>> => i < j
MarkersMatch ==
    LET markers == SelectSeq([i \in DOMAIN text |-> i], LAMBDA i : IsMarker(text[i]))
    IN  \A k \in DOMAIN markers :
            /\ text[markers[k]] = IF k % 2 = 1 THEN "// goc off" ELSE "// goc on"
            /\ k % 2 = 0 => Enclosing(markers[k - 1]) = Enclosing(markers[k])
            /\ k % 2 = 1 /\ k = Len(markers) => Enclosing(markers[k]) = 0
Ordinary == IncludesFirst /\ MarkersMatch

(* The tree has what the header declares outside its excluded sections,    *)
(* each under what it is written in and in the order it is written in      *)
(* (by which an attribute finds its target), whatever was nested before    *)
(* it; and a header is only refused for the arguments of an attribute.     *)
TreeAsWritten ==
    Ordinary =>
        /\ phase \in {"bind", "done", "rejected"} => Outline = Written
        /\ phase = "failed" =>
              /\ \E i \in DOMAIN text : Declares(i) /\ text[i] = "GODOT_FUNCTION(?)"
              /\ parse_attributes

(* The compiler replaces a GODOT_GENERATED_BODY by the macro that has its  *)
(* line in the name (GOC_BODY_COMBINE, __LINE__).  Once generation has     *)
(* succeeded there is one for every class the user has marked, for the     *)
(* first GODOT_GENERATED_BODY in it, and each that there is was generated  *)
(* for the class in which it will be used.  A section that is left out     *)
(* before a macro moves its line in the text, but not in the file: only    *)
(* sections behind the last macro are allowed here.                        *)
Marked(c) == text[c] \in Classes /\ c > 1 /\ text[c - 1] = "GODOT_CLASS" /\ ~Excluded(c)
UsedIn(c) == {i \in DOMAIN text : text[i] = "GODOT_GENERATED_BODY" /\ Enclosing(i) = c}
NothingMoved ==
    \A i, j \in DOMAIN text :
        text[i] \in {"GODOT_GENERATED_BODY", "GODOT_GENERATED_GLOBAL"} /\ Excluded(j) /\ j < i
            => Excluded(i)
BodiesExpand ==
    phase = "done" /\ parse_attributes /\ Ordinary /\ NothingMoved
    /\ (\E i \in DOMAIN text : text[i] = "#include" /\ ~Excluded(i)) =>
        /\ \A c \in DOMAIN text : Marked(c) =>
              \E i \in UsedIn(c) : /\ [line |-> i, class |-> c] \in macros
                                   /\ \A k \in UsedIn(c) : i <= k
        /\ \A m \in macros : m.line = 0 \/
              /\ m.line \in DOMAIN text
              /\ text[m.line] = IF m.class = 0 THEN "GODOT_GENERATED_GLOBAL"
                                ELSE "GODOT_GENERATED_BODY"
              /\ Enclosing(m.line) = m.class
=============================================================================
