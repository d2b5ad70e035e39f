----------------------------- MODULE TreeSearch -----------------------------
(***************************************************************************)
(* What the programs read off the syntax tree of a header: the searches of *)
(* Node and Context, the lists of namespaces, classes and enumerations,    *)
(* the names types are recorded under, the targets of attributes, and the  *)
(* part of the tree that an error message shows.  A search for a C++ class *)
(* is a search for the kinds of nodes that derive from it; 0 is nullptr.   *)
(***************************************************************************)
EXTENDS HeaderParser, FiniteSetsExt

Namespaces == {"Namespace", "Class"}        \* a Class is a Namespace
Types == {"Class", "Enum", "#define"}
Is(n, kinds) == n # 0 /\ tree[n].kind \in kinds
Parent(n) == tree[n].parent
FirstIn(nodes, kinds) ==
    LET k == SelectInSeq(nodes, LAMBDA n : Is(n, kinds)) IN IF k = 0 THEN 0 ELSE nodes[k]

NextSibling(n) == SelectInSubSeq(tree, n + 1, Size, LAMBDA m : m.parent = Parent(n))

(* Mutant: only the sibling right before it is looked at.                  *)
FindPreviousSiblingOnce(n, kinds) ==
    IF Is(PreviousSibling(n), kinds) THEN PreviousSibling(n) ELSE 0

FindPreviousSibling(n, kinds) ==
    SelectLastInSubSeq(tree, 1, n - 1, LAMBDA m : m.parent = Parent(n) /\ m.kind \in kinds)

(* The parents of a node, the nearest first, and all below it as printed.  *)
RECURSIVE Above(_)
Above(n) == IF Parent(n) = 0 THEN <<>> ELSE <<Parent(n)>> \o Above(Parent(n))

RECURSIVE Below(_)
Below(n) == FoldLeft(LAMBDA nodes, m : nodes \o <<m>> \o Below(m), <<>>, Children(n))

FindParent(n, kinds) == FirstIn(Above(n), kinds)

(* find_ancestor in the orders DIRECT_PARENTS and BY_SIBLINGS_PREV.        *)
RECURSIVE FindAncestor(_, _, _)
FindAncestor(n, order, kinds) ==
    LET next == IF order = "siblings" /\ PreviousSibling(n) # 0 THEN PreviousSibling(n)
                ELSE Parent(n)
    IN  IF Parent(n) = 0 THEN 0
        ELSE IF Is(next, kinds) THEN next ELSE FindAncestor(next, order, kinds)

FindChild(n, start, kinds) == FirstIn(SubSeq(Children(n), start, Len(Children(n))), kinds)

(* find_chain<T, C, ...>: only the first child of each kind is entered.    *)
RECURSIVE FindChain(_, _)
FindChain(n, chain) ==
    LET child == FindChild(n, 1, {Head(chain)})
    IN  IF child = 0 \/ Len(chain) = 1 THEN child ELSE FindChain(child, Tail(chain))

FindChildren(n, recursive, kinds) ==
    SelectSeq(IF recursive THEN Below(n) ELSE Children(n), LAMBDA m : Is(m, kinds))

(* Children first, then what is below the first of them that has one.      *)
RECURSIVE FindDescendant(_, _, _)
FindDescendant(n, order, kinds) ==
    CASE order = "DFS" -> FirstIn(Below(n), kinds)
      [] FindChild(n, 1, kinds) # 0 -> FindChild(n, 1, kinds)
      [] OTHER -> FoldLeft(LAMBDA m, child :
                               IF m # 0 THEN m ELSE FindDescendant(child, order, kinds),
                           0, Children(n))

RECURSIVE DescendantCount(_)
DescendantCount(n) ==
    FoldLeft(LAMBDA count, m : count + 1 + DescendantCount(m), 0, Children(n))

---------------------------------------------------------------------------
(* Names.  A name is the line that declares it; the global namespace has   *)
(* none.                                                                   *)
Name(n) == IF tree[n].of = 0 THEN <<>> ELSE <<tree[n].of>>

RECURSIVE QualifiedName(_)
QualifiedName(n) ==
    LET namespace == FindAncestor(n, "parents", Namespaces)
    IN  (IF namespace = 0 THEN <<>> ELSE QualifiedName(namespace)) \o Name(n)

RECURSIVE NamespacesAround(_)
NamespacesAround(n) ==
    LET namespace == FindAncestor(n, "parents", Namespaces)
    IN  IF namespace = 0 THEN <<>> ELSE NamespacesAround(namespace) \o Name(namespace)
NamespacesNames(n) == NamespacesAround(n) \o (IF Is(n, Namespaces) THEN Name(n) ELSE <<>>)

NamespacesOf(n) == Reverse(SelectSeq(Above(n), LAMBDA m : Is(m, Namespaces)))

TemplateParameterCount(n) ==
    LET parameters == FindChild(n, 1, {"TemplateParameters"})
    IN  IF parameters = 0 THEN 0 ELSE Len(Children(parameters))
MangledName(n) == <<QualifiedName(n), TemplateParameterCount(n)>>

(* What a namespace and a class have.                                      *)
Functions(n) == FindChildren(BodyOf(n), FALSE, {"Function"})
Fields(n) == FindChildren(BodyOf(n), FALSE, {"Field"})
ClassesIn(n) == FindChildren(BodyOf(n), FALSE, {"Class"})
EnumsIn(n) == FindChildren(BodyOf(n), FALSE, {"Enum"})
ClassesRecursive(n) == FindChildren(BodyOf(n), TRUE, {"Class"})
EnumsRecursive(n) == FindChildren(BodyOf(n), TRUE, {"Enum"})
EnumValuesOf(n) == FindChildren(n, TRUE, {"EnumValue"})
DirectBases(n) ==
    LET bases == FindChild(n, 1, {"BaseClasses"})
    IN  IF bases = 0 THEN <<>> ELSE FindChildren(bases, FALSE, {"Type"})
ClassAttributes(n) == SelectSeq(Children(BodyOf(n)), LAMBDA m : Is(m, Attributes))
HasGeneratedBody(n) == FindDescendant(n, "BFS", {"GODOT_GENERATED_BODY"}) # 0

(* The kind of access a member has, "none" outside classes.                *)
Access(n) ==
    CASE FindAncestor(n, "parents", {"Class"}) = 0 -> "none"
      [] FindPreviousSibling(n, {"AccessSpecifier"}) = 0 -> "private"
      [] OTHER -> "public"
PublicFunctions(n) == SelectSeq(Functions(n), LAMBDA m : Access(m) = "public")
PrivateFunctions(n) == SelectSeq(Functions(n), LAMBDA m : Access(m) = "private")
PublicFields(n) == SelectSeq(Fields(n), LAMBDA m : Access(m) = "public")
PrivateFields(n) == SelectSeq(Fields(n), LAMBDA m : Access(m) = "private")

(* Attribute::resolve_target.  An attribute that applies to what follows   *)
(* it, and that nothing follows, is undefined behaviour: _verify_target    *)
(* asks nullptr what it is.                                                *)
TargetOf(kind) ==
    CASE kind = "GODOT_GENERATED_BODY" -> [where |-> "containing", kinds |-> {"Class"}]
      [] kind = "GODOT_GENERATED_GLOBAL" -> [where |-> "containing", kinds |-> Namespaces]
      [] kind = "GODOT_CLASS" -> [where |-> "next", kinds |-> {"Class"}]
      [] OTHER -> [where |-> "next", kinds |-> {"Function"}]
Dangling(n) == TargetOf(tree[n].kind).where = "next" /\ NextSibling(n) = 0
ResolveTarget(n) ==
    LET target == TargetOf(tree[n].kind)
    IN  IF target.where = "containing" THEN FindParent(n, target.kinds)
        ELSE IF Is(NextSibling(n), target.kinds) THEN NextSibling(n) ELSE 0

(* GenerateTypeDB::generate_from_file: the types it saves, and the types   *)
(* it saves attributes of.                                                 *)
Found == ToSet(FindChildren(1, TRUE, Types \cup Attributes))
SavedTypes == {MangledName(n) : n \in {m \in Found : Is(m, Types)}}
SavedAttributes ==
    {<<MangledName(ResolveTarget(n)), tree[n].of>> :
        n \in {m \in Found : /\ Is(m, Attributes) /\ ~Dangling(m)
                             /\ Is(ResolveTarget(m), Types)}}

(* GodotClassGenerator: the generated header has to be this one.           *)
LastIncludeBefore(n) == FindAncestor(n, "siblings", {"#include"})

(* GeneratorError: the tree below the parent of the node at fault, printed *)
(* with a node a line; the lines from `from' to `to' are shown.            *)
PrettyPrint(n) == <<n>> \o Below(n)
ChildLine(n) ==
    LET before == SelectSeq(Children(Parent(n)), LAMBDA m : m < n)
    IN  1 + FoldLeft(LAMBDA lines, m : lines + Len(PrettyPrint(m)), 1, before)
Excerpt(n) ==
    LET line == ChildLine(n)
        lines == IF Is(n, {"AccessSpecifier", "Literal"}) THEN 1 ELSE DescendantCount(n)
    IN  [at |-> line, from |-> line - Min({line, 3}), to |-> line + lines + 3]

---------------------------------------------------------------------------
(* The same, read off the lines of the header.                             *)
Given == {i \in DOMAIN text : Declares(i)}
AtLine(i) == SelectInSeq(tree, LAMBDA n : n.of = i)
AtLines(lines) == [k \in DOMAIN lines |-> AtLine(lines[k])]
InOrder(lines) == SetToSortSeq(lines, LAMBDA a, b : a < b)
RECURSIVE Around(_)
Around(i) == IF Enclosing(i) = 0 THEN <<>> ELSE Around(Enclosing(i)) \o <<Enclosing(i)>>
Scopes(i) == SelectSeq(Around(i), LAMBDA o : text[o] \in Classes \cup {"namespace"})
Within(c, lines) ==
    InOrder({i \in DOMAIN text : text[i] \in lines /\ Enclosing(i) = c /\ Declares(i)})
Inside(c, lines) ==
    InOrder({i \in DOMAIN text : text[i] \in lines /\ c \in ToSet(Around(i)) /\ Declares(i)})
Parameters(i) == IF text[i] = "template class" THEN 1 ELSE 0
Recorded(i) == <<Scopes(i) \o <<i>>, Parameters(i)>>
FieldLines == {"field", "field = v", "field[n]"}

(* A declaration has the name, the access and the place in the lists that  *)
(* C++ gives it.                                                           *)
NamesAgree(i) ==
    /\ QualifiedName(AtLine(i)) = Scopes(i) \o <<i>>
    /\ NamespacesNames(AtLine(i)) =
         Scopes(i) \o (IF text[i] \in Classes \cup {"namespace"} THEN <<i>> ELSE <<>>)
    /\ NamespacesOf(AtLine(i)) = <<1>> \o AtLines(Scopes(i))
AccessAgrees(i) ==
    text[i] \in FieldLines \cup {"function(p)"} =>
        Access(AtLine(i)) =
            IF \A c \in ToSet(Around(i)) : text[c] \notin Classes THEN "none"
            ELSE IF \E k \in 1 .. i : /\ text[k] = "public:" /\ Enclosing(k) = Enclosing(i)
                                     /\ Declares(k)
                 THEN "public" ELSE "private"
ClassAgrees(c) ==
    LET n == AtLine(c)
    IN  /\ Functions(n) = AtLines(Within(c, {"function(p)"}))
        /\ Fields(n) = AtLines(Within(c, FieldLines))
        /\ ToSet(Functions(n)) = ToSet(PublicFunctions(n)) \cup ToSet(PrivateFunctions(n))
        /\ ToSet(Fields(n)) = ToSet(PublicFields(n)) \cup ToSet(PrivateFields(n))
        /\ ClassesIn(n) = AtLines(Within(c, Classes))
        /\ EnumsIn(n) = AtLines(Within(c, {"enum"}))
        /\ EnumsRecursive(n) = AtLines(Inside(c, {"enum"}))
        /\ ClassAttributes(n) = AtLines(Within(c, Attributes))
        /\ DirectBases(n) = IF text[c] = "class : base" THEN <<FindChain(n, <<"BaseClasses", "Type">>)>>
                            ELSE <<>>
        /\ HasGeneratedBody(n) <=> Inside(c, {"GODOT_GENERATED_BODY"}) # <<>>
        /\ HasGeneratedBody(n) =>
              FindDescendant(n, "DFS", {"GODOT_GENERATED_BODY"}) =
                  AtLine(Head(Inside(c, {"GODOT_GENERATED_BODY"})))
        /\ LastIncludeBefore(n) =
              (LET includes == {i \in DOMAIN text : text[i] = "#include" /\ ~Excluded(i)}
               IN  IF includes = {} THEN 0 ELSE AtLine(Max(includes)))

(* An attribute applies to the declaration that follows it in its block,   *)
(* or to the class it is in.                                               *)
Following(i) ==
    {j \in i + 1 .. Len(text) : Enclosing(j) = Enclosing(i) /\ Declares(j)}
Applies(i) == IF TargetOf(text[i]).where = "containing" THEN Enclosing(i)
              ELSE IF Following(i) = {} THEN 0 ELSE Min(Following(i))
TargetAgrees(i) ==
    Dangling(AtLine(i)) \/ ResolveTarget(AtLine(i)) =
        IF Applies(i) = 0 THEN 1
        ELSE IF Is(AtLine(Applies(i)), TargetOf(text[i]).kinds) THEN AtLine(Applies(i)) ELSE 0

(* An error shows the whole of the node at fault, and points at it.        *)
ExcerptAgrees(n) ==
    LET printed == PrettyPrint(Parent(n))
        shown == Excerpt(n)
    IN  /\ printed[shown.at] = n
        /\ ToSet(PrettyPrint(n)) \subseteq
               {printed[k] : k \in {j \in DOMAIN printed : shown.from <= j /\ j <= shown.to}}

(* Whatever is nested in what, each search of the tree finds what the user *)
(* wrote: members and their access, the scopes in names, the targets of    *)
(* attributes, the last include, and the types recorded in the database    *)
(* (context.h, class.cpp, member.cpp, attribute.cpp, generate_type_db.cpp).*)
SearchesAgree ==
    phase = "bind" /\ Ordinary =>
        LET Of(kinds) == {i \in Given : text[i] \in kinds}
        IN  /\ \A i \in Given : NamesAgree(i) /\ AccessAgrees(i)
            /\ \A c \in Of(Classes) : ClassAgrees(c)
            /\ \A i \in Of(Attributes) : TargetAgrees(i)
            /\ \A i \in Of({"enum"}) :
                  EnumValuesOf(AtLine(i)) = AtLines(Within(i, {"value"}))
            /\ ClassesRecursive(1) = AtLines(InOrder(Of(Classes)))
            /\ SavedTypes =
                  {Recorded(i) : i \in Of(Classes \cup {"enum"})}
                  \cup {<<<<i>>, 0>> :
                           i \in {j \in DOMAIN text : text[j] = "#define" /\ ~Excluded(j)}}
            /\ SavedAttributes =
                  {<<Recorded(Applies(i)), i>> :
                      i \in {j \in Of(Attributes) : /\ Applies(j) # 0
                                                    /\ text[Applies(j)] \in Classes
                                                    /\ Is(AtLine(Applies(j)), TargetOf(text[j]).kinds)}}
            /\ \A n \in 2 .. Size : ExcerptAgrees(n)
=============================================================================
