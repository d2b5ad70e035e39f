----------------------------- MODULE OutputTree -----------------------------
(***************************************************************************)
(* What goc writes is a tree of output nodes that print their children and *)
(* what stands between, before and after them.  A syntax node among them   *)
(* is turned into output nodes when it is printed.  A text is a sequence   *)
(* of words, signs, blanks and newlines.                                   *)
(***************************************************************************)
EXTENDS Strings

---------------------------------------------------------------------------
(* The nodes.                                                              *)

Text(s) == [is |-> "snippet", content |-> s]
ListNode(d, children) ==
    [is |-> "list", delimiter |-> d, before_first |-> FALSE, after_last |-> FALSE,
     children |-> children]
EnclosingNode(b, a, children) ==
    [is |-> "enclosing", before |-> b, after |-> a, children |-> children]
Indent(n, children) == [is |-> "indent", amount |-> n, children |-> children]
ReplaceNode(s, r, children) ==
    [is |-> "replace", search |-> s, replace |-> r, children |-> children]
OutputNodes == {"snippet", "list", "enclosing", "indent", "replace"}

Brackets(children) == EnclosingNode(<<"(">>, <<")">>, children)
Braces(children) == EnclosingNode(<<"{">>, <<"}">>, children)
Chevrons(children) == EnclosingNode(<<"<">>, <<">">>, children)
Lines(children) == ListNode(Newline, children)
Spaces(children) == ListNode(Blank, children)
NoSep(children) == ListNode(<<>>, children)
Params(children) == ListNode(<<",", " ">>, children)
EscapedLines(children) == ReplaceNode(Newline, <<"\\", "\n">>, children)
StringLiteral(s) == Text(<<"\"">> \o s \o <<"\"">>)
Semicolon == Text(<<";">>)
NewLine == Text(Newline)
LineOfCode(children) == NoSep(<<NoSep(children), Semicolon>>)
Assign(name, value) == NoSep(<<Spaces(<<Text(name), Text(<<"=">>), value>>), Semicolon>>)
Return(name) == LineOfCode(<<Spaces(<<Text(<<"return">>), Text(name)>>)>>)
Include(path) == Text(<<"#include", " ", "\"">> \o path \o <<"\"">>)
SystemInclude(path) == Text(<<"#include", " ", "<">> \o path \o <<">">>)
PragmaOnce == Text(<<"#pragma", " ", "once", "\n", "\n">>)
DocComment(content) ==
    EnclosingNode(<<"/**", "\n", "*">>, <<"/">>,
                  <<ReplaceNode(Newline, <<"\n", "*">>, <<Indent(2, <<content>>)>>)>>)
Define(name, params, lines) ==
    Spaces(<<Text(<<"#define">>), NoSep(<<Text(name), Brackets(<<Params(params)>>)>>),
             EscapedLines(lines), NewLine, NewLine>>)

(* The syntax nodes a generator builds.                                    *)
Tree(is, children) == [is |-> is, children |-> children]
Identifier(name) == [is |-> "identifier", name |-> name]
Literal(content) == [is |-> "literal", content |-> content]
Modifier(word) == [is |-> "modifier", word |-> word]
Argument(child) == Tree("argument", <<child>>)
TypeNamed(name) == Tree("type", <<Identifier(name)>>)
If(condition, children) ==
    [ListNode(<<>>, <<Text(<<"if", "(">>), condition, Text(<<")">>), Tree("body", children)>>)
        EXCEPT !.after_last = TRUE]
SeqOfIs(children, is) == SelectSeq(children, LAMBDA c : c.is \in is)

---------------------------------------------------------------------------
(* OutputTransformator.                                                    *)

RECURSIVE Transform(_, _)
None == [is |-> "none"]

AddTransformed(children) ==
    Listed([k \in DOMAIN children |->
        Transform(children[k], IF k = Len(children) THEN None ELSE children[k + 1])])

(* A literal among the children of a field or parameter is its value.      *)
WithValue(children) ==
    LET transformed == AddTransformed(children)
    IN  Joined([k \in DOMAIN children |->
            (IF children[k].is = "literal" THEN <<Text(<<" ", "=", " ">>)>> ELSE <<>>)
            \o <<transformed[k]>>])

TransformBody(body) ==
    NoSep(<<NewLine, Braces(<<NewLine, Indent(2, <<Lines(AddTransformed(body.children))>>)>>)>>)

(* One base: the program ends at a second one.                             *)
TransformClass(class) ==
    LET base == IF class.bases = <<>> THEN <<>>
                ELSE <<Text(<<" ", ":", " ", "public", " ">> \o class.bases[1])>>
    IN  Spaces(<<Text(<<class.specifier>>), Text(class.name)>> \o base
               \o <<Transform(class.body, None), Semicolon>>)

TransformNamespace(namespace) ==
    IF namespace.name = <<>> THEN Lines(AddTransformed(namespace.body.children))
    ELSE Spaces(<<Text(<<"namespace">>), Text(namespace.name), Transform(namespace.body, None)>>)

TransformIdentifier(identifier, next) ==
    IF next.is \in {"parameter", "argument"}
    THEN NoSep(<<Text(identifier.name), Transform(next, None)>>)
    ELSE Text(identifier.name)

Transform(node, next) ==
    CASE node.is = "modifier" -> Text(<<node.word>>)
      [] node.is = "class" -> TransformClass(node)
      [] node.is = "namespace" -> TransformNamespace(node)
      [] node.is = "access" -> Text(<<node.type, ":">>)
      [] node.is = "body" -> TransformBody(node)
      [] node.is = "parameters" ->
             Brackets(<<Params(AddTransformed(SeqOfIs(node.children, {"parameter"})))>>)
      [] node.is = "arguments" -> Brackets(<<Params(AddTransformed(node.children))>>)
      [] node.is = "argument" -> NoSep(AddTransformed(node.children))
      [] node.is \in {"template_parameters", "template_arguments"} ->
             Chevrons(<<Params(AddTransformed(node.children))>>)
      [] node.is = "parameter" -> Spaces(WithValue(node.children))
      [] node.is \in {"type", "function"} -> Spaces(AddTransformed(node.children))
      [] node.is = "identifier" -> TransformIdentifier(node, next)
      [] node.is \in OutputNodes -> node
      [] node.is = "literal" -> Text(node.content)
      [] node.is = "field" -> Spaces(Append(WithValue(node.children), Semicolon))
      [] node.is = "context" -> Lines(AddTransformed(node.children))
      [] OTHER -> Text(<<>>)

---------------------------------------------------------------------------
(* get_output.  An indentation counts the ones it is attached to; a syntax *)
(* node is transformed apart from the tree it stands in.                   *)

RECURSIVE Output(_, _)
OutputOf(child, outer) ==
    IF child.is \in OutputNodes THEN Output(child, outer) ELSE Output(Transform(child, None), 0)
OutputsOf(node, outer) ==
    Listed([k \in DOMAIN node.children |-> OutputOf(node.children[k], outer)])

IndentOutput(node, outer) ==
    LET total == outer + node.amount
        lines == StringSplit(Joined(OutputsOf(node, total)), Newline, FALSE)
    IN  Joined([k \in DOMAIN lines |-> Times(" ", total) \o lines[k] \o Newline])

(* A child that prints nothing, or the delimiter, is not followed by it.   *)
ListOutput(node, outer) ==
    LET printed == OutputsOf(node, outer)
        LastEmpty(k) == k > 1 /\ printed[k - 1] \in {<<>>, node.delimiter}
        Delimited(k) == (k # 1 /\ ~LastEmpty(k)) \/ node.before_first
        Child(k) == (IF Delimited(k) THEN node.delimiter ELSE <<>>) \o printed[k]
    IN  Joined([k \in DOMAIN printed |-> Child(k)])
        \o (IF printed # <<>> /\ node.after_last THEN node.delimiter ELSE <<>>)

(* Mutant: only the first occurrence is replaced.                          *)
ReplaceOutputOnce(node, outer) ==
    LET printed == OutputsOf(node, outer)
        at(k) == Find(printed[k], node.search, 1)
    IN  Joined([k \in DOMAIN printed |->
            IF at(k) = 0 THEN printed[k]
            ELSE SubSeq(printed[k], 1, at(k) - 1) \o node.replace
                 \o From(printed[k], at(k) + Len(node.search))])
ReplaceOutput(node, outer) ==
    LET printed == OutputsOf(node, outer)
    IN  Joined([k \in DOMAIN printed |-> StringReplace(printed[k], node.search, node.replace)])

Output(node, outer) ==
    CASE node.is = "snippet" -> node.content
      [] node.is = "enclosing" -> node.before \o Joined(OutputsOf(node, outer)) \o node.after
      [] node.is = "indent" -> IndentOutput(node, outer)
      [] node.is = "list" -> ListOutput(node, outer)
      [] node.is = "replace" -> ReplaceOutput(node, outer)

GetOutput(node) == OutputOf(node, 0)
=============================================================================
