---------------------------- MODULE CommandLine ----------------------------
(***************************************************************************)
(* The command line of the tool, from its words to the program that runs   *)
(* and the paths it works in.                                              *)
(*                                                                         *)
(* An argument is a member of a list; a list is parsed whenever a part of  *)
(* the tool registers it, each time anew.  A path may start with the alias *)
(* of another path argument, {alias:goc_path}/type_db.  Aliases belong to  *)
(* the process: they are registered as arguments get values, and are never *)
(* removed.  Passes over a list are repeated while one gives an argument   *)
(* its first value.                                                        *)
(*                                                                         *)
(* Not modelled: arguments that any text is good for and nothing depends   *)
(* on (extension_name, module_name), and log_detail, which is like         *)
(* log_level.  A text may be given twice; only the last one counts.  A     *)
(* named text in front of the program hides it from find_program: the      *)
(* words there are count as none.                                          *)
(***************************************************************************)
EXTENDS Naturals, FiniteSets, Sequences, SequencesExt, Functions

CONSTANTS
    CommandLines,   \* the named texts a user may give: a set of functions on some of Named
    WordLists       \* the words before and between them: a set of sequences of words

---------------------------------------------------------------------------
(* The lists and what is said of each argument.                            *)
Lists == [
    Application |-> <<"log_level", "goc_path", "cxx_compiler">>,
    Generator   |-> <<"project_type", "root_path", "include_paths", "type_db_path",
                      "generated_path">>,
    Generate    |-> <<"sources", "generate_flags">>,
    Extension   |-> <<"godot_cpp", "extension_api">>,
    Module      |-> <<"godot_root", "type_db_includes">>,
    Tools       |-> <<"tools_path">>]

Args == UNION {ToSet(Lists[l]) : l \in DOMAIN Lists}
Unnamed == {"tools_path"}
Named == Args \ Unnamed
Required == {"project_type", "root_path", "godot_cpp", "extension_api", "godot_root",
             "type_db_includes"}
Defaulted == {"log_level", "goc_path", "include_paths", "type_db_path", "generated_path",
              "sources"}
Flags == {"log_level", "project_type", "generate_flags"}
Paths == {"goc_path", "cxx_compiler", "root_path", "type_db_path", "generated_path",
          "extension_api", "godot_root"}         \* not those with lists of paths

(* Texts, by what the parsers tell apart.                                  *)
Plain == [form |-> "plain", of |-> ""]           \* a path without an alias, a known flag
Module == [form |-> "module", of |-> ""]         \* the flag Module, for Plain's GDExtension
Unknown == [form |-> "unknown", of |-> ""]       \* a flag of no name
Alias(a) == [form |-> "alias", of |-> a]         \* {alias:a}/...
Bare(a) == [form |-> "bare", of |-> a]           \* {alias:a} and nothing after it
DefaultText(a) ==
    IF a \in {"type_db_path", "generated_path"} THEN Alias("goc_path")
    ELSE [form |-> "default", of |-> ""]

ASSUME CommandLineAssumption ==
    \A c \in CommandLines :
        /\ DOMAIN c \subseteq Named
        /\ \A a \in DOMAIN c : c[a].form \in {"plain", "module", "unknown", "alias", "bare"}
ASSUME WordsAssumption == \A ws \in WordLists : ws \in Seq(ToSet(ws))

Unresolved == "unresolved"      \* the word {alias:?}/x: no path, for it has an unknown alias

(* Programs, and the order of their words in the dictionary.               *)
WordOrder == <<"clear", "generate", "init", "other", "tools", "type_db", Unresolved>>
Rank(w) == SelectInSeq(WordOrder, LAMBDA x : x = w)
Programs == {<<"clear">>, <<"generate">>, <<"generate", "type_db">>, <<"init", "tools">>}
ReadOnly == {<<"init", "tools">>}
NoProgram == <<>>
NoTexts == [a \in {} |-> Plain]

(* A path is where it starts and what follows; a default that was not      *)
(* resolved is its text.                                                   *)
NoValue == <<>>
Text(a) == <<"text", a>>

VARIABLES
    given, words,   \* the command line
    stage,          \* what the process does next
    lists,          \* the lists it parses before that
    value,          \* the value of each argument
    collected,      \* the values of tools_path, which has no name
    alias,          \* LibraryContext::path_aliases
    missing,        \* required arguments without a value
    passes,         \* passes over the first of the lists
    program,        \* what find_program found
    texts, rest,    \* ApplicationContext::arguments: the named ones, and the words
    rounds,         \* times the program registers its lists, from here on
    got             \* the values that were asked for: pairs of an argument and its value

input == <<given, words>>
parsed == <<value, collected, alias, missing, passes, lists>>
chosen == <<program, texts, rest>>
vars == <<input, stage, parsed, chosen, rounds, got>>

Final == {"done", "failed", "panicked", "threw"}
Get(as) == got \cup {<<a, value[a]>> : a \in as}
HaveValues(as) == \A a \in as : value[a] # NoValue

---------------------------------------------------------------------------
(* find_program.                                                           *)

(* std::less of two vectors of words.                                      *)
Before(p, q) ==
    \E i \in 1 .. Len(q) :
        /\ \A j \in 1 .. i - 1 : j <= Len(p) /\ p[j] = q[j]
        /\ i = Len(p) + 1 \/ (i <= Len(p) /\ Rank(p[i]) < Rank(q[i]))

Matching(ws) == {p \in Programs : IsPrefix(p, ws)}

(* Mutant: the first program that matches is kept.                         *)
FoundFirst(ws) ==
    IF Matching(ws) = {} THEN NoProgram
    ELSE CHOOSE p \in Matching(ws) : \A q \in Matching(ws) \ {p} : Before(p, q)

(* The last of the dictionary that matches, whatever its length.           *)
Found(ws) ==
    IF Matching(ws) = {} THEN NoProgram
    ELSE CHOOSE p \in Matching(ws) : \A q \in Matching(ws) \ {p} : Before(q, p)

---------------------------------------------------------------------------
(* Parsing.                                                                *)

(* Mutant: an alias that is not known is a name like others.               *)
ResolvedLiterally(text, a, aliases) ==
    CASE text.form \in {"plain", "module", "default"} -> <<text.form, a>>
      [] text.form = "alias" /\ text.of \in DOMAIN aliases -> Append(aliases[text.of], a)
      [] text.form = "alias" /\ text.of \notin DOMAIN aliases -> <<"plain", a>>
      [] OTHER -> NoValue

(* parse_argument of the parsers: what a text of argument a stands for.    *)
Resolved(text, a, aliases) ==
    CASE text.form \in {"plain", "module", "default"} -> <<text.form, a>>
      [] text.form = "alias" /\ text.of \in DOMAIN aliases -> Append(aliases[text.of], a)
      [] OTHER -> NoValue

(* The default again, now that its alias may be known.                     *)
Reevaluated(v, a, aliases) ==
    LET r == Resolved(DefaultText(a), a, aliases)
    IN  IF v = Text(a) /\ r # NoValue THEN r ELSE v

(* parse_arguments_impl of a named argument: a text that cannot be parsed  *)
(* takes the value away, be it the default.                                *)
Parsed(s, a) ==
    LET v == IF a \in DOMAIN texts THEN Resolved(texts[a], a, s.alias) ELSE s.value[a]
        w == IF a \in Paths THEN Reevaluated(v, a, s.alias) ELSE v
    IN  [value |-> [s.value EXCEPT ![a] = w],
         alias |-> IF a \in Paths /\ w # NoValue
                   THEN [b \in DOMAIN s.alias \cup {a} |-> IF b = a THEN w ELSE s.alias[b]]
                   ELSE s.alias]

(* parse_arguments_impl of an unnamed argument: each word is stored at the *)
(* index after the last that could be.  A word that cannot be parsed drops *)
(* the values but not the index: the next is then written behind the end.  *)
Stored(s, w) ==
    CASE w = Unresolved -> [s EXCEPT !.values = <<>>, !.available = FALSE]
      [] w # Unresolved /\ Len(s.values) >= s.at ->
            [s EXCEPT !.values = Append(SubSeq(@, 1, s.at), w), !.at = @ + 1, !.available = TRUE]
      [] OTHER -> [s EXCEPT !.at = @ + 1, !.available = TRUE, !.outside = TRUE]
Gathered(values) ==
    FoldLeft(Stored, [values |-> values, at |-> 0, available |-> value["tools_path"] # NoValue,
                      outside |-> FALSE], rest)

(* The arguments of list l, one after the other.                           *)
Passed(l) ==
    LET after[i \in 0 .. Len(Lists[l])] ==
            IF i = 0 THEN [value |-> value, alias |-> alias]
            ELSE IF Lists[l][i] \in Named THEN Parsed(after[i - 1], Lists[l][i])
            ELSE after[i - 1]
    IN  after[Len(Lists[l])]

(* A new list: its defaults.                                               *)
Fresh(ls) ==
    LET as == UNION {ToSet(Lists[l]) : l \in ToSet(ls)}
    IN  /\ lists' = ls
        /\ value' = [a \in Args |->
               IF a \notin as THEN value[a] ELSE IF a \in Defaulted THEN Text(a) ELSE NoValue]
        /\ collected' = IF as \cap Unnamed = {} THEN collected ELSE <<>>
        /\ passes' = 0 /\ UNCHANGED <<alias, missing>>

Throws(l) == \E a \in ToSet(Lists[l]) \cap DOMAIN texts : texts[a].form = "bare"

(* Mutant: one pass is enough.                                             *)
NoneAdded(l, before, after) == TRUE

(* Nothing of the list has got its first value.                            *)
Settles(l, before, after) ==
    ~ \E a \in ToSet(Lists[l]) : before[a] = NoValue /\ after[a] # NoValue

(* A pass of CommandLineArgument::parse, and the verdict after the last.   *)
Pass ==
    /\ lists # <<>> /\ stage \notin Final /\ ~Throws(Head(lists))
    /\ LET l == Head(lists)
           s == Passed(l)
           g == Gathered(collected)
           after == IF l # "Tools" THEN s.value
                    ELSE [s.value EXCEPT !["tools_path"] =
                             IF g.available THEN Text("tools_path") ELSE NoValue]
       IN  /\ value' = after /\ alias' = s.alias
           /\ collected' = IF l = "Tools" THEN g.values ELSE collected
           /\ \/ stage' = stage
              \/ l = "Tools" /\ g.outside /\ stage' = "threw"     \* undefined
           /\ IF Settles(l, value, after)
              THEN /\ lists' = Tail(lists) /\ passes' = 0
                   /\ missing' = missing \cup
                        {a \in ToSet(Lists[l]) \cap Required : after[a] = NoValue}
              ELSE passes' = passes + 1 /\ UNCHANGED <<lists, missing>>
    /\ UNCHANGED <<input, chosen, rounds, got>>

(* check_alias takes what follows the slash after the alias: for a text    *)
(* that ends with the alias substr throws, and nothing catches it.         *)
PassThrows ==
    /\ lists # <<>> /\ stage \notin Final /\ Throws(Head(lists))
    /\ stage' = "threw"
    /\ UNCHANGED <<input, parsed, chosen, rounds, got>>

---------------------------------------------------------------------------
(* What the tool does with the lists.                                      *)
At(s) == stage = s /\ lists = <<>>

(* get of an argument without a value: the process ends.                   *)
Panic(as) ==
    /\ ~HaveValues(as)
    /\ stage' = "panicked"
    /\ UNCHANGED <<input, parsed, chosen, rounds, got>>

(* Some list had a required argument without a value.                      *)
Fail ==
    /\ missing # {} /\ stage' = "failed"
    /\ UNCHANGED <<input, parsed, chosen, rounds, got>>

Proceed(as, ls, next) ==
    /\ HaveValues(as) /\ got' = Get(as) /\ Fresh(ls) /\ stage' = next
    /\ UNCHANGED input

Init ==
    /\ given \in CommandLines /\ words \in WordLists
    /\ stage = "run" /\ lists = <<"Application">>
    /\ value = [a \in Args |->
          IF a \in Defaulted /\ a \in ToSet(Lists.Application) THEN Text(a) ELSE NoValue]
    /\ collected = <<>> /\ alias = [a \in {} |-> NoValue] /\ missing = {}
    /\ passes = 0 /\ rounds = 0 /\ got = {}
    /\ program = NoProgram /\ texts = given /\ rest = words

(* Application::run: the lock is in goc_path; then setup_context, which    *)
(* goes on with the arguments find_program left: none without a program.   *)
Run ==
    /\ At("run")
    /\ \/ Panic({"goc_path"})
       \/ /\ Proceed({"goc_path"}, <<"Application">>, "setup")
          /\ program' = Found(words)
          /\ IF program' = NoProgram THEN texts' = NoTexts /\ rest' = <<>>
             ELSE texts' = given /\ rest' = SubSeq(words, Len(program') + 1, Len(words))
          /\ UNCHANGED rounds

(* Without a program there is help, and an error; the list of the          *)
(* application was parsed all the same.                                    *)
Setup ==
    /\ At("setup")
    /\ \/ Panic({"goc_path", "log_level"})
       \/ /\ program = NoProgram
          /\ Proceed({"goc_path", "log_level"}, <<>>, "failed")
          /\ UNCHANGED <<chosen, rounds>>
       \/ /\ program \in ReadOnly
          /\ Proceed({"goc_path", "log_level"}, <<"Tools">>, "own") /\ rounds' = 1
          /\ UNCHANGED chosen
       \/ /\ program \notin ReadOnly /\ program # NoProgram
          /\ Proceed({"goc_path", "log_level"}, <<"Generator">>, "generator")
          /\ UNCHANGED <<chosen, rounds>>

(* The generator's list; a clear, with lists of its own, after an exit     *)
(* that was not graceful.                                                  *)
Generator ==
    /\ At("generator")
    /\ \/ Fail
       \/ /\ missing = {}
          /\ \/ Proceed({}, <<"Generator", "Generator", "Generator">>, "clear")
             \/ Proceed({}, <<>>, "context")
          /\ UNCHANGED <<chosen, rounds>>

Cleared == {"type_db_path", "generated_path"}
ClearFirst ==
    /\ At("clear")
    /\ \/ Panic(Cleared)
       \/ Proceed(Cleared, <<>>, "context") /\ UNCHANGED <<chosen, rounds>>

ContextPaths == {"root_path", "include_paths", "goc_path", "type_db_path", "generated_path"}
Context ==
    /\ At("context")
    /\ \/ Panic(ContextPaths)
       \/ /\ Proceed(ContextPaths, <<>>, "program")
          /\ rounds' = CASE program = <<"generate">> -> 3 [] OTHER -> 1
          /\ UNCHANGED chosen

(* IProgram::run of generate, and again of the two programs it runs.  The  *)
(* lists of one call are parsed in the order the compiler chose for the    *)
(* operands of +.                                                          *)
Register ==
    /\ At("program")
    /\ IF program = <<"clear">> THEN Proceed({}, <<"Generator">>, "own")
       ELSE \E ls \in {<<"Application", "Generator", "Generate">>,
                       <<"Generate", "Generator", "Application">>} : Proceed({}, ls, "base")
    /\ UNCHANGED <<chosen, rounds>>

TypeOf == IF value["project_type"] = <<"module", "project_type">> THEN "Module" ELSE "Extension"
RegisterOwn ==
    /\ At("base")
    /\ IF value["project_type"] # NoValue THEN Proceed({}, <<TypeOf>>, "own")
       ELSE \E ls \in {<<"Extension", "Module">>, <<"Module", "Extension">>} : Proceed({}, ls, "own")
    /\ UNCHANGED <<chosen, rounds>>

Used ==
    CASE program = <<"init", "tools">> -> {"tools_path"}
      [] program = <<"clear">> -> Cleared
      [] OTHER -> {"goc_path", "root_path", "generated_path", "sources"}
                    \cup ToSet(Lists[TypeOf])
Execute ==
    /\ At("own")
    /\ \/ Fail
       \/ missing = {} /\ Panic(Used)
       \/ /\ missing = {} /\ program = <<"init", "tools">> /\ collected = <<>>
          /\ HaveValues(Used) /\ stage' = "panicked"
          /\ UNCHANGED <<input, parsed, chosen, rounds, got>>
       \/ /\ missing = {} /\ (program = <<"init", "tools">> => collected # <<>>)
          /\ rounds' = rounds - 1
          /\ IF rounds > 1 THEN Proceed(Used, <<>>, "program")
             ELSE Proceed(Used, <<"Application">>, "cleanup")
          /\ UNCHANGED chosen

Cleanup ==
    /\ At("cleanup")
    /\ \/ Panic({"goc_path"})
       \/ Proceed({"goc_path"}, <<>>, "done") /\ UNCHANGED <<chosen, rounds>>

Next ==
    \/ Pass \/ PassThrows
    \/ Run \/ Setup \/ Generator \/ ClearFirst \/ Context \/ Register \/ RegisterOwn
    \/ Execute \/ Cleanup
    \/ stage \in Final /\ UNCHANGED vars

Spec == Init /\ [][Next]_vars

---------------------------------------------------------------------------
(* A reference: what the arguments say of a, following aliases to the      *)
(* arguments of list l as deep as there are arguments, and for others      *)
(* taking those that are registered.                                       *)
Reference(l) ==
    LET as == ToSet(Lists[l]) \cap Named
        text(a) == IF a \in DOMAIN texts THEN texts[a] ELSE DefaultText(a)
        means[n \in 0 .. Cardinality(as), a \in as] ==
            CASE a \notin DOMAIN texts /\ a \notin Defaulted -> NoValue
              [] a \notin DOMAIN texts /\ a \notin Paths -> Text(a)
              [] text(a).form \in {"plain", "module", "default"} -> <<text(a).form, a>>
              [] text(a).form = "alias" /\ text(a).of \in as /\ n > 0 ->
                    LET v == means[n - 1, text(a).of]
                    IN  IF v = NoValue \/ text(a).of \notin Paths THEN NoValue ELSE Append(v, a)
              [] text(a).form = "alias" /\ text(a).of \in DOMAIN alias \ as -> Append(alias[text(a).of], a)
              [] OTHER -> NoValue
    IN  [a \in as |-> means[Cardinality(as), a]]

(* Every list, value and stage is of its kind.  Arguments that refer to    *)
(* each other, or to nothing, do not keep the tool from ending: every pass *)
(* but the last gives some argument of the list its first value.           *)
TypeOK ==
    /\ stage \in Final \cup {"run", "setup", "generator", "clear", "context", "program", "base",
                             "own", "cleanup"}
    /\ ToSet(lists) \subseteq DOMAIN Lists /\ missing \subseteq Required
    /\ DOMAIN alias \subseteq Paths /\ \A a \in DOMAIN alias : alias[a] # NoValue
    /\ \A a \in Named : value[a] # NoValue => a \in DOMAIN given \cup Defaulted
    /\ program \in Programs \cup {NoProgram} /\ rounds \in 0 .. 3
    /\ texts = given \/ (program = NoProgram /\ texts = NoTexts)
    /\ passes \in 0 .. IF lists = <<>> THEN 0 ELSE Len(Lists[Head(lists)])

(* The program that runs is the longest that the words begin with, and it  *)
(* is given the words after its name.                                      *)
LongestProgram ==
    stage \notin {"run"} /\ program # NoProgram =>
        /\ \A p \in Matching(words) : Len(p) <= Len(program)
        /\ words = program \o rest

(* When the passes over a list end, its arguments have the values that the *)
(* arguments say which the process goes by (all the user gave, and none    *)
(* once no program was found), in whatever order they refer to each other, *)
(* unless a required one is left out: then the passes may end early, and   *)
(* report more as missing than the user left out.  Unnamed arguments are   *)
(* all there, each once, if all could be parsed.                           *)
Settled ==
    [][lists # <<>> /\ lists' = Tail(lists) /\ stage' = stage =>
          /\ LET r == Reference(Head(lists))
             IN  \/ \A a \in DOMAIN r : value'[a] = r[a]
                 \/ \E a \in DOMAIN r \cap Required : r[a] = NoValue
          /\ Head(lists) = "Tools" /\ Unresolved \notin ToSet(rest) => collected' = rest]_vars

(* Every part of the tool that asks for an argument in one run, the lock,  *)
(* the clear, the program and the end of the run, gets the same value: the *)
(* records are saved where they were loaded from.  Two values there are    *)
(* only without a program, of a run that has ended in an error: setup      *)
(* parsed the defaults, and the lock is where the user said.  And parsing  *)
(* ends.                                                                   *)
SameValues ==
    /\ TypeOK
    /\ \A p, q \in got :
          p[1] = q[1] => p[2] = q[2] \/ (program = NoProgram /\ stage = "failed")
=============================================================================
