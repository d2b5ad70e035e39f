------------------------- MODULE CommandLineProofs -------------------------
(***************************************************************************)
(* The program that runs and the values it is given, for every command     *)
(* line: any texts for the arguments, any words, as many as there are.     *)
(***************************************************************************)
EXTENDS CommandLine, BasicFacts, FiniteSetTheorems

---------------------------------------------------------------------------
(* find_program.                                                           *)
LEMMA PrefixFacts ==
    ASSUME NEW p, p \in Seq(ToSet(p)), NEW ws, ws \in Seq(ToSet(ws)), IsPrefix(p, ws)
    PROVE  /\ \A i \in 1 .. Len(p) : i \in 1 .. Len(ws) /\ ws[i] = p[i]
           /\ ws = p \o SubSeq(ws, Len(p) + 1, Len(ws))
<1> DEFINE S == ToSet(p) \cup ToSet(ws)
<1>1. p \in Seq(S) /\ ws \in Seq(S)
  BY SeqMonotonic
<1> HIDE DEF S
<1>2. Len(p) \in Nat /\ Len(ws) \in Nat /\ Len(p) <= Len(ws)
  BY <1>1 DEF IsPrefix
<1>3. SubSeq(p, 1, Len(p)) = SubSeq(ws, 1, Len(p))
  BY DEF IsPrefix
<1>4. SubSeq(p, 1, Len(p)) = p
  BY <1>1, SubSeqFull
<1>5. \A i \in 1 .. Len(p) : SubSeq(ws, 1, Len(p))[i] = ws[i]
  BY <1>1, <1>2, SubSeqProperties
<1>6. \A i \in 1 .. Len(p) : i \in 1 .. Len(ws) /\ ws[i] = p[i]
  BY <1>2, <1>3, <1>4, <1>5
<1> DEFINE q == SubSeq(ws, Len(p) + 1, Len(ws))
<1>7. /\ q \in Seq(S) /\ Len(q) = Len(ws) - Len(p)
      /\ \A i \in 1 .. Len(q) : q[i] = ws[Len(p) + i]
  BY <1>1, <1>2, SubSeqProperties
<1> HIDE DEF q
<1>8. p \o q \in Seq(S) /\ Len(p \o q) = Len(p) + Len(q)
  BY <1>1, <1>7, ConcatProperties
<1>9. \A i \in 1 .. Len(p) + Len(q) :
          (p \o q)[i] = IF i <= Len(p) THEN p[i] ELSE q[i - Len(p)]
  BY <1>1, <1>7, ConcatProperties
<1>10. Len(ws) = Len(p \o q)
  BY <1>2, <1>7, <1>8
<1>11. \A i \in 1 .. Len(ws) : ws[i] = (p \o q)[i]
  <2>1. TAKE i \in 1 .. Len(ws)
  <2>2. CASE i <= Len(p)
    BY <1>2, <1>6, <1>7, <1>9, <2>2
  <2>3. CASE i > Len(p)
    <3>1. i - Len(p) \in 1 .. Len(q) /\ Len(p) + (i - Len(p)) = i
      BY <1>2, <1>7, <2>3
    <3> QED BY <1>2, <1>7, <1>9, <2>3, <3>1
  <2>4. i <= Len(p) \/ i > Len(p)
    BY <1>2
  <2> QED BY <2>2, <2>3, <2>4, Zenon
<1>12. ws = p \o q
  BY <1>1, <1>8, <1>10, <1>11, SeqEqual
<1> QED
  BY <1>6, <1>12 DEF q

(* Every word has a rank.                                                  *)
LEMMA RankIsNumber == ASSUME NEW w PROVE Rank(w) \in Nat
<1> DEFINE I == {i \in 1 .. Len(WordOrder) : WordOrder[i] = w}
<1>1. I \in SUBSET Nat
  BY DEF WordOrder
<1>2. Rank(w) = IF I # {} THEN Min(I) ELSE 0
  BY DEF Rank, SelectInSeq
<1> HIDE DEF I
<1>3. CASE I # {}
  <2>1. Min(I) \in I
    BY <1>1, <1>3, LeastOf DEF Min
  <2> QED BY <1>1, <1>2, <1>3, <2>1
<1> QED
  BY <1>2, <1>3

(* The programs: one or two words each, and two of them share the first.   *)
LEMMA ProgramFacts ==
    /\ \A p \in Programs : /\ p \in Seq(ToSet(p)) /\ Len(p) \in 1 .. 2
                           /\ p # NoProgram
    /\ \A p, q \in Programs : p[1] = q[1] =>
          \/ p = q
          \/ {p, q} \subseteq {<<"generate">>, <<"generate", "type_db">>}
<1>1. \A p \in Programs : p \in Seq(ToSet(p)) /\ Len(p) \in 1 .. 2 /\ p # NoProgram
  <2>1. \A a : /\ <<a>> \in Seq({a}) /\ Len(<<a>>) \in 1 .. 2 /\ <<a>> # <<>>
    OBVIOUS
  <2>2. \A a, b : <<a, b>> \in Seq({a, b}) /\ Len(<<a, b>>) \in 1 .. 2 /\ <<a, b>> # <<>>
    OBVIOUS
  <2>3. ASSUME NEW a, NEW b
        PROVE  <<a>> \in Seq(ToSet(<<a>>)) /\ <<a, b>> \in Seq(ToSet(<<a, b>>))
    <3>1. <<a>> \in Seq({a}) /\ <<a, b>> \in Seq({a, b})
      BY <2>1, <2>2
    <3> QED BY <3>1, OwnSequence
  <2> QED
    BY <2>1, <2>2, <2>3, Zenon DEF Programs, NoProgram
<1>2. \A p, q \in Programs : p[1] = q[1] =>
          p = q \/ {p, q} \subseteq {<<"generate">>, <<"generate", "type_db">>}
  BY DEF Programs
<1> QED
  BY <1>1, <1>2

(* generate type_db comes after generate in the dictionary.                *)
LEMMA LongerIsLater ==
    /\ Before(<<"generate">>, <<"generate", "type_db">>)
    /\ ~Before(<<"generate", "type_db">>, <<"generate">>)
<1> DEFINE g == <<"generate">>
           t == <<"generate", "type_db">>
<1>1. Len(g) = 1 /\ Len(t) = 2 /\ g[1] = "generate" /\ t[1] = "generate"
  OBVIOUS
<1>2. Rank("generate") \in Nat
  BY RankIsNumber
<1> HIDE DEF g, t
<1>3. Before(g, t)
  <2>1. 2 \in 1 .. Len(t) /\ 2 = Len(g) + 1 /\ \A j \in 1 .. 2 - 1 : j <= Len(g) /\ g[j] = t[j]
    BY <1>1
  <2> QED BY <2>1 DEF Before
<1>4. ~Before(t, g)
  <2>1. SUFFICES ASSUME NEW i \in 1 .. Len(g),
                        i = Len(t) + 1 \/ (i <= Len(t) /\ Rank(t[i]) < Rank(g[i]))
                 PROVE  FALSE
    BY DEF Before
  <2>2. i = 1
    BY <1>1
  <2> QED BY <1>1, <1>2, <2>1, <2>2
<1> QED
  BY <1>3, <1>4 DEF g, t

(* The search ends at a program that matches, and at a longest one.        *)
LEMMA FoundIsLongest ==
    ASSUME NEW ws, ws \in Seq(ToSet(ws)), Matching(ws) # {}
    PROVE  Found(ws) \in Matching(ws) /\ \A p \in Matching(ws) : Len(p) <= Len(Found(ws))
<1> DEFINE g == <<"generate">>
           t == <<"generate", "type_db">>
<1>1. \A p \in Matching(ws) : p \in Programs /\ p[1] = ws[1] /\ Len(p) \in 1 .. 2
  <2>1. TAKE p \in Matching(ws)
  <2>2. p \in Programs /\ IsPrefix(p, ws)
    BY DEF Matching
  <2>3. p \in Seq(ToSet(p)) /\ Len(p) \in 1 .. 2
    BY <2>2, ProgramFacts
  <2>4. 1 \in 1 .. Len(p)
    <3>1. \A n \in 1 .. 2 : 1 \in 1 .. n
      OBVIOUS
    <3> QED BY <2>3, <3>1, Zenon
  <2> QED BY <2>2, <2>3, <2>4, PrefixFacts
<1>2. g # t /\ Len(t) = 2
  OBVIOUS
<1> HIDE DEF g, t
<1>3. \A p, q \in Matching(ws) : p = q \/ {p, q} \subseteq {g, t}
  BY <1>1, ProgramFacts DEF g, t
<1>4. Before(g, t) /\ ~Before(t, g)
  BY LongerIsLater DEF g, t
<1>5. Found(ws) = CHOOSE p \in Matching(ws) : \A q \in Matching(ws) \ {p} : Before(q, p)
  BY DEF Found
<1>6. CASE t \in Matching(ws)
  <2>1. \A q \in Matching(ws) \ {t} : q = g
    BY <1>3, <1>6
  <2>2. \A q \in Matching(ws) \ {t} : Before(q, t)
    BY <1>4, <2>1
  <2>3. \A p \in Matching(ws) : (\A q \in Matching(ws) \ {p} : Before(q, p)) => p = t
    BY <1>4, <1>6, <2>1
  <2>4. Found(ws) = t
    BY <1>5, <1>6, <2>2, <2>3
  <2>5. \A p \in Matching(ws) : Len(p) <= Len(t)
    <3>1. \A n \in 1 .. 2 : n <= 2
      OBVIOUS
    <3> QED BY <1>1, <1>2, <3>1, Zenon
  <2> QED
    BY <1>6, <2>4, <2>5
<1>7. CASE t \notin Matching(ws)
  <2>1. \A p, q \in Matching(ws) : p = q
    BY <1>3, <1>7
  <2>2. PICK p \in Matching(ws) : TRUE
    OBVIOUS
  <2>3. \A q \in Matching(ws) \ {p} : Before(q, p)
    BY <2>1
  <2>4. Found(ws) \in Matching(ws)
    BY <1>5, <2>2, <2>3
  <2> QED
    BY <1>1, <2>1, <2>4
<1> QED
  BY <1>6, <1>7

---------------------------------------------------------------------------
(* The program is what find_program found, from the moment it has run.     *)
ProgramInv ==
    /\ words \in WordLists
    /\ program \in Programs \cup {NoProgram}
    /\ program # NoProgram =>
          program = Found(words) /\ rest = SubSeq(words, Len(program) + 1, Len(words))

(* No program is chosen at the start.                                      *)
LEMMA ProgramInit == Init => ProgramInv
BY DEF Init, ProgramInv

(* find_program is called once: the program, and the arguments it leaves,  *)
(* change in that step only.                                               *)
LEMMA ChosenOnce ==
    ASSUME [Next]_vars
    PROVE  /\ words' = words /\ given' = given
           /\ UNCHANGED chosen \/ (Run /\ ~Panic({"goc_path"}))
<1>1. ASSUME NEW as, Panic(as) PROVE UNCHANGED <<input, chosen>>
  BY <1>1 DEF Panic
<1>2. ASSUME NEW as, NEW ls, NEW next, Proceed(as, ls, next) PROVE UNCHANGED input
  BY <1>2 DEF Proceed
<1>3. CASE Pass
  BY <1>3 DEF Pass, input
<1>4. CASE PassThrows
  BY <1>4 DEF PassThrows, input
<1>5. CASE Run
  BY <1>1, <1>2, <1>5 DEF Run, input
<1>6. CASE Setup
  BY <1>1, <1>2, <1>6 DEF Setup, input
<1>7. CASE Generator
  BY <1>2, <1>7 DEF Generator, Fail, input
<1>8. CASE ClearFirst
  BY <1>1, <1>2, <1>8 DEF ClearFirst, input
<1>9. CASE Context
  BY <1>1, <1>2, <1>9 DEF Context, input
<1>10. CASE Register
  BY <1>2, <1>10 DEF Register, input
<1>11. CASE RegisterOwn
  BY <1>2, <1>11 DEF RegisterOwn, input
<1>12. CASE Execute
  BY <1>1, <1>2, <1>12 DEF Execute, Fail, input
<1>13. CASE Cleanup
  BY <1>1, <1>2, <1>13 DEF Cleanup, input
<1>14. CASE UNCHANGED vars
  BY <1>14 DEF vars, input
<1> QED
  BY <1>3, <1>4, <1>5, <1>6, <1>7, <1>8, <1>9, <1>10, <1>11, <1>12, <1>13, <1>14 DEF Next

(* Every step keeps the choice.                                            *)
LEMMA ProgramStep == ProgramInv /\ [Next]_vars => ProgramInv'
<1> SUFFICES ASSUME ProgramInv, [Next]_vars PROVE ProgramInv'
  OBVIOUS
<1>1. words' = words
  BY ChosenOnce
<1>2. CASE UNCHANGED chosen
  BY <1>1, <1>2 DEF ProgramInv, chosen
<1>3. CASE Run /\ ~Panic({"goc_path"})
  <2>1. /\ program' = Found(words)
        /\ program' # NoProgram => rest' = SubSeq(words, Len(program') + 1, Len(words))
    BY <1>3 DEF Run
  <2>2. words \in Seq(ToSet(words))
    BY WordsAssumption DEF ProgramInv
  <2>3. Found(words) \in Programs \cup {NoProgram}
    <3>1. CASE Matching(words) = {}
      BY <3>1 DEF Found
    <3>2. CASE Matching(words) # {}
      BY <2>2, <3>2, FoundIsLongest DEF Matching
    <3> QED BY <3>1, <3>2
  <2> QED
    BY <1>1, <2>1, <2>3 DEF ProgramInv
<1> QED
  BY <1>2, <1>3, ChosenOnce

(* Application::find_program keeps the last program of the dictionary that *)
(* the words begin with: for the programs of the tool, whatever the words, *)
(* that is the longest, and it is given all words after its name.          *)
THEOREM Longest == Spec => []LongestProgram
<1>1. ProgramInv => LongestProgram
  <2>1. ASSUME ProgramInv, program # NoProgram
        PROVE  (\A p \in Matching(words) : Len(p) <= Len(program)) /\ words = program \o rest
    <3>1. words \in Seq(ToSet(words)) /\ program = Found(words)
      BY <2>1, WordsAssumption DEF ProgramInv
    <3>2. Matching(words) # {}
      BY <2>1, <3>1 DEF Found
    <3>3. program \in Matching(words) /\ \A p \in Matching(words) : Len(p) <= Len(program)
      BY <3>1, <3>2, FoundIsLongest
    <3>4. program \in Seq(ToSet(program)) /\ IsPrefix(program, words)
      BY <3>3, ProgramFacts DEF Matching
    <3>5. words = program \o SubSeq(words, Len(program) + 1, Len(words))
      BY <3>1, <3>4, PrefixFacts
    <3>6. rest = SubSeq(words, Len(program) + 1, Len(words))
      BY <2>1 DEF ProgramInv
    <3> QED
      BY <3>3, <3>5, <3>6, Zenon
  <2> QED BY <2>1 DEF LongestProgram
<1> QED
  BY <1>1, ProgramInit, ProgramStep, PTL DEF Spec

---------------------------------------------------------------------------
(* The values.  What an argument has once its list is parsed is fixed by   *)
(* the command line and by the aliases there are, and those stay.          *)
TextOf(a) == IF a \in DOMAIN given THEN given[a] ELSE DefaultText(a)
Extends(al, more) == DOMAIN al \subseteq DOMAIN more /\ \A a \in DOMAIN al : more[a] = al[a]

AliasesFollow(al) ==
    /\ DOMAIN al \subseteq Paths
    /\ \A a \in DOMAIN al :
          /\ al[a] \in Seq(ToSet(al[a])) /\ Len(al[a]) >= 2
          /\ al[a] = Resolved(TextOf(a), a, al)
          /\ a \in DOMAIN given \cup Defaulted
Fixed(a, v, al) ==
    /\ v # NoValue
    /\ a \in Paths => a \in DOMAIN al /\ v = al[a]
    /\ a \notin Paths /\ a \in DOMAIN given => v = Resolved(given[a], a, al)
    /\ a \notin Paths /\ a \notin DOMAIN given => v = Text(a) /\ a \in Defaulted \cup Unnamed
Ready(a, v, al) == v = NoValue \/ Fixed(a, v, al)
Fresher(a, v, al) == Ready(a, v, al) \/ (a \in Defaulted /\ v = Text(a))

(* What resolve makes of a text, case by case.                             *)
LEMMA ResolvedCases ==
    ASSUME NEW text, NEW a, NEW al, NEW r, r = Resolved(text, a, al)
    PROVE  \/ text.form \in {"plain", "module", "default"} /\ r = <<text.form, a>>
           \/ text.form = "alias" /\ text.of \in DOMAIN al /\ r = Append(al[text.of], a)
           \/ r = NoValue
BY Zenon DEF Resolved

(* Aliases learned later do not change what a text resolves to.            *)
LEMMA ResolvedKept ==
    ASSUME NEW text, NEW a, NEW al, NEW more, Extends(al, more),
           Resolved(text, a, al) # NoValue
    PROVE  Resolved(text, a, more) = Resolved(text, a, al)
<1>1. CASE text.form \in {"plain", "module", "default"}
  BY <1>1 DEF Resolved
<1>2. CASE text.form = "alias" /\ text.of \in DOMAIN al
  BY <1>2 DEF Resolved, Extends
<1> QED
  BY <1>1, <1>2 DEF Resolved

(* Nor the value an argument is fixed to.                                  *)
LEMMA FixedKept ==
    ASSUME NEW a, NEW v, NEW al, NEW more, Extends(al, more), Fixed(a, v, al)
    PROVE  Fixed(a, v, more)
<1>1. a \in Paths => a \in DOMAIN more /\ v = more[a]
  BY DEF Fixed, Extends
<1>2. a \notin Paths /\ a \in DOMAIN given => v = Resolved(given[a], a, more)
  BY ResolvedKept DEF Fixed
<1> QED
  BY <1>1, <1>2 DEF Fixed

(* An argument is fixed to one value.                                      *)
LEMMA FixedIsUnique ==
    ASSUME NEW a, NEW v, NEW u, NEW al, Fixed(a, v, al), Fixed(a, u, al)
    PROVE  v = u
BY DEF Fixed

(* What a text stands for is never the text of a default, nor nothing.     *)
LEMMA ResolvedIsValue ==
    ASSUME NEW text, NEW a, NEW al, AliasesFollow(al), NEW r, r = Resolved(text, a, al),
           r # NoValue
    PROVE  r \in Seq(ToSet(r)) /\ Len(r) >= 2 /\ r # Text(a)
<1>1. CASE text.form \in {"plain", "module", "default"} /\ r = <<text.form, a>>
  <2> DEFINE f == text.form
  <2>1. f \in {"plain", "module", "default"} /\ r = <<f, a>>
    BY <1>1
  <2> HIDE DEF f
  <2>2. f # "text"
    BY <2>1
  <2>3. <<f, a>> \in Seq({f, a}) /\ Len(<<f, a>>) = 2 /\ <<f, a>>[1] = f /\ <<"text", a>>[1] = "text"
    OBVIOUS
  <2>4. <<f, a>> \in Seq(ToSet(<<f, a>>))
    BY <2>3, OwnSequence
  <2> QED
    BY <2>1, <2>2, <2>3, <2>4 DEF Text
<1>2. CASE text.form = "alias" /\ text.of \in DOMAIN al /\ r = Append(al[text.of], a)
  <2> DEFINE s == al[text.of]
  <2>1. s \in Seq(ToSet(s)) /\ Len(s) >= 2
    BY <1>2 DEF AliasesFollow
  <2>2. r = Append(s, a)
    BY <1>2
  <2> HIDE DEF s
  <2>3. r \in Seq(ToSet(r))
    <3>1. Append(s, a) \in Seq(ToSet(Append(s, a)))
      BY <2>1, Appended
    <3> QED BY <2>2, <3>1, Zenon
  <2>4. Len(s) \in Nat
    BY <2>1
  <2>5. Len(r) = Len(s) + 1
    <3>1. Len(Append(s, a)) = Len(s) + 1
      BY <2>1, Appended
    <3> QED BY <2>2, <3>1, Zenon
  <2>6. Len(r) >= 3
    BY <2>1, <2>4, <2>5
  <2>7. \A n : n = 2 => ~(n >= 3)
    OBVIOUS
  <2>8. Len(<<"text", a>>) = 2
    OBVIOUS
  <2>9. r # <<"text", a>>
    BY <2>6, <2>7, <2>8, Zenon
  <2>10. Len(r) >= 2
    BY <2>1, <2>4, <2>5
  <2> QED
    BY <2>3, <2>9, <2>10, Zenon DEF Text
<1> QED
  BY <1>1, <1>2, ResolvedCases

(* parse_arguments_impl: the value it leaves is the one fixed by now, or   *)
(* none; it takes no alias back, and the values of others are not its own. *)
LEMMA ParsedFacts ==
    ASSUME texts = given,
           NEW a \in Named, NEW s, AliasesFollow(s.alias), DOMAIN s.value = Args,
           Fresher(a, s.value[a], s.alias),
           a \in {"type_db_path", "generated_path"} => "goc_path" \in DOMAIN s.alias,
           NEW t, t = Parsed(s, a)
    PROVE  /\ AliasesFollow(t.alias) /\ Extends(s.alias, t.alias) /\ DOMAIN t.value = Args
           /\ \A b \in Args \ {a} : t.value[b] = s.value[b]
           /\ Ready(a, t.value[a], t.alias)
           /\ Fixed(a, s.value[a], s.alias) => t.value[a] # NoValue
<1> DEFINE al == s.alias
           v == IF a \in DOMAIN given THEN Resolved(given[a], a, al) ELSE s.value[a]
           w == IF a \in Paths THEN Reevaluated(v, a, al) ELSE v
           r == Resolved(TextOf(a), a, al)
<1>1. a \in Args
  BY DEF Named
<1>2. /\ t.value = [s.value EXCEPT ![a] = w]
      /\ t.alias = IF a \in Paths /\ w # NoValue
                   THEN [b \in DOMAIN al \cup {a} |-> IF b = a THEN w ELSE al[b]] ELSE al
  BY DEF Parsed
<1>3. t.value[a] = w /\ DOMAIN t.value = Args /\ \A b \in Args \ {a} : t.value[b] = s.value[b]
  BY <1>1, <1>2
<1>4. Text(a) # NoValue
  BY DEF Text, NoValue
<1> HIDE DEF w
<1>5. CASE a \notin Paths
  <2>1. w = v /\ t.alias = al
    BY <1>2, <1>5 DEF w
  <2>2. CASE a \in DOMAIN given
    <3>1. w = Resolved(given[a], a, al)
      BY <2>1, <2>2
    <3>2. Ready(a, w, al) /\ (Fixed(a, s.value[a], al) => w # NoValue)
      BY <1>5, <2>2, <3>1 DEF Ready, Fixed
    <3> QED
      BY <1>3, <2>1, <3>2 DEF Extends
  <2>3. CASE a \notin DOMAIN given
    <3>1. w = s.value[a]
      BY <2>1, <2>3
    <3>2. Ready(a, w, al) /\ (Fixed(a, s.value[a], al) => w # NoValue)
      BY <1>4, <1>5, <2>3, <3>1 DEF Ready, Fixed, Fresher
    <3> QED
      BY <1>3, <2>1, <3>2 DEF Extends
  <2> QED
    BY <2>2, <2>3
<1>6. CASE a \in Paths
  <2>1. /\ w = NoValue \/ w = r
        /\ w # NoValue => a \in DOMAIN given \cup Defaulted
        /\ Fixed(a, s.value[a], al) => w # NoValue
    <3>1. w = Reevaluated(v, a, al)
      BY <1>6 DEF w
    <3>2. Fixed(a, s.value[a], al) =>
              /\ s.value[a] = r /\ s.value[a] # NoValue
              /\ a \in DOMAIN given \cup Defaulted
      BY <1>6 DEF Fixed, AliasesFollow
    <3>3. CASE a \in DOMAIN given
      <4>1. v = r
        BY <3>3 DEF TextOf
      <4>2. v # Text(a)
        BY <1>4, <4>1, ResolvedIsValue
      <4>3. w = v
        BY <3>1, <4>2 DEF Reevaluated
      <4> QED
        BY <3>2, <3>3, <4>1, <4>3
    <3>4. CASE a \notin DOMAIN given
      <4>1. v = s.value[a] /\ r = Resolved(DefaultText(a), a, al)
        BY <3>4 DEF TextOf
      <4>2. CASE s.value[a] = NoValue
        BY <1>4, <3>1, <4>1, <4>2 DEF Reevaluated, Fixed
      <4>3. CASE Fixed(a, s.value[a], al)
        <5>1. v = r /\ v # NoValue /\ v # Text(a)
          BY <3>2, <4>1, <4>3, ResolvedIsValue
        <5>2. w = v
          BY <3>1, <5>1 DEF Reevaluated
        <5> QED
          BY <3>2, <4>3, <5>1, <5>2
      <4>4. CASE a \in Defaulted /\ s.value[a] = Text(a)
        <5>1. r # NoValue
          <6>1. CASE a \in {"type_db_path", "generated_path"}
            <7>1. DefaultText(a).form = "alias" /\ DefaultText(a).of = "goc_path"
              BY <6>1 DEF DefaultText, Alias
            <7>2. r = Append(al["goc_path"], a)
              BY <4>1, <6>1, <7>1 DEF Resolved
            <7>3. al["goc_path"] \in Seq(ToSet(al["goc_path"]))
              BY <6>1 DEF AliasesFollow
            <7>4. Len(Append(al["goc_path"], a)) = Len(al["goc_path"]) + 1
                  /\ Len(al["goc_path"]) \in Nat
              BY <7>3, Appended
            <7>5. Len(NoValue) = 0
              BY DEF NoValue
            <7>6. Len(r) = Len(al["goc_path"]) + 1
              BY <7>2, <7>4, Zenon
            <7>7. Len(r) # 0
              BY <7>4, <7>6
            <7> QED BY <7>5, <7>7, Zenon
          <6>2. CASE a \notin {"type_db_path", "generated_path"}
            <7>1. DefaultText(a).form = "default"
              BY <6>2 DEF DefaultText
            <7>2. r = <<"default", a>>
              BY <4>1, <7>1 DEF Resolved
            <7> QED BY <7>2 DEF NoValue
          <6> QED BY <6>1, <6>2
        <5>2. w = r
          BY <3>1, <4>1, <4>4, <5>1 DEF Reevaluated
        <5> QED
          BY <4>4, <5>1, <5>2
      <4> QED
        BY <4>2, <4>3, <4>4 DEF Fresher, Ready
    <3> QED
      BY <3>3, <3>4
  <2>2. CASE w = NoValue
    BY <1>2, <1>3, <2>1, <2>2 DEF Extends, Ready
  <2>3. CASE w # NoValue
    <3>1. w = r /\ a \in DOMAIN given \cup Defaulted
      BY <2>1, <2>3
    <3>2. t.alias = [b \in DOMAIN al \cup {a} |-> IF b = a THEN w ELSE al[b]]
      BY <1>2, <1>6, <2>3
    <3>3. Extends(al, t.alias)
      <4>1. a \in DOMAIN al => al[a] = w
        BY <3>1 DEF AliasesFollow
      <4> QED BY <3>2, <4>1 DEF Extends
    <3>4. t.alias[a] = w /\ DOMAIN t.alias = DOMAIN al \cup {a}
      BY <3>2
    <3>5. Resolved(TextOf(a), a, t.alias) = w
      BY <2>3, <3>1, <3>3, ResolvedKept
    <3>6. w \in Seq(ToSet(w)) /\ Len(w) >= 2
      BY <2>3, <3>1, ResolvedIsValue
    <3>7. \A b \in DOMAIN al : /\ t.alias[b] = al[b]
                               /\ t.alias[b] = Resolved(TextOf(b), b, t.alias)
      <4>1. TAKE b \in DOMAIN al
      <4>2. t.alias[b] = al[b]
        BY <3>3 DEF Extends
      <4>3. al[b] = Resolved(TextOf(b), b, al) /\ Len(al[b]) >= 2
        BY DEF AliasesFollow
      <4>4. Len(NoValue) = 0
        BY DEF NoValue
      <4>5. al[b] # NoValue
        BY <4>3, <4>4
      <4>6. Resolved(TextOf(b), b, t.alias) = Resolved(TextOf(b), b, al)
        BY <3>3, <4>3, <4>5, ResolvedKept
      <4> QED BY <4>2, <4>3, <4>6
    <3>8. AliasesFollow(t.alias)
      <4> DEFINE more == t.alias
      <4>1. DOMAIN more \subseteq Paths
        BY <1>6, <3>4 DEF AliasesFollow
      <4>2. \A b \in DOMAIN more :
                /\ more[b] \in Seq(ToSet(more[b])) /\ Len(more[b]) >= 2
                /\ more[b] = Resolved(TextOf(b), b, more)
                /\ b \in DOMAIN given \cup Defaulted
        <5>1. TAKE b \in DOMAIN more
        <5>2. CASE b = a
          BY <3>1, <3>4, <3>5, <3>6, <5>2, Zenon
        <5>3. CASE b # a
          <6>1. b \in DOMAIN al
            BY <3>4, <5>3
          <6>2. /\ al[b] \in Seq(ToSet(al[b])) /\ Len(al[b]) >= 2
                /\ b \in DOMAIN given \cup Defaulted
            BY <6>1 DEF AliasesFollow
          <6> QED BY <3>7, <6>1, <6>2, Zenon
        <5> QED BY <5>2, <5>3
      <4> HIDE DEF more
      <4>3. AliasesFollow(more)
        BY <4>1, <4>2 DEF AliasesFollow
      <4> QED BY <4>3 DEF more
    <3>9. Fixed(a, w, t.alias)
      BY <1>6, <2>3, <3>4 DEF Fixed
    <3> QED
      BY <1>3, <2>3, <3>3, <3>8, <3>9 DEF Ready
  <2> QED
    BY <2>2, <2>3
<1> QED
  BY <1>5, <1>6


---------------------------------------------------------------------------
(* The lists.                                                              *)
LEMMA ListFacts ==
    ASSUME NEW l \in DOMAIN Lists
    PROVE  /\ Len(Lists[l]) \in Nat /\ DOMAIN Lists[l] = 1 .. Len(Lists[l])
           /\ \A i \in 1 .. Len(Lists[l]) :
                 /\ Lists[l][i] \in Args
                 /\ l # "Tools" => Lists[l][i] \in Named
                 /\ l = "Application" => Lists[l][i] \notin {"type_db_path", "generated_path"}
           /\ l = "Tools" => Len(Lists[l]) = 1 /\ Lists[l][1] = "tools_path"
<1>1. \A i \in DOMAIN Lists[l] : Lists[l][i] \in Args
  BY DEF Args, ToSet
<1>2. l \in {"Application", "Generator", "Generate", "Extension", "Module", "Tools"}
  BY DEF Lists
<1>3. CASE l = "Application"
  <2>1. Lists[l] = <<"log_level", "goc_path", "cxx_compiler">>
    BY <1>3 DEF Lists
  <2> QED BY <1>1, <1>3, <2>1 DEF Named, Unnamed
<1>4. CASE l = "Generator"
  <2>1. Lists[l] = <<"project_type", "root_path", "include_paths", "type_db_path",
                     "generated_path">>
    BY <1>4 DEF Lists
  <2> QED BY <1>1, <1>4, <2>1 DEF Named, Unnamed
<1>5. CASE l = "Generate"
  <2>1. Lists[l] = <<"sources", "generate_flags">>
    BY <1>5 DEF Lists
  <2> QED BY <1>1, <1>5, <2>1 DEF Named, Unnamed
<1>6. CASE l = "Extension"
  <2>1. Lists[l] = <<"godot_cpp", "extension_api">>
    BY <1>6 DEF Lists
  <2> QED BY <1>1, <1>6, <2>1 DEF Named, Unnamed
<1>7. CASE l = "Module"
  <2>1. Lists[l] = <<"godot_root", "type_db_includes">>
    BY <1>7 DEF Lists
  <2> QED BY <1>1, <1>7, <2>1 DEF Named, Unnamed
<1>8. CASE l = "Tools"
  <2>1. Lists[l] = <<"tools_path">>
    BY <1>8 DEF Lists
  <2> QED BY <1>1, <1>8, <2>1 DEF Named, Unnamed
<1> QED
  BY <1>2, <1>3, <1>4, <1>5, <1>6, <1>7, <1>8

(* The arguments of a list one after the other: by the least number of     *)
(* them for which there is no such sequence of values.                     *)
LEMMA PassedTrace ==
    ASSUME NEW l, Len(Lists[l]) \in Nat
    PROVE  \E f : /\ Passed(l) = f[Len(Lists[l])]
                  /\ f[0] = [value |-> value, alias |-> alias]
                  /\ \A i \in 1 .. Len(Lists[l]) :
                        f[i] = IF Lists[l][i] \in Named THEN Parsed(f[i - 1], Lists[l][i])
                               ELSE f[i - 1]
<1> DEFINE n == Len(Lists[l])
           start == [value |-> value, alias |-> alias]
           step(x, i) == IF Lists[l][i] \in Named THEN Parsed(x, Lists[l][i]) ELSE x
           Trace(m, f) == f = [i \in 0 .. m |-> IF i = 0 THEN start ELSE step(f[i - 1], i)]
           S == {m \in 0 .. n : ~\E f : Trace(m, f)}
<1>1. Passed(l) = (CHOOSE f : Trace(n, f))[n]
  BY DEF Passed
<1> HIDE DEF start, step
<1>2. S = {}
  <2>1. SUFFICES ASSUME S # {} PROVE FALSE
    OBVIOUS
  <2>2. S \in SUBSET Nat
    OBVIOUS
  <2>3. PICK m \in S : \A k \in S : m <= k
    <3> HIDE DEF S
    <3> QED BY <2>1, <2>2, LeastOf
  <2>4. m \in 0 .. n /\ ~\E f : Trace(m, f)
    OBVIOUS
  <2>5. m # 0
    <3> DEFINE f == [i \in 0 .. 0 |-> start]
    <3>1. f = [i \in 0 .. 0 |-> IF i = 0 THEN start ELSE step(f[i - 1], i)]
      OBVIOUS
    <3>2. Trace(0, f)
      BY <3>1
    <3> QED BY <2>4, <3>2
  <2>6. m - 1 \in 0 .. n /\ m - 1 \notin S
    <3>1. n \in Nat /\ m \in 0 .. n
      BY <2>4
    <3> HIDE DEF S, n
    <3>2. m - 1 \in 0 .. n /\ ~(m <= m - 1)
      BY <2>5, <3>1
    <3>3. m - 1 \notin S
      BY <2>3, <3>2
    <3> QED BY <3>2, <3>3
  <2>7. PICK g : Trace(m - 1, g)
    BY <2>6
  <2> DEFINE f == [i \in 0 .. m |-> IF i = m THEN step(g[m - 1], m) ELSE g[i]]
  <2>8. Trace(m, f)
    <3>1. \A i \in 0 .. m : f[i] = IF i = 0 THEN start ELSE step(f[i - 1], i)
      <4>1. TAKE i \in 0 .. m
      <4>2. CASE i = m
        <5>1. f[i] = step(g[m - 1], m) /\ f[i - 1] = g[m - 1]
          BY <2>4, <2>5, <4>2
        <5> QED BY <2>5, <4>2, <5>1
      <4>3. CASE i # m
        <5>1. i \in 0 .. m - 1 /\ f[i] = g[i]
          BY <2>4, <4>3
        <5>2. g[i] = IF i = 0 THEN start ELSE step(g[i - 1], i)
          BY <2>7, <5>1
        <5>3. i # 0 => f[i - 1] = g[i - 1]
          BY <2>4, <5>1
        <5> QED BY <5>1, <5>2, <5>3
      <4> QED BY <4>2, <4>3
    <3>2. DOMAIN f = 0 .. m
      OBVIOUS
    <3>3. f = [i \in DOMAIN f |-> f[i]]
      OBVIOUS
    <3> HIDE DEF f
    <3> QED BY <3>1, <3>2, <3>3
  <2> QED
    BY <2>4, <2>8
<1>3. n \in 0 .. n
  OBVIOUS
<1>4. \E f : Trace(n, f)
  BY <1>2, <1>3
<1> DEFINE f == CHOOSE g : Trace(n, g)
<1>5. Trace(n, f)
  BY <1>4
<1> HIDE DEF f
<1>6. f[0] = start /\ \A i \in 1 .. n : f[i] = step(f[i - 1], i)
  <2>1. \A i \in 0 .. n : f[i] = IF i = 0 THEN start ELSE step(f[i - 1], i)
    BY <1>5
  <2>2. 0 \in 0 .. n /\ \A i \in 1 .. n : i \in 0 .. n /\ i # 0
    OBVIOUS
  <2> QED BY <2>1, <2>2
<1>7. Passed(l) = f[n]
  BY <1>1 DEF f
<1> QED
  BY <1>6, <1>7 DEF start, step

(* A pass over a list readies its arguments and keeps the aliases there    *)
(* are.                                                                    *)
LEMMA PassedFacts ==
    ASSUME texts = given,
           NEW l \in DOMAIN Lists, AliasesFollow(alias), DOMAIN value = Args,
           \A a \in Args : Fresher(a, value[a], alias),
           l # "Application" => "goc_path" \in DOMAIN alias,
           NEW s, s = Passed(l)
    PROVE  /\ AliasesFollow(s.alias) /\ Extends(alias, s.alias) /\ DOMAIN s.value = Args
           /\ \A a \in Args \ ToSet(Lists[l]) : s.value[a] = value[a]
           /\ \A a \in ToSet(Lists[l]) \cap Named :
                 /\ Ready(a, s.value[a], s.alias)
                 /\ Fixed(a, value[a], alias) => s.value[a] # NoValue
           /\ l = "Tools" => s.value = value
<1> DEFINE L == Lists[l]
           n == Len(L)
           seen(i) == {L[j] : j \in 1 .. i} \cap Named
           Good(i, x) ==
              /\ AliasesFollow(x.alias) /\ Extends(alias, x.alias) /\ DOMAIN x.value = Args
              /\ \A a \in Args \ seen(i) : x.value[a] = value[a]
              /\ \A a \in seen(i) :
                    /\ Ready(a, x.value[a], x.alias)
                    /\ Fixed(a, value[a], alias) => x.value[a] # NoValue
              /\ l = "Tools" => x.value = value
<1>1. /\ n \in Nat /\ DOMAIN L = 1 .. n
      /\ \A i \in 1 .. n : L[i] \in Args /\ (l # "Tools" => L[i] \in Named)
      /\ l = "Application" => \A i \in 1 .. n : L[i] \notin {"type_db_path", "generated_path"}
      /\ l = "Tools" => n = 1 /\ L[1] \notin Named
  BY ListFacts DEF Named, Unnamed
<1>2. PICK f : /\ Passed(l) = f[n] /\ f[0] = [value |-> value, alias |-> alias]
               /\ \A i \in 1 .. n : f[i] = IF L[i] \in Named THEN Parsed(f[i - 1], L[i])
                                           ELSE f[i - 1]
  BY <1>1, PassedTrace
<1> HIDE DEF L, n
<1>3. Good(0, f[0])
  <2>1. seen(0) = {}
    OBVIOUS
  <2> QED
    BY <1>2, <2>1 DEF Extends
<1>4. ASSUME NEW i \in 1 .. n, Good(i - 1, f[i - 1]) PROVE Good(i, f[i])
  <2> DEFINE x == f[i - 1]
             y == f[i]
             b == L[i]
  <2>1. seen(i) = seen(i - 1) \cup ({b} \cap Named)
    <3>1. 1 .. i = 1 .. (i - 1) \cup {i}
      BY <1>1
    <3> QED BY <3>1
  <2>2. /\ AliasesFollow(x.alias) /\ Extends(alias, x.alias) /\ DOMAIN x.value = Args
        /\ \A a \in Args \ seen(i - 1) : x.value[a] = value[a]
        /\ \A a \in seen(i - 1) :
              /\ Ready(a, x.value[a], x.alias)
              /\ Fixed(a, value[a], alias) => x.value[a] # NoValue
        /\ l = "Tools" => x.value = value
    BY <1>4
  <2>3. y = IF b \in Named THEN Parsed(x, b) ELSE x
    BY <1>2
  <2>4. l = "Tools" => b \notin Named
    BY <1>1
  <2> HIDE DEF x, y, b
  <2>5. CASE b \notin Named
    <3>1. seen(i) = seen(i - 1) /\ y = x
      BY <2>1, <2>3, <2>5
    <3> HIDE DEF seen
    <3> QED BY <2>2, <3>1 DEF y
  <2>6. CASE b \in Named
    <3>1. y = Parsed(x, b) /\ seen(i) = seen(i - 1) \cup {b} /\ b \in Args /\ l # "Tools"
      BY <2>1, <2>3, <2>4, <2>6 DEF Named
    <3> HIDE DEF seen
    <3>2. Fixed(b, value[b], alias) => Fixed(b, value[b], x.alias)
      BY <2>2, FixedKept
    <3>3. Fresher(b, x.value[b], x.alias)
      <4>1. CASE b \in seen(i - 1)
        BY <2>2, <4>1 DEF Fresher
      <4>2. CASE b \notin seen(i - 1)
        BY <2>2, <3>1, <3>2, <4>2 DEF Fresher, Ready
      <4> QED BY <4>1, <4>2
    <3>4. b \in {"type_db_path", "generated_path"} => "goc_path" \in DOMAIN x.alias
      BY <1>1, <2>2 DEF b, Extends
    <3>5. /\ AliasesFollow(y.alias) /\ Extends(x.alias, y.alias) /\ DOMAIN y.value = Args
          /\ \A a \in Args \ {b} : y.value[a] = x.value[a]
          /\ Ready(b, y.value[b], y.alias)
          /\ Fixed(b, x.value[b], x.alias) => y.value[b] # NoValue
      BY <2>2, <2>6, <3>1, <3>3, <3>4, ParsedFacts
    <3>6. Extends(alias, y.alias)
      BY <2>2, <3>5 DEF Extends
    <3>7. \A a \in Args \ seen(i) : y.value[a] = value[a]
      BY <2>2, <3>1, <3>5
    <3>8. ASSUME NEW a \in seen(i)
          PROVE  /\ Ready(a, y.value[a], y.alias)
                 /\ Fixed(a, value[a], alias) => y.value[a] # NoValue
      <4>1. CASE a = b
        <5>1. Fixed(b, value[b], alias) => Fixed(b, x.value[b], x.alias)
          <6>1. CASE b \in seen(i - 1)
            BY <2>2, <6>1 DEF Ready
          <6>2. CASE b \notin seen(i - 1)
            BY <2>2, <3>1, <3>2, <6>2
          <6> QED BY <6>1, <6>2
        <5> QED BY <3>5, <4>1, <5>1
      <4>2. CASE a # b
        <5>1. a \in seen(i - 1) /\ a \in Args
          BY <3>1, <3>8, <4>2 DEF seen, Named
        <5>2. y.value[a] = x.value[a]
          BY <3>5, <4>2, <5>1
        <5>3. Fixed(a, x.value[a], x.alias) => Fixed(a, x.value[a], y.alias)
          BY <3>5, FixedKept
        <5> QED BY <2>2, <5>1, <5>2, <5>3 DEF Ready
      <4> QED BY <4>1, <4>2
    <3> QED
      BY <3>1, <3>5, <3>6, <3>7, <3>8 DEF y
  <2> QED
    BY <2>5, <2>6
<1> HIDE DEF Good
<1>5. Good(n, f[n])
  <2> DEFINE S == {i \in 0 .. n : ~Good(i, f[i])}
  <2>1. SUFFICES S = {}
    BY <1>1
  <2>2. SUFFICES ASSUME S # {} PROVE FALSE
    OBVIOUS
  <2>3. S \in SUBSET Nat
    OBVIOUS
  <2>4. PICK m \in S : \A k \in S : m <= k
    <3> HIDE DEF S
    <3> QED BY <2>2, <2>3, LeastOf
  <2>5. m \in 1 .. n
    BY <1>1, <1>3
  <2>6. m - 1 \in 0 .. n /\ m - 1 \notin S
    BY <1>1, <2>4, <2>5
  <2>7. Good(m - 1, f[m - 1])
    BY <2>6
  <2> QED
    BY <1>4, <2>5, <2>7
<1>6. seen(n) = ToSet(L) \cap Named
  BY <1>1 DEF ToSet
<1>7. Args \ ToSet(L) \subseteq Args \ seen(n)
  BY <1>6
<1> QED
  BY <1>2, <1>5, <1>6, <1>7 DEF Good, L


---------------------------------------------------------------------------
(* The invariant.  A value is asked for when no list is left to parse: it  *)
(* is then the fixed one.  The passes over a list are no more than the     *)
(* arguments that have a value: from the second pass on they keep it.      *)
Stages == Final \cup {"run", "setup", "generator", "clear", "context", "program", "base",
                      "own", "cleanup"}
Available(l, val) == {i \in 1 .. Len(Lists[l]) : val[Lists[l][i]] # NoValue}

StageInv ==
    /\ given \in CommandLines /\ stage \in Stages /\ rounds \in 0 .. 3
    /\ stage \in {"program", "base", "own"} => rounds # 0
    /\ lists \in Seq(DOMAIN Lists) /\ missing \subseteq Required
    /\ stage = "run" => lists = <<"Application">> \/ lists = <<>>
    /\ stage \notin Final \cup {"run"} => "goc_path" \in DOMAIN alias
Pending(a) == \E l \in ToSet(lists) : a \in ToSet(Lists[l])
ValueInv ==
    /\ DOMAIN value = Args /\ AliasesFollow(alias)
    /\ \A a \in Args : \/ Ready(a, value[a], alias)
                       \/ a \in Defaulted /\ value[a] = Text(a) /\ Pending(a)
PassesInv ==
    /\ passes \in Nat /\ (lists = <<>> => passes = 0)
    /\ lists # <<>> => passes <= Cardinality(Available(Head(lists), value))
    /\ lists # <<>> /\ passes # 0 =>
          \A a \in ToSet(Lists[Head(lists)]) : Ready(a, value[a], alias)
GotInv == \A p \in got : p[1] \in Args /\ Fixed(p[1], p[2], alias)

ArgumentsInv == StageInv /\ ValueInv /\ PassesInv /\ GotInv

(* Some of the arguments there are.                                        *)
LEMMA SomeArguments ==
    {"goc_path", "log_level", "type_db_path", "generated_path", "root_path", "include_paths",
     "sources", "tools_path"} \subseteq Args
<1>1. \A l \in DOMAIN Lists : \A i \in 1 .. Len(Lists[l]) : Lists[l][i] \in Args
  BY ListFacts
<1>2. /\ Lists["Application"] = <<"log_level", "goc_path", "cxx_compiler">>
      /\ Lists["Generator"] = <<"project_type", "root_path", "include_paths", "type_db_path",
                                "generated_path">>
      /\ Lists["Generate"] = <<"sources", "generate_flags">>
      /\ Lists["Tools"] = <<"tools_path">>
      /\ {"Application", "Generator", "Generate", "Tools"} \subseteq DOMAIN Lists
  BY DEF Lists
<1>3. /\ Lists["Application"][1] = "log_level" /\ Lists["Application"][2] = "goc_path"
      /\ Len(Lists["Application"]) = 3
      /\ Lists["Generator"][2] = "root_path" /\ Lists["Generator"][3] = "include_paths"
      /\ Lists["Generator"][4] = "type_db_path" /\ Lists["Generator"][5] = "generated_path"
      /\ Len(Lists["Generator"]) = 5
      /\ Lists["Generate"][1] = "sources" /\ Len(Lists["Generate"]) = 2
      /\ Lists["Tools"][1] = "tools_path" /\ Len(Lists["Tools"]) = 1
  BY <1>2
<1>4. /\ "Application" \in DOMAIN Lists /\ "Generator" \in DOMAIN Lists
      /\ "Generate" \in DOMAIN Lists /\ "Tools" \in DOMAIN Lists
  BY <1>2
<1>5. /\ 1 \in 1 .. 3 /\ 2 \in 1 .. 3 /\ 1 \in 1 .. 2 /\ 1 \in 1 .. 1
      /\ 2 \in 1 .. 5 /\ 3 \in 1 .. 5 /\ 4 \in 1 .. 5 /\ 5 \in 1 .. 5
  OBVIOUS
<1>6. "log_level" \in Args /\ "goc_path" \in Args
  BY <1>1, <1>3, <1>4, <1>5, Zenon
<1>7. "root_path" \in Args /\ "include_paths" \in Args
  BY <1>1, <1>3, <1>4, <1>5, Zenon
<1>8. "type_db_path" \in Args /\ "generated_path" \in Args
  BY <1>1, <1>3, <1>4, <1>5, Zenon
<1>9. "sources" \in Args /\ "tools_path" \in Args
  BY <1>1, <1>3, <1>4, <1>5, Zenon
<1> QED
  BY <1>6, <1>7, <1>8, <1>9

(* What the steps other than a pass do.                                    *)
Ends == UNCHANGED <<input, parsed, chosen, rounds, got>> /\ stage' \in Final \cup {stage}
Goes(as, ls, next) ==
    /\ lists = <<>> /\ Proceed(as, ls, next) /\ stage \notin Final
    /\ as \subseteq Args /\ (stage = "run" => "goc_path" \in as)
    /\ ls \in Seq(DOMAIN Lists) /\ next \in Stages \ {"run"}
    /\ rounds' \in 0 .. 3 /\ (next \in {"program", "base", "own"} => rounds' # 0)

(* A program uses arguments there are.                                     *)
LEMMA UsedAreArguments == Used \subseteq Args
<1>1. TypeOf \in DOMAIN Lists
  BY DEF TypeOf, Lists
<1>2. ToSet(Lists[TypeOf]) \subseteq Args
  BY <1>1 DEF Args
<1> QED
  BY <1>2, SomeArguments DEF Used, Cleared

(* Every step stays, ends the run, or goes on with some arguments and      *)
(* lists.                                                                  *)
LEMMA EveryMove ==
    ASSUME StageInv, [Next]_vars
    PROVE  Pass \/ Ends \/ \E as, ls, next : Goes(as, ls, next)
<1>1. \A as : Panic(as) => Ends
  BY DEF Panic, Ends, Final
<1>2. Fail => Ends
  BY DEF Fail, Ends, Final
<1>3. /\ {"Application", "Generator", "Generate", "Extension", "Module", "Tools"} \subseteq DOMAIN Lists
      /\ rounds \in 0 .. 3
  BY DEF Lists, StageInv
<1>4. \A a, b, c \in DOMAIN Lists : <<>> \in Seq(DOMAIN Lists) /\ <<a>> \in Seq(DOMAIN Lists)
                           /\ <<a, b>> \in Seq(DOMAIN Lists) /\ <<a, b, c>> \in Seq(DOMAIN Lists)
  OBVIOUS
<1>5. /\ <<>> \in Seq(DOMAIN Lists) /\ <<"Application">> \in Seq(DOMAIN Lists)
      /\ <<"Tools">> \in Seq(DOMAIN Lists) /\ <<"Generator">> \in Seq(DOMAIN Lists)
      /\ <<"Generator", "Generator", "Generator">> \in Seq(DOMAIN Lists)
      /\ <<"Application", "Generator", "Generate">> \in Seq(DOMAIN Lists)
      /\ <<"Generate", "Generator", "Application">> \in Seq(DOMAIN Lists)
      /\ <<"Extension", "Module">> \in Seq(DOMAIN Lists)
      /\ <<"Module", "Extension">> \in Seq(DOMAIN Lists)
      /\ <<"Module">> \in Seq(DOMAIN Lists) /\ <<"Extension">> \in Seq(DOMAIN Lists)
  BY <1>3, <1>4
<1>6. /\ {"setup", "failed", "own", "generator", "clear", "context", "program", "base",
          "cleanup", "done"} \subseteq Stages \ {"run"}
      /\ \A s \in {"run", "setup", "generator", "clear", "context", "program", "base", "own",
                   "cleanup"} : s \notin Final
  BY DEF Stages, Final
<1>7. {} \subseteq Args /\ {"goc_path"} \subseteq Args /\ {"goc_path", "log_level"} \subseteq Args
      /\ Cleared \subseteq Args /\ ContextPaths \subseteq Args /\ Used \subseteq Args
  BY SomeArguments, UsedAreArguments DEF Cleared, ContextPaths
<1>8. CASE Run
  <2>1. CASE Panic({"goc_path"})
    BY <1>1, <2>1
  <2>2. CASE ~Panic({"goc_path"})
    <3>1. /\ lists = <<>> /\ stage = "run" /\ rounds' = rounds
          /\ Proceed({"goc_path"}, <<"Application">>, "setup")
      BY <1>8, <2>2 DEF Run, At
    <3>2. Goes({"goc_path"}, <<"Application">>, "setup")
      BY <1>3, <1>5, <1>6, <1>7, <3>1 DEF Goes
    <3> QED BY <3>2
  <2> QED BY <2>1, <2>2
<1>9. CASE Setup
  <2> DEFINE as == {"goc_path", "log_level"}
  <2>1. \/ Panic(as)
        \/ Proceed(as, <<>>, "failed") /\ rounds' = rounds
        \/ Proceed(as, <<"Tools">>, "own") /\ rounds' = 1
        \/ Proceed(as, <<"Generator">>, "generator") /\ rounds' = rounds
    BY <1>9 DEF Setup
  <2>2. lists = <<>> /\ stage = "setup" /\ as \subseteq Args
    BY <1>7, <1>9 DEF Setup, At
  <2> HIDE DEF as
  <2>3. CASE Proceed(as, <<>>, "failed") /\ rounds' = rounds
    <3>1. Goes(as, <<>>, "failed")
      BY <1>3, <1>5, <1>6, <2>2, <2>3 DEF Goes
    <3> QED BY <3>1
  <2>4. CASE Proceed(as, <<"Tools">>, "own") /\ rounds' = 1
    <3>1. rounds' \in 0 .. 3 /\ rounds' # 0
      BY <2>4
    <3>2. "own" \in Stages \ {"run"} /\ stage \notin Final /\ stage # "run"
      BY <1>6, <2>2
    <3>3. Proceed(as, <<"Tools">>, "own") /\ <<"Tools">> \in Seq(DOMAIN Lists)
      BY <1>5, <2>4
    <3> HIDE DEF Stages
    <3>4. Goes(as, <<"Tools">>, "own")
      BY <2>2, <3>1, <3>2, <3>3, Zenon DEF Goes
    <3> QED BY <3>4
  <2>5. CASE Proceed(as, <<"Generator">>, "generator") /\ rounds' = rounds
    <3>1. Goes(as, <<"Generator">>, "generator")
      BY <1>3, <1>5, <1>6, <2>2, <2>5 DEF Goes
    <3> QED BY <3>1
  <2> QED BY <1>1, <2>1, <2>3, <2>4, <2>5
<1>10. CASE Generator
  <2>1. \/ Fail
        \/ Proceed({}, <<"Generator", "Generator", "Generator">>, "clear") /\ rounds' = rounds
        \/ Proceed({}, <<>>, "context") /\ rounds' = rounds
    BY <1>10 DEF Generator
  <2>2. lists = <<>> /\ stage = "generator"
    BY <1>10 DEF Generator, At
  <2>3. Fail \/ Goes({}, <<"Generator", "Generator", "Generator">>, "clear")
        \/ Goes({}, <<>>, "context")
    BY <1>3, <1>5, <1>6, <1>7, <2>1, <2>2 DEF Goes
  <2> QED BY <1>2, <2>3
<1>11. CASE ClearFirst
  <2>1. Panic(Cleared) \/ Goes(Cleared, <<>>, "context")
    BY <1>3, <1>5, <1>6, <1>7, <1>11 DEF Goes, ClearFirst, At
  <2> QED BY <1>1, <2>1
<1>12. CASE Context
  <2>1. \/ Panic(ContextPaths)
        \/ /\ Proceed(ContextPaths, <<>>, "program") /\ lists = <<>> /\ stage = "context"
           /\ rounds' = 1 \/ rounds' = 3
    BY <1>12 DEF Context, At
  <2>2. Panic(ContextPaths) \/ Goes(ContextPaths, <<>>, "program")
    BY <1>3, <1>5, <1>6, <1>7, <2>1 DEF Goes
  <2> QED BY <1>1, <2>2
<1>13. CASE Register
  <2>1. \/ Proceed({}, <<"Generator">>, "own")
        \/ Proceed({}, <<"Application", "Generator", "Generate">>, "base")
        \/ Proceed({}, <<"Generate", "Generator", "Application">>, "base")
    BY <1>13 DEF Register
  <2>2. lists = <<>> /\ stage = "program" /\ rounds' = rounds /\ rounds # 0
    BY <1>13 DEF Register, At, StageInv
  <2>3. \/ Goes({}, <<"Generator">>, "own")
        \/ Goes({}, <<"Application", "Generator", "Generate">>, "base")
        \/ Goes({}, <<"Generate", "Generator", "Application">>, "base")
    BY <1>3, <1>5, <1>6, <1>7, <2>1, <2>2 DEF Goes
  <2> QED BY <2>3
<1>14. CASE RegisterOwn
  <2>1. \/ Proceed({}, <<TypeOf>>, "own")
        \/ Proceed({}, <<"Extension", "Module">>, "own")
        \/ Proceed({}, <<"Module", "Extension">>, "own")
    BY <1>14 DEF RegisterOwn
  <2>2. lists = <<>> /\ stage = "base" /\ rounds' = rounds /\ rounds # 0
    BY <1>14 DEF RegisterOwn, At, StageInv
  <2>3. <<TypeOf>> \in Seq(DOMAIN Lists)
    BY <1>5 DEF TypeOf
  <2>4. \/ Goes({}, <<TypeOf>>, "own")
        \/ Goes({}, <<"Extension", "Module">>, "own")
        \/ Goes({}, <<"Module", "Extension">>, "own")
    BY <1>3, <1>5, <1>6, <1>7, <2>1, <2>2, <2>3 DEF Goes
  <2> QED BY <2>4
<1>15. CASE Execute
  <2>1. \/ Fail \/ Panic(Used)
        \/ stage' = "panicked" /\ UNCHANGED <<input, parsed, chosen, rounds, got>>
        \/ /\ rounds' = rounds - 1
           /\ \/ rounds > 1 /\ Proceed(Used, <<>>, "program")
              \/ Proceed(Used, <<"Application">>, "cleanup")
    BY <1>15 DEF Execute
  <2>2. lists = <<>> /\ stage = "own" /\ rounds # 0
    BY <1>15 DEF Execute, At, StageInv
  <2>3. CASE stage' = "panicked" /\ UNCHANGED <<input, parsed, chosen, rounds, got>>
    BY <2>3 DEF Ends, Final
  <2>4. CASE rounds' = rounds - 1 /\ rounds > 1 /\ Proceed(Used, <<>>, "program")
    <3>1. rounds' \in 0 .. 3 /\ rounds' # 0
      BY <1>3, <2>4
    <3>2. Goes(Used, <<>>, "program")
      BY <1>5, <1>6, <1>7, <2>2, <2>4, <3>1 DEF Goes
    <3> QED BY <3>2
  <2>5. CASE rounds' = rounds - 1 /\ Proceed(Used, <<"Application">>, "cleanup")
    <3>1. rounds' \in 0 .. 3
      BY <1>3, <2>2, <2>5
    <3>2. Goes(Used, <<"Application">>, "cleanup")
      BY <1>5, <1>6, <1>7, <2>2, <2>5, <3>1 DEF Goes
    <3> QED BY <3>2
  <2> QED BY <1>1, <1>2, <2>1, <2>3, <2>4, <2>5
<1>16. CASE Cleanup
  <2>1. Panic({"goc_path"}) \/ Goes({"goc_path"}, <<>>, "done")
    BY <1>3, <1>5, <1>6, <1>7, <1>16 DEF Goes, Cleanup, At
  <2> QED BY <1>1, <2>1
<1>17. CASE PassThrows
  BY <1>17 DEF PassThrows, Ends, Final
<1>18. CASE UNCHANGED vars
  BY <1>18 DEF vars, Ends
<1> QED
  BY <1>8, <1>9, <1>10, <1>11, <1>12, <1>13, <1>14, <1>15, <1>16, <1>17, <1>18 DEF Next


---------------------------------------------------------------------------
(* Counting the arguments of a list that have a value.                     *)
LEMMA AvailableFacts ==
    ASSUME NEW l \in DOMAIN Lists, NEW val
    PROVE  /\ IsFiniteSet(Available(l, val)) /\ Cardinality(Available(l, val)) \in Nat
           /\ Cardinality(Available(l, val)) <= Len(Lists[l])
           /\ Available(l, val) # {} => Cardinality(Available(l, val)) >= 1
<1> DEFINE n == Len(Lists[l])
           A == Available(l, val)
<1>1. n \in Nat /\ A \in SUBSET (1 .. n)
  BY ListFacts DEF Available
<1> HIDE DEF n, A
<1>2. IsFiniteSet(1 .. n) /\ Cardinality(1 .. n) = n
  <2>1. 1 \in Int /\ n \in Int
    BY <1>1
  <2>2. IsFiniteSet(1 .. n) /\ Cardinality(1 .. n) = IF 1 > n THEN 0 ELSE n - 1 + 1
    BY <2>1, FS_Interval
  <2> QED BY <1>1, <2>2
<1>3. IsFiniteSet(A) /\ Cardinality(A) <= n
  BY <1>1, <1>2, FS_Subset
<1>4. Cardinality(A) \in Nat /\ (Cardinality(A) = 0 <=> A = {})
  BY <1>3, FS_CardinalityType, FS_EmptySet
<1>5. A # {} => Cardinality(A) >= 1
  BY <1>4
<1> QED
  BY <1>3, <1>4, <1>5 DEF n, A

(* A pass that takes no value away and gives a first one leaves more.      *)
LEMMA MoreAvailable ==
    ASSUME NEW l \in DOMAIN Lists, NEW before, NEW after,
           \A a \in ToSet(Lists[l]) : before[a] # NoValue => after[a] # NoValue,
           NEW b \in ToSet(Lists[l]), before[b] = NoValue, after[b] # NoValue
    PROVE  Cardinality(Available(l, before)) + 1 <= Cardinality(Available(l, after))
<1> DEFINE A == Available(l, before)
           B == Available(l, after)
<1>1. \A i \in 1 .. Len(Lists[l]) : Lists[l][i] \in ToSet(Lists[l])
  BY ListFacts DEF ToSet
<1>2. PICK k \in 1 .. Len(Lists[l]) : Lists[l][k] = b
  BY ListFacts DEF ToSet
<1>3. A \subseteq B /\ k \in B /\ k \notin A
  BY <1>1, <1>2 DEF Available
<1>4. /\ IsFiniteSet(A) /\ Cardinality(A) \in Nat
      /\ IsFiniteSet(B) /\ Cardinality(B) \in Nat
  BY AvailableFacts
<1> HIDE DEF A, B
<1>5. Cardinality(A) <= Cardinality(B) /\ Cardinality(A) # Cardinality(B)
  BY <1>3, <1>4, FS_Subset
<1>6. Cardinality(A) + 1 <= Cardinality(B)
  BY <1>4, <1>5
<1> QED
  BY <1>6 DEF A, B

---------------------------------------------------------------------------
(* A pass.                                                                 *)
LEMMA InputKept ==
    ASSUME given' = given
    PROVE  /\ AliasesFollow(alias)' <=> AliasesFollow(alias')
           /\ \A a : Ready(a, value[a], alias)' <=> Ready(a, value'[a], alias')
           /\ \A p : Fixed(p[1], p[2], alias)' <=> Fixed(p[1], p[2], alias')
<1>1. AliasesFollow(alias)' <=> AliasesFollow(alias')
  BY DEF AliasesFollow, TextOf
<1>2. \A a : Ready(a, value[a], alias)' <=> Ready(a, value'[a], alias')
  BY DEF Ready, Fixed
<1>3. \A p : Fixed(p[1], p[2], alias)' <=> Fixed(p[1], p[2], alias')
  BY DEF Fixed
<1> QED
  BY <1>1, <1>2, <1>3

(* The first word of a list and the others.                                *)
LEMMA HeadAndTail ==
    ASSUME NEW S, NEW s \in Seq(S), s # <<>>
    PROVE  Head(s) \in S /\ Tail(s) \in Seq(S) /\ ToSet(s) = {Head(s)} \cup ToSet(Tail(s))
<1>1. Head(s) \in S /\ Tail(s) \in Seq(S) /\ Head(s) = s[1]
  BY HeadTailProperties
<1>2. /\ Len(s) \in Nat \ {0} /\ DOMAIN s = 1 .. Len(s)
      /\ Len(Tail(s)) = Len(s) - 1 /\ DOMAIN Tail(s) = 1 .. Len(s) - 1
      /\ \A i \in 1 .. Len(s) - 1 : Tail(s)[i] = s[i + 1]
  BY HeadTailProperties, EmptySeq
<1>3. \A i \in 1 .. Len(s) : s[i] = Head(s) \/ s[i] \in ToSet(Tail(s))
  <2>1. TAKE i \in 1 .. Len(s)
  <2>2. i # 1 => i - 1 \in 1 .. Len(s) - 1 /\ Tail(s)[i - 1] = s[i]
    BY <1>2
  <2> QED BY <1>1, <1>2, <2>2 DEF ToSet
<1>4. \A i \in 1 .. Len(s) - 1 : Tail(s)[i] \in ToSet(s)
  <2>1. \A i \in 1 .. Len(s) - 1 : i + 1 \in DOMAIN s
    BY <1>2
  <2> QED BY <1>2, <2>1 DEF ToSet
<1>5. Head(s) \in ToSet(s)
  <2>1. 1 \in DOMAIN s
    BY <1>2
  <2> QED BY <1>1, <2>1 DEF ToSet
<1>6. ToSet(s) \subseteq {Head(s)} \cup ToSet(Tail(s))
  BY <1>2, <1>3 DEF ToSet
<1>7. ToSet(Tail(s)) \subseteq ToSet(s)
  BY <1>2, <1>4 DEF ToSet
<1> QED
  BY <1>1, <1>5, <1>6, <1>7


(* The invariant holds when the command line is about to be read.          *)
LEMMA InvariantInit == Init => ArgumentsInv
<1> SUFFICES ASSUME Init PROVE ArgumentsInv
  OBVIOUS
<1>1. /\ given \in CommandLines /\ stage = "run" /\ lists = <<"Application">>
      /\ value = [a \in Args |->
            IF a \in Defaulted /\ a \in ToSet(Lists.Application) THEN Text(a) ELSE NoValue]
      /\ DOMAIN alias = {} /\ missing = {} /\ passes = 0 /\ rounds = 0 /\ got = {}
  BY DEF Init
<1>2. "Application" \in DOMAIN Lists
  BY DEF Lists
<1>3. lists \in Seq(DOMAIN Lists) /\ lists # <<>> /\ Head(lists) = "Application"
  BY <1>1, <1>2
<1>4. "Application" \in ToSet(lists)
  BY <1>1, Singleton
<1>5. StageInv
  BY <1>1, <1>3 DEF StageInv, Stages
<1>6. ValueInv
  <2>1. AliasesFollow(alias)
    BY <1>1 DEF AliasesFollow
  <2>2. \A a \in Args : value[a] = NoValue \/ (a \in Defaulted /\ value[a] = Text(a) /\ Pending(a))
    BY <1>1, <1>4 DEF Pending
  <2> QED
    BY <1>1, <2>1, <2>2 DEF ValueInv, Ready
<1>7. PassesInv
  <2>1. 0 <= Cardinality(Available(Head(lists), value))
    BY <1>2, <1>3, AvailableFacts
  <2> QED
    BY <1>1, <1>3, <2>1 DEF PassesInv
<1>8. GotInv
  BY <1>1 DEF GotInv
<1> QED
  BY <1>5, <1>6, <1>7, <1>8 DEF ArgumentsInv

(* A step that changes no argument keeps it.                               *)
LEMMA InvariantPass == texts = given /\ ArgumentsInv /\ Pass => ArgumentsInv'
<1> SUFFICES ASSUME texts = given, ArgumentsInv, Pass PROVE ArgumentsInv'
  OBVIOUS
<1> DEFINE l == Head(lists)
           s == Passed(l)
           g == Gathered(collected)
           after == IF l # "Tools" THEN s.value
                    ELSE [s.value EXCEPT !["tools_path"] =
                             IF g.available THEN Text("tools_path") ELSE NoValue]
<1>1. /\ lists # <<>> /\ stage \notin Final
      /\ value' = after /\ alias' = s.alias /\ (stage' = stage \/ stage' = "threw")
      /\ given' = given /\ rounds' = rounds /\ got' = got
  BY DEF Pass, input
<1>2. \/ /\ Settles(l, value, after) /\ lists' = Tail(lists) /\ passes' = 0
         /\ missing' = missing \cup {a \in ToSet(Lists[l]) \cap Required : after[a] = NoValue}
      \/ /\ ~Settles(l, value, after) /\ passes' = passes + 1
         /\ lists' = lists /\ missing' = missing
  BY DEF Pass
<1>3. /\ lists \in Seq(DOMAIN Lists) /\ l \in DOMAIN Lists /\ Tail(lists) \in Seq(DOMAIN Lists)
      /\ ToSet(lists) = {l} \cup ToSet(Tail(lists))
  BY <1>1, HeadAndTail DEF ArgumentsInv, StageInv
<1>4. l # "Application" => stage # "run" /\ "goc_path" \in DOMAIN alias
  <2>1. Head(<<"Application">>) = "Application"
    OBVIOUS
  <2> QED BY <1>1, <2>1 DEF ArgumentsInv, StageInv
<1>5. /\ DOMAIN value = Args /\ AliasesFollow(alias)
      /\ \A a \in Args : Fresher(a, value[a], alias)
  BY DEF ArgumentsInv, ValueInv, Fresher
<1>6. /\ AliasesFollow(s.alias) /\ Extends(alias, s.alias) /\ DOMAIN s.value = Args
      /\ \A a \in Args \ ToSet(Lists[l]) : s.value[a] = value[a]
      /\ \A a \in ToSet(Lists[l]) \cap Named :
            /\ Ready(a, s.value[a], s.alias)
            /\ Fixed(a, value[a], alias) => s.value[a] # NoValue
      /\ l = "Tools" => s.value = value
  <2> HIDE DEF l
  <2> QED BY <1>3, <1>4, <1>5, PassedFacts
<1>7. /\ l # "Tools" => ToSet(Lists[l]) \subseteq Named
      /\ l = "Tools" => ToSet(Lists[l]) = {"tools_path"}
  <2>1. /\ DOMAIN Lists[l] = 1 .. Len(Lists[l])
        /\ \A i \in 1 .. Len(Lists[l]) : l # "Tools" => Lists[l][i] \in Named
        /\ l = "Tools" => Len(Lists[l]) = 1 /\ Lists[l][1] = "tools_path"
    BY <1>3, ListFacts
  <2>2. 1 .. 1 = {1}
    OBVIOUS
  <2> QED BY <2>1, <2>2 DEF ToSet
<1>8. /\ DOMAIN after = Args
      /\ \A a \in Args \ ToSet(Lists[l]) : after[a] = value[a]
      /\ \A a \in ToSet(Lists[l]) : Ready(a, after[a], s.alias)
      /\ l # "Tools" =>
            \A a \in ToSet(Lists[l]) : Fixed(a, value[a], alias) => after[a] # NoValue
  <2>1. CASE l # "Tools"
    BY <1>6, <1>7, <2>1
  <2>2. CASE l = "Tools"
    <3>1. /\ DOMAIN after = Args /\ \A a \in Args \ {"tools_path"} : after[a] = value[a]
          /\ after["tools_path"] \in {Text("tools_path"), NoValue}
      BY <1>6, <2>2, SomeArguments
    <3>2. "tools_path" \notin Paths /\ "tools_path" \in Unnamed /\ "tools_path" \notin DOMAIN given
      BY CommandLineAssumption DEF Paths, Unnamed, Named, ArgumentsInv, StageInv
    <3>3. Text("tools_path") # NoValue
      BY DEF Text, NoValue
    <3>4. Ready("tools_path", after["tools_path"], s.alias)
      BY <3>1, <3>2, <3>3 DEF Ready, Fixed
    <3> QED
      BY <1>7, <2>2, <3>1, <3>4
  <2> QED BY <2>1, <2>2
<1> HIDE DEF s, after, l
<1>9. StageInv'
  <2>1. stage' \in Stages /\ (stage' \notin Final \cup {"run"} => "goc_path" \in DOMAIN alias')
    <3>1. stage \notin Final \cup {"run"} => "goc_path" \in DOMAIN alias' /\ stage \in Stages
      BY <1>1, <1>6 DEF ArgumentsInv, StageInv, Extends
    <3>2. "threw" \in Final /\ "threw" \in Stages
      BY DEF Final, Stages
    <3>3. stage \in Stages
      BY DEF ArgumentsInv, StageInv
    <3> QED BY <1>1, <3>1, <3>2, <3>3
  <2>2. lists' \in Seq(DOMAIN Lists)
    BY <1>2, <1>3
  <2>3. stage' = "run" => lists' = <<"Application">> \/ lists' = <<>>
    <3>1. Tail(<<"Application">>) = <<>>
      OBVIOUS
    <3> QED BY <1>1, <1>2, <3>1 DEF ArgumentsInv, StageInv
  <2>4. missing' \subseteq Required
    BY <1>2 DEF ArgumentsInv, StageInv
  <2>5. rounds' \in 0 .. 3 /\ (stage' \in {"program", "base", "own"} => rounds' # 0)
    BY <1>1 DEF ArgumentsInv, StageInv
  <2>6. given' \in CommandLines
    BY <1>1 DEF ArgumentsInv, StageInv
  <2> QED BY <2>1, <2>2, <2>3, <2>4, <2>5, <2>6, Zenon DEF StageInv
<1>10. ValueInv'
  <2>1. \A a \in Args : Ready(a, value'[a], alias')
                        \/ (a \in Defaulted /\ value'[a] = Text(a) /\ Pending(a)')
    <3>1. TAKE a \in Args
    <3>2. CASE a \in ToSet(Lists[l])
      BY <1>1, <1>8, <3>2
    <3>3. CASE a \notin ToSet(Lists[l])
      <4>1. value'[a] = value[a]
        BY <1>1, <1>8, <3>3
      <4>2. Pending(a) => Pending(a)'
        BY <1>2, <1>3, <3>3 DEF Pending
      <4>3. Ready(a, value[a], alias) => Ready(a, value[a], alias')
        BY <1>1, <1>6, FixedKept DEF Ready
      <4> QED BY <4>1, <4>2, <4>3 DEF ArgumentsInv, ValueInv
    <3> QED BY <3>2, <3>3
  <2>2. AliasesFollow(alias)' /\ \A a \in Args : Ready(a, value'[a], alias') <=> Ready(a, value[a], alias)'
    BY <1>1, <1>6, InputKept
  <2>3. DOMAIN value' = Args
    BY <1>1, <1>8
  <2> QED
    BY <2>1, <2>2, <2>3 DEF ValueInv
<1>11. PassesInv'
  <2>1. passes \in Nat /\ passes <= Cardinality(Available(l, value))
    BY <1>1 DEF ArgumentsInv, PassesInv, l
  <2>2. CASE Settles(l, value, after)
    <3>1. passes' = 0 /\ lists' = Tail(lists)
      BY <1>2, <2>2
    <3>2. lists' # <<>> => Head(lists') \in DOMAIN Lists
      BY <1>3, <3>1, HeadAndTail
    <3>3. lists' # <<>> => Cardinality(Available(Head(lists'), value')) >= 0
      BY <3>2, AvailableFacts
    <3> QED
      BY <3>1, <3>3 DEF PassesInv, Available
  <2>3. CASE ~Settles(l, value, after)
    <3>1. passes' = passes + 1 /\ lists' = lists
      BY <1>2, <2>3
    <3>2. PICK b \in ToSet(Lists[l]) : value[b] = NoValue /\ after[b] # NoValue
      BY <2>3 DEF Settles
    <3>3. \A a \in ToSet(Lists[l]) : Ready(a, value'[a], alias')
      BY <1>1, <1>8
    <3>4. passes + 1 <= Cardinality(Available(l, after))
      <4>1. CASE passes = 0
        <5>1. \E i \in 1 .. Len(Lists[l]) : Lists[l][i] = b
          BY <1>3, ListFacts DEF ToSet
        <5>2. Available(l, after) # {}
          BY <3>2, <5>1 DEF Available
        <5> QED BY <1>3, <4>1, <5>2, AvailableFacts
      <4>2. CASE passes # 0
        <5>1. \A a \in ToSet(Lists[l]) : Ready(a, value[a], alias)
          BY <1>1, <4>2 DEF ArgumentsInv, PassesInv, l
        <5>2. l # "Tools"
          <6>1. SUFFICES ASSUME l = "Tools" PROVE FALSE
            OBVIOUS
          <6>2. b = "tools_path" /\ \A i \in 1 .. Len(Lists[l]) : Lists[l][i] = b
            BY <1>3, <1>7, <3>2, <6>1, ListFacts DEF ToSet
          <6>3. Available(l, value) = {}
            BY <3>2, <6>2 DEF Available
          <6>4. Cardinality(Available(l, value)) = 0
            BY <6>3, FS_EmptySet
          <6> QED BY <2>1, <4>2, <6>4
        <5>3. \A a \in ToSet(Lists[l]) : value[a] # NoValue => after[a] # NoValue
          BY <1>8, <5>1, <5>2 DEF Ready
        <5>4. Cardinality(Available(l, value)) + 1 <= Cardinality(Available(l, after))
          BY <1>3, <3>2, <5>3, MoreAvailable
        <5>5. Cardinality(Available(l, value)) \in Nat /\ Cardinality(Available(l, after)) \in Nat
          BY <1>3, AvailableFacts
        <5> QED BY <2>1, <5>4, <5>5
      <4> QED BY <4>1, <4>2
    <3>5. Available(Head(lists), value)' = Available(l, after)
      BY <1>1, <3>1 DEF Available, l
    <3>6. \A a : Ready(a, value[a], alias)' <=> Ready(a, value'[a], alias')
      BY <1>1, InputKept
    <3>7. (\A a \in ToSet(Lists[Head(lists)]) : Ready(a, value[a], alias))'
      BY <3>1, <3>3, <3>6 DEF l
    <3>8. passes' \in Nat /\ passes' <= Cardinality(Available(Head(lists), value)')
      BY <2>1, <3>1, <3>4, <3>5
    <3> QED
      BY <1>1, <3>1, <3>7, <3>8 DEF PassesInv
  <2> QED BY <2>2, <2>3
<1>12. GotInv'
  <2>1. \A p \in got : p[1] \in Args /\ Fixed(p[1], p[2], alias')
    BY <1>1, <1>6, FixedKept DEF ArgumentsInv, GotInv
  <2>2. \A p \in got : Fixed(p[1], p[2], alias)'
    BY <1>1, <2>1, InputKept
  <2> QED
    BY <1>1, <2>1, <2>2 DEF GotInv
<1> QED
  BY <1>9, <1>10, <1>11, <1>12 DEF ArgumentsInv


---------------------------------------------------------------------------
(* The other steps.                                                        *)
LEMMA InvariantEnds == ArgumentsInv /\ Ends => ArgumentsInv'
<1> SUFFICES ASSUME ArgumentsInv, Ends PROVE ArgumentsInv'
  OBVIOUS
<1>1. /\ given' = given /\ value' = value /\ alias' = alias /\ missing' = missing
      /\ passes' = passes /\ lists' = lists /\ rounds' = rounds /\ got' = got
      /\ stage' \in Final \cup {stage}
  BY DEF Ends, input, parsed
<1>2. StageInv'
  <2>1. \A f \in Final : f \in Stages /\ f \notin {"run", "program", "base", "own"}
    BY DEF Final, Stages
  <2> QED BY <1>1, <2>1 DEF ArgumentsInv, StageInv
<1>3. ValueInv'
  BY <1>1 DEF ArgumentsInv, ValueInv, AliasesFollow, Ready, Fixed, Pending, TextOf
<1>4. PassesInv'
  BY <1>1 DEF ArgumentsInv, PassesInv, Ready, Fixed, Available
<1>5. GotInv'
  BY <1>1 DEF ArgumentsInv, GotInv, Fixed
<1> QED
  BY <1>2, <1>3, <1>4, <1>5 DEF ArgumentsInv

(* A step that does keeps it too.                                          *)
LEMMA InvariantGoes ==
    ASSUME ArgumentsInv, NEW as, NEW ls, NEW next, Goes(as, ls, next)
    PROVE  ArgumentsInv'
<1> DEFINE fresh == UNION {ToSet(Lists[l]) : l \in ToSet(ls)}
<1>1. /\ lists = <<>> /\ stage \notin Final /\ as \subseteq Args
      /\ (stage = "run" => "goc_path" \in as)
      /\ ls \in Seq(DOMAIN Lists) /\ next \in Stages \ {"run"}
      /\ rounds' \in 0 .. 3 /\ (next \in {"program", "base", "own"} => rounds' # 0)
      /\ \A a \in as : value[a] # NoValue
      /\ got' = got \cup {<<a, value[a]>> : a \in as}
      /\ stage' = next /\ given' = given
      /\ lists' = ls /\ passes' = 0 /\ alias' = alias /\ missing' = missing
      /\ value' = [a \in Args |->
            IF a \notin fresh THEN value[a] ELSE IF a \in Defaulted THEN Text(a) ELSE NoValue]
  BY DEF Goes, Proceed, Fresh, HaveValues, Get, input
<1>2. \A a \in Args : Ready(a, value[a], alias)
  <2>1. ToSet(lists) = {}
    BY <1>1, EmptySequence
  <2> QED BY <2>1 DEF ArgumentsInv, ValueInv, Pending
<1>3. \A a \in as : Fixed(a, value[a], alias)
  BY <1>1, <1>2 DEF Ready
<1>4. ls # <<>> => Head(ls) \in DOMAIN Lists
  BY <1>1, HeadAndTail
<1>5. StageInv'
  <2>1. "goc_path" \in DOMAIN alias
    <3>1. CASE stage = "run"
      <4>1. "goc_path" \in Paths
        BY DEF Paths
      <4> QED BY <1>1, <1>3, <3>1, <4>1 DEF Fixed
    <3>2. CASE stage # "run"
      BY <1>1, <3>2 DEF ArgumentsInv, StageInv
    <3> QED BY <3>1, <3>2
  <2>2. given \in CommandLines /\ missing \subseteq Required
    BY DEF ArgumentsInv, StageInv
  <2>3. next \in Stages /\ next # "run"
    BY <1>1
  <2> HIDE DEF fresh
  <2>4. /\ given' \in CommandLines /\ stage' \in Stages /\ rounds' \in 0 .. 3
        /\ (stage' \in {"program", "base", "own"} => rounds' # 0)
        /\ lists' \in Seq(DOMAIN Lists) /\ missing' \subseteq Required
        /\ stage' # "run" /\ "goc_path" \in DOMAIN alias'
    BY <1>1, <2>1, <2>2, <2>3, Zenon
  <2> QED BY <2>4 DEF StageInv
<1>6. ValueInv'
  <2>1. \A a \in Args : Ready(a, value'[a], alias')
                        \/ (a \in Defaulted /\ value'[a] = Text(a) /\ Pending(a)')
    <3>1. TAKE a \in Args
    <3>2. CASE a \in fresh
      <4>1. Pending(a)'
        BY <1>1, <3>2 DEF Pending
      <4>2. value'[a] = IF a \in Defaulted THEN Text(a) ELSE NoValue
        BY <1>1, <3>2
      <4> QED BY <4>1, <4>2 DEF Ready
    <3>3. CASE a \notin fresh
      <4>1. value'[a] = value[a]
        BY <1>1, <3>3
      <4> QED BY <1>1, <1>2, <4>1
    <3> QED BY <3>2, <3>3
  <2>2. AliasesFollow(alias') /\ DOMAIN value' = Args
    BY <1>1 DEF ArgumentsInv, ValueInv
  <2>3. AliasesFollow(alias)' /\ \A a \in Args : Ready(a, value'[a], alias') <=> Ready(a, value[a], alias)'
    BY <1>1, <2>2, InputKept
  <2> QED
    BY <2>1, <2>2, <2>3 DEF ValueInv
<1>7. PassesInv'
  <2>1. ls # <<>> => Cardinality(Available(Head(ls), value')) >= 0
    BY <1>4, AvailableFacts
  <2> QED
    BY <1>1, <2>1 DEF PassesInv, Available
<1>8. GotInv'
  <2>1. \A p \in got' : p[1] \in Args /\ Fixed(p[1], p[2], alias')
    <3>1. \A p \in got : p[1] \in Args /\ Fixed(p[1], p[2], alias)
      BY DEF ArgumentsInv, GotInv
    <3>2. \A a \in as : <<a, value[a]>>[1] = a /\ <<a, value[a]>>[2] = value[a]
      OBVIOUS
    <3>3. TAKE p \in got'
    <3>4. CASE p \in got
      BY <1>1, <3>1, <3>4
    <3>5. CASE p \notin got
      <4>1. PICK a \in as : p = <<a, value[a]>>
        BY <1>1, <3>5
      <4>2. p[1] = a /\ p[2] = value[a]
        BY <3>2, <4>1
      <4> QED BY <1>1, <1>3, <4>2
    <3> QED BY <3>4, <3>5
  <2>2. \A p \in got' : Fixed(p[1], p[2], alias)'
    BY <1>1, <2>1, InputKept DEF Fixed
  <2> QED
    BY <2>1, <2>2 DEF GotInv
<1> QED
  BY <1>5, <1>6, <1>7, <1>8 DEF ArgumentsInv

(* Without a program: the application's list is parsed once more, from no  *)
(* arguments, and the process ends.  Its one pass gives goc_path the       *)
(* default, whatever the user said.                                        *)
Default(a) == <<"default", a>>
OneValue == \A p, q \in got : p[1] = q[1] => p[2] = q[2]
AliasesKnown == DOMAIN alias \subseteq Paths /\ \A a \in DOMAIN alias : alias[a] # NoValue
ValuesGiven == \A a \in Named : value[a] # NoValue => a \in DOMAIN given \cup Defaulted
HelplessInv ==
    /\ program = NoProgram /\ texts = NoTexts /\ stage \in {"setup", "failed"}
    /\ missing \subseteq Required /\ rounds \in 0 .. 3 /\ passes = 0
    /\ lists = <<>> \/ (lists = <<"Application">> /\ stage = "setup")
    /\ DOMAIN value = Args /\ ValuesGiven /\ AliasesKnown
    /\ value["log_level"] # NoValue /\ value["cxx_compiler"] = NoValue
    /\ value["goc_path"] \in {Text("goc_path"), Default("goc_path")}
    /\ stage = "setup" => OneValue
ToldInv ==
    /\ ArgumentsInv /\ texts = given
    /\ program # NoProgram \/ stage \in Final \cup {"run"}

(* The types that follow from the invariant of the arguments.              *)
LEMMA TypesOfArguments == ArgumentsInv => AliasesKnown /\ ValuesGiven /\ OneValue
<1> SUFFICES ASSUME ArgumentsInv PROVE AliasesKnown /\ ValuesGiven /\ OneValue
  OBVIOUS
<1>1. AliasesKnown
  <2>1. /\ DOMAIN alias \subseteq Paths
        /\ \A a \in DOMAIN alias : alias[a] \in Seq(ToSet(alias[a])) /\ Len(alias[a]) >= 2
    BY DEF ArgumentsInv, ValueInv, AliasesFollow
  <2>2. Len(NoValue) = 0 /\ ~(0 >= 2)
    BY DEF NoValue
  <2> QED BY <2>1, <2>2 DEF AliasesKnown
<1>2. \A a \in Named : value[a] # NoValue => a \in DOMAIN given \cup Defaulted
  <2>1. TAKE a \in Named
  <2>2. a \in Args /\ a \notin Unnamed
    BY DEF Named
  <2>3. a \in Defaulted \/ Ready(a, value[a], alias)
    BY <2>2 DEF ArgumentsInv, ValueInv
  <2>4. Fixed(a, value[a], alias) => a \in DOMAIN given \cup Defaulted
    BY <2>2 DEF Fixed, ArgumentsInv, ValueInv, AliasesFollow
  <2> QED BY <2>3, <2>4 DEF Ready
<1>3. OneValue
  BY FixedIsUnique DEF ArgumentsInv, GotInv, OneValue
<1> QED
  BY <1>1, <1>2, <1>3 DEF ValuesGiven

(* The application's arguments.                                            *)
LEMMA ApplicationArguments ==
    /\ {"log_level", "goc_path", "cxx_compiler"} \subseteq ToSet(Lists["Application"])
    /\ ToSet(Lists["Application"]) \subseteq Args
<1>1. Lists["Application"] = <<"log_level", "goc_path", "cxx_compiler">>
      /\ "Application" \in DOMAIN Lists
  BY DEF Lists
<1>2. ToSet(<<"log_level", "goc_path", "cxx_compiler">>) = {"log_level", "goc_path", "cxx_compiler"}
  BY DEF ToSet
<1> QED
  BY <1>1, <1>2 DEF Args

(* An argument that is not given keeps its value, or its default is        *)
(* evaluated again; if it is a path, its alias is registered.              *)
LEMMA ParsedUngiven ==
    ASSUME texts = NoTexts, NEW t, NEW a \in Args, DOMAIN t.value = Args,
           NEW w, w = IF a \in Paths THEN Reevaluated(t.value[a], a, t.alias) ELSE t.value[a],
           NEW u, u = Parsed(t, a)
    PROVE  /\ DOMAIN u.value = Args /\ u.value[a] = w
           /\ \A b \in Args \ {a} : u.value[b] = t.value[b]
           /\ DOMAIN u.alias \subseteq DOMAIN t.alias \cup (Paths \cap {a})
           /\ \A b \in DOMAIN u.alias :
                 u.alias[b] # NoValue \/ (b \in DOMAIN t.alias /\ u.alias[b] = t.alias[b])
<1>1. a \notin DOMAIN texts
  BY DEF NoTexts
<1>2. /\ u.value = [t.value EXCEPT ![a] = w]
      /\ u.alias = IF a \in Paths /\ w # NoValue
                   THEN [b \in DOMAIN t.alias \cup {a} |-> IF b = a THEN w ELSE t.alias[b]]
                   ELSE t.alias
  BY <1>1 DEF Parsed
<1>3. CASE a \in Paths /\ w # NoValue
  <2>1. u.alias = [b \in DOMAIN t.alias \cup {a} |-> IF b = a THEN w ELSE t.alias[b]]
    BY <1>2, <1>3
  <2> QED BY <1>2, <1>3, <2>1
<1>4. CASE ~(a \in Paths /\ w # NoValue)
  <2>1. u.alias = t.alias
    BY <1>2, <1>4
  <2> QED BY <1>2, <2>1
<1> QED
  BY <1>3, <1>4

(* The pass over the application's list that has no arguments to go by.    *)
LEMMA HelplessPassed ==
    ASSUME texts = NoTexts, DOMAIN value = Args, AliasesKnown,
           value["cxx_compiler"] = NoValue,
           value["goc_path"] \in {Text("goc_path"), Default("goc_path")},
           NEW s, s = Passed("Application")
    PROVE  /\ DOMAIN s.value = Args /\ s.value["goc_path"] = Default("goc_path")
           /\ \A a \in Args \ {"goc_path"} : s.value[a] = value[a]
           /\ DOMAIN s.alias \subseteq Paths /\ \A a \in DOMAIN s.alias : s.alias[a] # NoValue
<1> DEFINE L == Lists["Application"]
<1>1. L = <<"log_level", "goc_path", "cxx_compiler">> /\ "Application" \in DOMAIN Lists
  BY DEF Lists
<1>2. /\ Len(L) = 3 /\ L[1] = "log_level" /\ L[2] = "goc_path" /\ L[3] = "cxx_compiler"
      /\ 1 \in 1 .. 3 /\ 2 \in 1 .. 3 /\ 3 \in 1 .. 3
  BY <1>1
<1>3. \A i \in 1 .. 3 : L[i] \in Named /\ L[i] \in Args
  <2>1. "Application" # "Tools"
    OBVIOUS
  <2> QED BY <1>1, <1>2, <2>1, ListFacts
<1> HIDE DEF L
<1>4. PICK f : /\ Passed("Application") = f[3] /\ f[0] = [value |-> value, alias |-> alias]
               /\ \A i \in 1 .. 3 : f[i] = IF L[i] \in Named THEN Parsed(f[i - 1], L[i])
                                          ELSE f[i - 1]
  <2>1. Len(Lists["Application"]) = 3 /\ Len(Lists["Application"]) \in Nat
    BY <1>2 DEF L
  <2>2. \E f : /\ Passed("Application") = f[Len(Lists["Application"])]
                /\ f[0] = [value |-> value, alias |-> alias]
                /\ \A i \in 1 .. Len(Lists["Application"]) :
                      f[i] = IF Lists["Application"][i] \in Named
                             THEN Parsed(f[i - 1], Lists["Application"][i]) ELSE f[i - 1]
    BY <2>1, PassedTrace
  <2> QED BY <2>1, <2>2 DEF L
<1>5. /\ f[1] = Parsed(f[0], "log_level") /\ f[2] = Parsed(f[1], "goc_path")
      /\ f[3] = Parsed(f[2], "cxx_compiler")
  <2>1. \A i \in 1 .. 3 : f[i] = Parsed(f[i - 1], L[i])
    BY <1>3, <1>4
  <2>2. 1 - 1 = 0 /\ 2 - 1 = 1 /\ 3 - 1 = 2
    OBVIOUS
  <2> QED BY <1>2, <2>1, <2>2
<1>6. {"log_level", "goc_path", "cxx_compiler"} \subseteq Args
  BY <1>2, <1>3
<1>7. /\ "log_level" \notin Paths /\ "goc_path" \in Paths /\ "cxx_compiler" \in Paths
      /\ Text("cxx_compiler") # NoValue
  BY DEF Paths, Text, NoValue
<1> DEFINE Known(x) == DOMAIN x \subseteq Paths /\ \A b \in DOMAIN x : x[b] # NoValue
<1>8. ASSUME NEW t, NEW a, NEW u, Known(t.alias),
             /\ DOMAIN u.alias \subseteq DOMAIN t.alias \cup (Paths \cap {a})
             /\ \A b \in DOMAIN u.alias :
                   u.alias[b] # NoValue \/ (b \in DOMAIN t.alias /\ u.alias[b] = t.alias[b])
      PROVE  Known(u.alias)
  BY <1>8
<1>9. /\ DOMAIN f[0].value = Args /\ \A a \in Args : f[0].value[a] = value[a]
      /\ Known(f[0].alias)
  BY <1>4 DEF AliasesKnown
<1> HIDE DEF Known
<1>10. /\ DOMAIN f[1].value = Args /\ \A a \in Args : f[1].value[a] = value[a]
       /\ Known(f[1].alias)
  <2> DEFINE w == f[0].value["log_level"]
  <2>1. /\ DOMAIN f[1].value = Args /\ f[1].value["log_level"] = w
        /\ \A b \in Args \ {"log_level"} : f[1].value[b] = f[0].value[b]
        /\ DOMAIN f[1].alias \subseteq DOMAIN f[0].alias \cup (Paths \cap {"log_level"})
        /\ \A b \in DOMAIN f[1].alias : f[1].alias[b] # NoValue
              \/ (b \in DOMAIN f[0].alias /\ f[1].alias[b] = f[0].alias[b])
    <3>1. w = IF "log_level" \in Paths THEN Reevaluated(f[0].value["log_level"], "log_level", f[0].alias)
              ELSE f[0].value["log_level"]
      BY <1>7
    <3> HIDE DEF w
    <3> QED BY <1>5, <1>6, <1>9, <3>1, ParsedUngiven
  <2>2. Known(f[1].alias)
    BY <1>8, <1>9, <2>1
  <2> QED BY <1>6, <1>9, <2>1, <2>2
<1>11. /\ DOMAIN f[2].value = Args /\ f[2].value["goc_path"] = Default("goc_path")
       /\ \A a \in Args \ {"goc_path"} : f[2].value[a] = value[a]
       /\ Known(f[2].alias)
  <2> DEFINE w == Default("goc_path")
  <2>1. w = Reevaluated(f[1].value["goc_path"], "goc_path", f[1].alias)
    <3>1. DefaultText("goc_path").form = "default"
      BY DEF DefaultText
    <3>2. Resolved(DefaultText("goc_path"), "goc_path", f[1].alias) = <<"default", "goc_path">>
      BY <3>1 DEF Resolved
    <3>3. <<"default", "goc_path">> # NoValue /\ <<"default", "goc_path">> # <<"text", "goc_path">>
      BY DEF NoValue
    <3>4. f[1].value["goc_path"] \in {Text("goc_path"), Default("goc_path")}
      BY <1>6, <1>10
    <3> QED BY <3>2, <3>3, <3>4 DEF Reevaluated, Default, Text
  <2> HIDE DEF w
  <2>2. /\ DOMAIN f[2].value = Args /\ f[2].value["goc_path"] = w
        /\ \A b \in Args \ {"goc_path"} : f[2].value[b] = f[1].value[b]
        /\ DOMAIN f[2].alias \subseteq DOMAIN f[1].alias \cup (Paths \cap {"goc_path"})
        /\ \A b \in DOMAIN f[2].alias : f[2].alias[b] # NoValue
              \/ (b \in DOMAIN f[1].alias /\ f[2].alias[b] = f[1].alias[b])
    <3>1. w = IF "goc_path" \in Paths THEN Reevaluated(f[1].value["goc_path"], "goc_path", f[1].alias)
              ELSE f[1].value["goc_path"]
      BY <1>7, <2>1
    <3> QED BY <1>5, <1>6, <1>10, <3>1, ParsedUngiven
  <2>3. Known(f[2].alias)
    <3>1. Known(f[1].alias)
      BY <1>10
    <3>2. /\ DOMAIN f[2].alias \subseteq DOMAIN f[1].alias \cup (Paths \cap {"goc_path"})
          /\ \A b \in DOMAIN f[2].alias : f[2].alias[b] # NoValue
                \/ (b \in DOMAIN f[1].alias /\ f[2].alias[b] = f[1].alias[b])
      BY <2>2
    <3> QED BY ONLY <3>1, <3>2 DEF Known
  <2> QED BY <1>10, <2>2, <2>3 DEF w
<1>12. /\ DOMAIN f[3].value = Args /\ f[3].value["goc_path"] = Default("goc_path")
       /\ \A a \in Args \ {"goc_path"} : f[3].value[a] = value[a]
       /\ Known(f[3].alias)
  <2>1. f[2].value["cxx_compiler"] = NoValue /\ "cxx_compiler" # "goc_path"
    BY <1>6, <1>11
  <2>2. NoValue = Reevaluated(f[2].value["cxx_compiler"], "cxx_compiler", f[2].alias)
    BY <1>7, <2>1 DEF Reevaluated
  <2>3. /\ DOMAIN f[3].value = Args /\ f[3].value["cxx_compiler"] = NoValue
        /\ \A b \in Args \ {"cxx_compiler"} : f[3].value[b] = f[2].value[b]
        /\ DOMAIN f[3].alias \subseteq DOMAIN f[2].alias \cup (Paths \cap {"cxx_compiler"})
        /\ \A b \in DOMAIN f[3].alias : f[3].alias[b] # NoValue
              \/ (b \in DOMAIN f[2].alias /\ f[3].alias[b] = f[2].alias[b])
    <3>1. NoValue = IF "cxx_compiler" \in Paths
                    THEN Reevaluated(f[2].value["cxx_compiler"], "cxx_compiler", f[2].alias)
                    ELSE f[2].value["cxx_compiler"]
      BY <1>7, <2>2
    <3> QED BY <1>5, <1>6, <1>11, <3>1, ParsedUngiven
  <2>4. Known(f[3].alias)
    BY <1>8, <1>11, <2>3
  <2> QED BY <1>6, <1>11, <2>1, <2>3, <2>4
<1> QED
  BY <1>4, <1>12 DEF Known

(* A step of a process that has no program.                                *)
LEMMA HelplessStep == HelplessInv /\ [Next]_vars => HelplessInv'
<1> SUFFICES ASSUME HelplessInv, [Next]_vars PROVE HelplessInv'
  OBVIOUS
<1>1. /\ program = NoProgram /\ texts = NoTexts /\ stage \in {"setup", "failed"}
      /\ missing \subseteq Required /\ rounds \in 0 .. 3 /\ passes = 0
      /\ lists = <<>> \/ (lists = <<"Application">> /\ stage = "setup")
      /\ DOMAIN value = Args /\ ValuesGiven /\ AliasesKnown
      /\ value["log_level"] # NoValue /\ value["cxx_compiler"] = NoValue
      /\ value["goc_path"] \in {Text("goc_path"), Default("goc_path")}
      /\ stage = "setup" => OneValue
  BY DEF HelplessInv
<1>2. value["goc_path"] # NoValue /\ Default("goc_path") # NoValue
  BY <1>1 DEF Text, Default, NoValue
<1>3. Pass \/ Setup \/ UNCHANGED vars
  <2>1. stage \notin {"run", "generator", "clear", "context", "program", "base", "own", "cleanup"}
    BY <1>1
  <2>2. ~PassThrows
    <3>1. SUFFICES ASSUME PassThrows PROVE FALSE
      OBVIOUS
    <3>2. Throws(Head(lists))
      BY <3>1 DEF PassThrows
    <3>3. DOMAIN texts = {}
      BY <1>1 DEF NoTexts
    <3> QED BY <3>2, <3>3 DEF Throws
  <2> QED BY <2>1, <2>2 DEF Next, Run, Generator, ClearFirst, Context, Register, RegisterOwn,
                           Execute, Cleanup, At
<1>4. CASE UNCHANGED vars
  BY <1>1, <1>4 DEF HelplessInv, vars, chosen, parsed, input, ValuesGiven, AliasesKnown, OneValue
<1>5. CASE Setup
  <2>1. lists = <<>> /\ stage = "setup"
    BY <1>5 DEF Setup, At
  <2>2. ~Panic({"goc_path", "log_level"})
    BY <1>1, <1>2 DEF Panic, HaveValues
  <2>3. Proceed({"goc_path", "log_level"}, <<>>, "failed") /\ UNCHANGED <<chosen, rounds>>
    <3>1. NoProgram \notin ReadOnly
      BY DEF NoProgram, ReadOnly
    <3> QED BY <1>1, <1>5, <2>2, <3>1 DEF Setup
  <2>4. /\ stage' = "failed" /\ lists' = <<>> /\ passes' = 0 /\ alias' = alias
        /\ missing' = missing /\ given' = given /\ rounds' = rounds
        /\ program' = program /\ texts' = texts
        /\ value' = [a \in Args |-> value[a]]
    <3>1. UNION {ToSet(Lists[l]) : l \in ToSet(<<>>)} = {}
      BY EmptySequence
    <3> QED BY <2>3, <3>1 DEF Proceed, Fresh, input, chosen
  <2>5. {"log_level", "goc_path", "cxx_compiler"} \subseteq Args
    BY ApplicationArguments
  <2>6. DOMAIN value' = Args /\ \A a \in Args : value'[a] = value[a]
    BY <2>4
  <2>7. ValuesGiven' /\ AliasesKnown'
    <3>1. Named \subseteq Args
      BY DEF Named
    <3> QED BY <1>1, <2>4, <2>6, <3>1 DEF ValuesGiven, AliasesKnown
  <2> QED
    BY <1>1, <2>4, <2>5, <2>6, <2>7 DEF HelplessInv
<1>6. CASE Pass
  <2> DEFINE s == Passed("Application")
  <2>1. lists = <<"Application">> /\ stage = "setup" /\ Head(lists) = "Application"
        /\ Tail(lists) = <<>>
    <3>1. lists # <<>>
      BY <1>6 DEF Pass
    <3>2. Head(<<"Application">>) = "Application" /\ Tail(<<"Application">>) = <<>>
      OBVIOUS
    <3> QED BY <1>1, <3>1, <3>2
  <2>2. /\ value' = s.value /\ alias' = s.alias /\ stage' = stage
        /\ given' = given /\ rounds' = rounds /\ got' = got
        /\ program' = program /\ texts' = texts
    <3>1. "Application" # "Tools"
      OBVIOUS
    <3> QED BY <1>6, <2>1, <3>1 DEF Pass, input, chosen
  <2>3. /\ DOMAIN s.value = Args /\ s.value["goc_path"] = Default("goc_path")
        /\ \A a \in Args \ {"goc_path"} : s.value[a] = value[a]
        /\ DOMAIN s.alias \subseteq Paths /\ \A a \in DOMAIN s.alias : s.alias[a] # NoValue
    <3> HIDE DEF s
    <3>1. s = Passed("Application")
      BY DEF s
    <3> QED BY <1>1, <3>1, HelplessPassed
  <2>4. Settles("Application", value, s.value)
    <3>1. SUFFICES ASSUME NEW a \in ToSet(Lists["Application"]), value[a] = NoValue,
                          s.value[a] # NoValue
                   PROVE  FALSE
      BY DEF Settles
    <3>2. a \in Args
      BY ApplicationArguments
    <3> QED BY <1>2, <2>3, <3>1, <3>2
  <2>5. lists' = <<>> /\ passes' = 0
        /\ missing' = missing \cup {a \in ToSet(Lists["Application"]) \cap Required : s.value[a] = NoValue}
    <3>1. "Application" # "Tools"
      OBVIOUS
    <3> QED BY <1>6, <2>1, <2>4, <3>1 DEF Pass
  <2> HIDE DEF s
  <2>6. {"log_level", "goc_path", "cxx_compiler"} \subseteq Args
        /\ "log_level" # "goc_path" /\ "cxx_compiler" # "goc_path"
    BY ApplicationArguments
  <2>7. ValuesGiven' /\ AliasesKnown' /\ OneValue'
    <3>1. \A a \in Named : value'[a] # NoValue => a \in DOMAIN given \cup Defaulted
      <4>1. Named \subseteq Args /\ "goc_path" \in Defaulted
        BY DEF Named, Defaulted
      <4> QED BY <1>1, <2>2, <2>3, <4>1 DEF ValuesGiven
    <3> QED BY <1>1, <2>1, <2>2, <2>3, <3>1 DEF ValuesGiven, AliasesKnown, OneValue
  <2> QED
    BY <1>1, <2>1, <2>2, <2>3, <2>5, <2>6, <2>7 DEF HelplessInv
<1> QED
  BY <1>3, <1>4, <1>5, <1>6

(* find_program found none: from here on there is nothing to go by.        *)
LEMMA HelplessBegins ==
    ASSUME ArgumentsInv, Run, ~Panic({"goc_path"}), program' = NoProgram
    PROVE  HelplessInv'
<1>1. /\ lists = <<>> /\ stage = "run" /\ rounds' = rounds /\ texts' = NoTexts
      /\ Proceed({"goc_path"}, <<"Application">>, "setup")
  BY DEF Run, At
<1>2. Goes({"goc_path"}, <<"Application">>, "setup")
  <2>1. <<"Application">> \in Seq(DOMAIN Lists)
    <3>1. "Application" \in DOMAIN Lists
      BY DEF Lists
    <3> QED BY <3>1
  <2>2. "setup" \in Stages \ {"run"} /\ stage \notin Final
    BY <1>1 DEF Stages, Final
  <2>3. rounds' \in 0 .. 3
    BY <1>1 DEF ArgumentsInv, StageInv
  <2> QED BY <1>1, <2>1, <2>2, <2>3, SomeArguments DEF Goes
<1>3. ArgumentsInv'
  BY <1>2, InvariantGoes
<1>4. AliasesKnown' /\ ValuesGiven' /\ OneValue'
  BY <1>3, TypesOfArguments, PTL
<1>5. /\ lists' = <<"Application">> /\ stage' = "setup" /\ passes' = 0
      /\ value' = [a \in Args |->
            IF a \notin ToSet(Lists["Application"]) THEN value[a]
            ELSE IF a \in Defaulted THEN Text(a) ELSE NoValue]
  <2>1. UNION {ToSet(Lists[l]) : l \in ToSet(<<"Application">>)} = ToSet(Lists["Application"])
    <3>1. ToSet(<<"Application">>) = {"Application"}
      BY Singleton
    <3> QED BY <3>1
  <2> QED BY <1>1, <2>1 DEF Proceed, Fresh
<1>6. /\ DOMAIN value' = Args /\ value'["log_level"] = Text("log_level")
      /\ value'["goc_path"] = Text("goc_path") /\ value'["cxx_compiler"] = NoValue
  <2>1. "log_level" \in Defaulted /\ "goc_path" \in Defaulted /\ "cxx_compiler" \notin Defaulted
    BY DEF Defaulted
  <2> QED BY <1>5, <2>1, ApplicationArguments
<1>7. missing' \subseteq Required /\ rounds' \in 0 .. 3
  BY <1>3 DEF ArgumentsInv, StageInv
<1>8. Text("log_level") # NoValue
  BY DEF Text, NoValue
<1> QED
  BY <1>1, <1>4, <1>5, <1>6, <1>7, <1>8 DEF HelplessInv

(* Every step keeps one of the two.                                        *)
LEMMA InvariantStep == (ToldInv \/ HelplessInv) /\ [Next]_vars => (ToldInv \/ HelplessInv)'
<1> SUFFICES ASSUME ToldInv, [Next]_vars PROVE ToldInv' \/ HelplessInv'
  BY HelplessStep
<1>1. ArgumentsInv /\ texts = given /\ (program # NoProgram \/ stage \in Final \cup {"run"})
  BY DEF ToldInv
<1>2. Pass \/ Ends \/ \E as, ls, next : Goes(as, ls, next)
  BY <1>1, EveryMove DEF ArgumentsInv
<1>3. ArgumentsInv'
  BY <1>1, <1>2, InvariantPass, InvariantEnds, InvariantGoes
<1>4. given' = given /\ (UNCHANGED chosen \/ (Run /\ ~Panic({"goc_path"})))
  BY ChosenOnce
<1>5. CASE Run /\ ~Panic({"goc_path"})
  <2>1. CASE program' = NoProgram
    BY <1>1, <1>5, <2>1, HelplessBegins
  <2>2. CASE program' # NoProgram
    <3>1. texts' = given
      BY <1>5, <2>2 DEF Run
    <3> QED BY <1>3, <1>4, <2>2, <3>1 DEF ToldInv
  <2> QED BY <2>1, <2>2
<1>6. CASE UNCHANGED chosen
  <2>1. program' = program /\ texts' = texts
    BY <1>6 DEF chosen
  <2>2. CASE program # NoProgram
    BY <1>1, <1>3, <1>4, <2>1, <2>2 DEF ToldInv
  <2>3. CASE stage \in Final \cup {"run"} /\ ~(Run /\ ~Panic({"goc_path"}))
    <3>1. stage' \in Final \cup {"run"}
      <4>1. stage \notin {"setup", "generator", "clear", "context", "program", "base", "own",
                           "cleanup"}
        BY <2>3 DEF Final
      <4>2. Pass \/ PassThrows \/ Panic({"goc_path"}) \/ UNCHANGED vars
        BY <2>3, <4>1 DEF Next, Run, Setup, Generator, ClearFirst, Context, Register, RegisterOwn,
                          Execute, Cleanup, At
      <4> QED BY <2>3, <4>2 DEF Pass, PassThrows, Panic, vars, Final
    <3> QED BY <1>1, <1>3, <1>4, <2>1, <3>1 DEF ToldInv
  <2> QED BY <1>1, <1>5, <2>2, <2>3
<1> QED
  BY <1>4, <1>5, <1>6

(* The types are part of the invariants.                                   *)
LEMMA TypeFollows == (ToldInv \/ HelplessInv) /\ ProgramInv => TypeOK
<1> SUFFICES ASSUME ToldInv \/ HelplessInv, ProgramInv PROVE TypeOK
  OBVIOUS
<1>1. program \in Programs \cup {NoProgram}
  BY DEF ProgramInv
<1>2. CASE HelplessInv
  <2>1. stage \in {"setup", "failed"} /\ missing \subseteq Required /\ rounds \in 0 .. 3
        /\ passes = 0 /\ ValuesGiven /\ AliasesKnown /\ program = NoProgram /\ texts = NoTexts
        /\ lists \in {<<>>, <<"Application">>}
    BY <1>2 DEF HelplessInv
  <2>2. ToSet(lists) \subseteq DOMAIN Lists
    <3>1. ToSet(<<>>) = {} /\ ToSet(<<"Application">>) = {"Application"}
      BY EmptySequence, Singleton
    <3>2. "Application" \in DOMAIN Lists
      BY DEF Lists
    <3> QED BY <2>1, <3>1, <3>2
  <2>3. passes \in 0 .. IF lists = <<>> THEN 0 ELSE Len(Lists[Head(lists)])
    <3>1. Head(<<"Application">>) = "Application" /\ Len(Lists["Application"]) = 3
      BY DEF Lists
    <3> QED BY <2>1, <3>1
  <2> QED
    BY <1>1, <2>1, <2>2, <2>3 DEF TypeOK, Final, ValuesGiven, AliasesKnown
<1>3. CASE ToldInv
  <2>1. stage \in Stages /\ lists \in Seq(DOMAIN Lists) /\ missing \subseteq Required
        /\ rounds \in 0 .. 3 /\ texts = given /\ ArgumentsInv
    BY <1>3 DEF ToldInv, ArgumentsInv, StageInv
  <2>2. ToSet(lists) \subseteq DOMAIN Lists
    BY <2>1, OwnSequence
  <2>3. AliasesKnown /\ ValuesGiven
    BY <2>1, TypesOfArguments
  <2>4. passes \in 0 .. IF lists = <<>> THEN 0 ELSE Len(Lists[Head(lists)])
    <3>1. CASE lists = <<>>
      BY <2>1, <3>1 DEF ArgumentsInv, PassesInv
    <3>2. CASE lists # <<>>
      <4> DEFINE l == Head(lists)
      <4>1. l \in DOMAIN Lists
        BY <2>1, <3>2, HeadAndTail
      <4>2. passes \in Nat /\ passes <= Cardinality(Available(l, value))
        BY <2>1, <3>2 DEF ArgumentsInv, PassesInv
      <4> HIDE DEF l
      <4>3. /\ Cardinality(Available(l, value)) \in Nat /\ Len(Lists[l]) \in Nat
            /\ Cardinality(Available(l, value)) <= Len(Lists[l])
        BY <4>1, AvailableFacts, ListFacts
      <4>4. passes \in 0 .. Len(Lists[l])
        BY <4>2, <4>3
      <4> QED BY <3>2, <4>4 DEF l
    <3> QED BY <3>1, <3>2
  <2> QED
    BY <1>1, <2>1, <2>2, <2>3, <2>4 DEF TypeOK, Stages, ValuesGiven, AliasesKnown
<1> QED
  BY <1>2, <1>3

(* CommandLineArgument::parse and the aliases of LibraryContext: whatever  *)
(* the command line says, the parts of the tool that ask for an argument   *)
(* in one run get one value, though each registers its list anew, unless   *)
(* the run has ended because no program was found; and the passes over a   *)
(* list are no more than its arguments.                                    *)
THEOREM Same == Spec => []SameValues
<1>1. (ToldInv \/ HelplessInv) /\ ProgramInv => SameValues
  <2>1. ToldInv => OneValue
    BY TypesOfArguments DEF ToldInv
  <2>2. HelplessInv => OneValue \/ (program = NoProgram /\ stage = "failed")
    BY DEF HelplessInv
  <2> QED BY <2>1, <2>2, TypeFollows DEF SameValues, OneValue
<1>2. Init => ToldInv
  BY InvariantInit DEF Init, ToldInv
<1>3. ProgramInv /\ (ToldInv \/ HelplessInv) /\ [Next]_vars
          => ProgramInv' /\ (ToldInv \/ HelplessInv)'
  BY ProgramStep, InvariantStep
<1> QED
  BY <1>1, <1>2, <1>3, ProgramInit, PTL DEF Spec

=============================================================================
