------------------------------ MODULE Strings ------------------------------
(***************************************************************************)
(* string_utilities: a text is a sequence of characters.  The positions of *)
(* std::string begin at 0, those of a sequence at 1; npos is 0 here.       *)
(***************************************************************************)
EXTENDS Integers, Sequences, SequencesExt, FiniteSetsExt, Characters

Newline == <<"\n">>
Blank == <<" ">>
Underscore == <<"_">>
IsWhitespace(c) == c \in {" ", "\n", "\t"}

Times(c, n) == [i \in 1 .. n |-> c]
From(s, i) == SubSeq(s, i, Len(s))
Joined(pieces) == FlattenSeq(pieces)
(* The same sequence, as TLC computes it once.                             *)
Listed(pieces) == <<>> \o pieces
StartsAt(s, t, i) == i + Len(t) - 1 <= Len(s) /\ \A j \in DOMAIN t : s[i + j - 1] = t[j]
Starts(s, t) == {i \in DOMAIN s : StartsAt(s, t, i)}

(* std::string::find from position i on.                                   *)
Find(s, t, i) ==
    LET later == {k \in i .. Len(s) : StartsAt(s, t, k)} IN IF later = {} THEN 0 ELSE Min(later)

StringContains(s, t) == Starts(s, t) # {}
StringPrefix(s, t) == 1 \in Starts(s, t)

(* The last position is compared with size() - suffix.size(), which is npos *)
(* when the suffix is one character longer than the text.                  *)
StringSuffix(s, t) ==
    LET rfind == IF Starts(s, t) = {} THEN 0 ELSE Max(Starts(s, t))
    IN  rfind = Len(s) - Len(t) + 1

StringEnclosedBy(s, t) == StringPrefix(s, t) /\ StringSuffix(s, t)

(* The loops of string_replace and string_split: on from i, past each find. *)
RECURSIVE ReplacedFrom(_, _, _, _, _)
ReplacedFrom(s, t, u, starts, i) ==
    LET found == {k \in starts : k >= i}
        at == Min(found)
    IN  IF found = {} THEN From(s, i)
        ELSE SubSeq(s, i, at - 1) \o u \o ReplacedFrom(s, t, u, starts, at + Len(t))
StringReplace(s, t, u) == ReplacedFrom(s, t, u, Starts(s, t), 1)

RECURSIVE PiecesFrom(_, _, _, _)
PiecesFrom(s, d, starts, i) ==
    LET found == {k \in starts : k >= i}
        at == Min(found)
    IN  IF found = {} THEN <<From(s, i)>>
        ELSE <<SubSeq(s, i, at - 1)>> \o PiecesFrom(s, d, starts, at + Len(d))
Pieces(s, d) == PiecesFrom(s, d, Starts(s, d), 1)
(* Mutant: a delimiter that ends the text is not followed by a piece.      *)
StringSplitShort(s, d, leave_empty) ==
    LET pieces == Pieces(s, d)
    IN  IF Len(pieces) > 1 /\ Last(pieces) = <<>> THEN Front(pieces) ELSE pieces
StringSplit(s, d, leave_empty) ==
    LET pieces == Pieces(s, d)
    IN  IF leave_empty /\ \A k \in DOMAIN pieces : pieces[k] = <<>> THEN <<>> ELSE pieces

StringVectorCombine(pieces, d) ==
    Joined([k \in DOMAIN pieces |-> IF k = 1 THEN pieces[k] ELSE d \o pieces[k]])

TrimLeft(s) == From(s, SelectInSeq(s \o <<"end">>, LAMBDA c : ~IsWhitespace(c)))
TrimRight(s) == SubSeq(s, 1, SelectLastInSeq(s, LAMBDA c : ~IsWhitespace(c)))
StringTrim(s) == TrimLeft(TrimRight(s))

PadRight(s, c, n) == s \o Times(c, Max({0, n - Len(s)}))
PadLeft(s, c, n) == Times(c, Max({0, n - Len(s)})) \o s

(* std::getline: what follows the last newline is a line if there is any.  *)
GetLines(s) ==
    LET pieces == Pieces(s, Newline) IN IF Last(pieces) = <<>> THEN Front(pieces) ELSE pieces

IndentLines(s, c, n) ==
    LET lines == GetLines(s)
    IN  Joined([k \in DOMAIN lines |->
                   (IF lines[k] = <<>> THEN <<>> ELSE Times(c, n)) \o lines[k] \o Newline])

(* Lines are numbered from 1.                                              *)
ExtractLines(s, from, to, highlight) ==
    LET lines == GetLines(s)
        wanted == {k \in DOMAIN lines : from <= k /\ k <= to}
    IN  Joined([k \in DOMAIN lines |->
            IF k \notin wanted THEN <<>>
            ELSE <<ToString(k), IF k = highlight THEN "|>" ELSE "|">> \o lines[k] \o Newline])

(* Each run of whitespace that something follows becomes one blank.        *)
ShrinkInnerSpace(s) ==
    LET Piece(i) == IF IsWhitespace(s[i]) THEN <<>>
                    ELSE IF i > 1 /\ IsWhitespace(s[i - 1]) THEN <<" ", s[i]>> ELSE <<s[i]>>
    IN  Joined([i \in DOMAIN s |-> Piece(i)])

Get2dSize(s) ==
    LET rows == StringSplit(s, Newline, FALSE)
    IN  [x |-> Max({Len(rows[k]) : k \in DOMAIN rows}), y |-> Len(rows)]

(* What stands between two underscores begins with a capital letter.       *)
MacroCaseToPascalCase(s) ==
    LET words == Pieces(s, Underscore)
    IN  Joined([k \in DOMAIN words |->
            [i \in DOMAIN words[k] |-> IF i = 1 THEN Raised(words[k][i]) ELSE Lowered(words[k][i])]])

(* A blank where letters, digits and the rest follow one another, unless   *)
(* it is the rest that ends.                                               *)
CharType(c) == IF c \in Digits THEN "digit" ELSE IF IsLetter(c) THEN "letter" ELSE "space"
CppEnumCaseToExposedEnumCase(s) ==
    LET Kind(i) == IF i = 0 THEN "none" ELSE CharType(s[i])
        Changes(i) == Kind(i) # Kind(i - 1)
        Gap(i) == IF Changes(i) /\ Kind(i - 1) \notin {"space", "none"} THEN Blank ELSE <<>>
        Shown(i) == CASE Kind(i) = "space" -> <<>>
                      [] Kind(i) = "digit" -> <<s[i]>>
                      [] Kind(i) = "letter" -> <<IF Changes(i) THEN Raised(s[i]) ELSE Lowered(s[i])>>
    IN  Joined([i \in DOMAIN s |-> Gap(i) \o Shown(i)])

(* Rows of a column: broken at the first whitespace once they are as long. *)
RECURSIVE Rows(_, _, _)
Rows(s, row, n) ==
    IF s = <<>> THEN IF row = <<>> THEN <<>> ELSE <<row>>
    ELSE LET c == Head(s)
         IN  IF Len(row) + 1 >= n /\ IsWhitespace(c) THEN <<row>> \o Rows(Tail(s), <<>>, n)
             ELSE Rows(Tail(s), Append(row, c), n)
StringSplitLength(s, n) == IF s = <<>> THEN <<<<>>>> ELSE Rows(s, <<>>, n)

ColumnRows(column) ==
    LET lines == StringSplit(column.text, Newline, FALSE)
    IN  Joined([k \in DOMAIN lines |-> StringSplitLength(lines[k], column.width)])
WriteColumns(left, right) ==
    LET Row(rows, k) == IF k <= Len(rows) THEN rows[k] ELSE <<>>
        Beside(k) == PadRight(Row(ColumnRows(left), k), " ", left.width) \o Blank
                     \o PadRight(Row(ColumnRows(right), k), " ", right.width) \o Newline
    IN  Joined([k \in 1 .. Max({Len(ColumnRows(left)), Len(ColumnRows(right))}) |-> Beside(k)])

(* The text before the first open, and the parts of what it encloses.      *)
RECURSIVE Sections(_, _, _, _, _, _, _)
Sections(s, opening, closing, separator, open, close, written) ==
    LET flushed == IF written = <<>> THEN <<>> ELSE <<StringTrim(written)>>
        Rest(o, c, w) == Sections(Tail(s), opening, closing, separator, o, c, w)
    IN  IF s = <<>> THEN flushed
        ELSE LET c == Head(s)
             IN  CASE c = separator /\ open > 0 /\ open - 1 = close ->
                          flushed \o Rest(open, close, <<>>)
                   [] c = closing /\ open = close + 1 -> flushed
                   [] c = closing /\ open # close + 1 ->
                          Rest(open, close + 1, Append(written, c))
                   [] c = opening /\ open = 0 -> flushed \o Rest(1, close, <<>>)
                   [] c = opening /\ open > 0 -> Rest(open + 1, close, Append(written, c))
                   [] OTHER -> Rest(open, close, Append(written, c))
StringGetEnclosedSections(s, opening, closing, separator) ==
    Sections(s, opening, closing, separator, 0, 0, <<>>)

---------------------------------------------------------------------------
(* What the utilities are expected to do.                                  *)

(* The words of a text: its longest parts of characters that satisfy Is.   *)
WordsOf(s, Is(_)) ==
    LET begins == SelectSeq([i \in DOMAIN s |-> i],
                            LAMBDA i : Is(s[i]) /\ (i = 1 \/ ~Is(s[i - 1])))
        Until(i) == Max({k \in i .. Len(s) : \A j \in i .. k : Is(s[j])})
    IN  [k \in DOMAIN begins |-> SubSeq(s, begins[k], Until(begins[k]))]
Words(s) == WordsOf(s, LAMBDA c : ~IsWhitespace(c))
Capitalized(w) == [i \in DOMAIN w |-> IF i = 1 THEN Raised(w[i]) ELSE Lowered(w[i])]

(* Splitting loses nothing and leaves no delimiter, and replacing is       *)
(* splitting and joining again.                                            *)
SplitsAgree(s, d) ==
    LET pieces == StringSplit(s, d, FALSE)
    IN  /\ StringVectorCombine(pieces, d) = s
        /\ \A k \in DOMAIN pieces : ~StringContains(pieces[k], d)
        /\ StringReplace(s, d, <<"u">>) = StringVectorCombine(pieces, <<"u">>)

(* The words of a text survive whatever is done to its blanks.             *)
BlanksAgree(s) ==
    /\ Words(StringTrim(s)) = Words(s) /\ Words(ShrinkInnerSpace(s)) = Words(s)
    /\ ShrinkInnerSpace(StringTrim(s)) = StringVectorCombine(Words(s), Blank)
    /\ Words(IndentLines(s, " ", 2)) = Words(s)
    /\ Len(GetLines(IndentLines(s, " ", 2))) = Len(GetLines(s))
    /\ \A n \in 1 .. 3 : Words(StringVectorCombine(StringSplitLength(s, n), Blank)) = Words(s)
    /\ \A n \in 1 .. 3 : PadLeft(s, " ", n) = Reverse(PadRight(Reverse(s), " ", n))

(* An excerpt has the lines that were asked for, under their own numbers   *)
(* and with one of them marked; the measured box is the smallest they fit. *)
ExcerptsAgree(s, from, to) ==
    LET lines == GetLines(s)
        excerpt == GetLines(ExtractLines(s, from, to, to))
        box == Get2dSize(s)
        widths == {Len(lines[k]) : k \in DOMAIN lines}
    IN  /\ [k \in DOMAIN excerpt |-> From(excerpt[k], 3)] = SubSeq(lines, from, Min({to, Len(lines)}))
        /\ \A k \in DOMAIN excerpt : excerpt[k][1] = ToString(k + from - 1)
        /\ {k \in DOMAIN excerpt : excerpt[k][2] = "|>"} = (to - from + 1) .. Len(excerpt)
        /\ box.x = Max({0} \cup widths) /\ box.y \in Len(lines) .. Len(lines) + 1

(* A row is broken after its width is reached, not before: a word may hang *)
(* over, and the next column is straight where there is room for that.     *)
ColumnsAgree(s, n) ==
    LET words == Words(s)
        longest == Max({0} \cup {Len(words[k]) : k \in DOMAIN words})
        rows == StringSplitLength(s, n)
        written == GetLines(WriteColumns([width |-> Len(s), text |-> s], [width |-> n, text |-> s]))
    IN  /\ \A k \in DOMAIN rows : Len(rows[k]) <= n - 1 + longest
        /\ \A k \in DOMAIN written : Len(written[k]) <= Len(s) + n + Max({1, longest})
        /\ \A k \in DOMAIN written : written[k][Len(s) + 1] = " "

(* A suffix that is not one is only reported for a text that is one        *)
(* character too short to have it.                                         *)
AffixesAgree(s, t) ==
    /\ StringPrefix(s, t) <=> IsPrefix(t, s)
    /\ Len(s) # Len(t) - 1 => (StringSuffix(s, t) <=> IsSuffix(t, s))
    /\ Len(s) = Len(t) - 1 => StringSuffix(s, t)
    /\ StringEnclosedBy(s, t) <=> IsPrefix(t, s) /\ IsSuffix(t, s)

(* Names are shown word by word.                                           *)
NamesShown(s) ==
    LET words == WordsOf(s, LAMBDA c : c # "_")
        Part(w) == WordsOf(w, IsLetter) \o WordsOf(w, LAMBDA c : c \in Digits)
        shown == WordsOf(CppEnumCaseToExposedEnumCase(s), LAMBDA c : c # " ")
    IN  /\ MacroCaseToPascalCase(s) = Joined([k \in DOMAIN words |-> Capitalized(words[k])])
        /\ Joined(shown) = Joined([k \in DOMAIN shown |-> Capitalized(shown[k])])
        /\ \A k \in DOMAIN shown : Len(Part(shown[k])) = 1
=============================================================================
