----------------------------- MODULE Characters -----------------------------
(* Letters and digits, those that a check may use, and their case.          *)

ToUpper == [a |-> "A", b |-> "B", l |-> "L", n |-> "N", o |-> "O", r |-> "R"]
ToLower == [A |-> "a", B |-> "b", L |-> "l", N |-> "n", O |-> "o", R |-> "r"]
Digits == {"1", "2"}
IsLetter(c) == c \in DOMAIN ToUpper \cup DOMAIN ToLower
Raised(c) == IF c \in DOMAIN ToUpper THEN ToUpper[c] ELSE c
Lowered(c) == IF c \in DOMAIN ToLower THEN ToLower[c] ELSE c
=============================================================================
