----------------------------- MODULE BasicFacts -----------------------------
(***************************************************************************)
(* Facts about numbers and sequences that the proofs about several parts   *)
(* of the tool need.  A sequence is taken as one of its own elements, so   *)
(* that nothing has to be known of these.                                  *)
(***************************************************************************)
EXTENDS Integers, Sequences, FiniteSets, SequencesExt, SequenceTheorems, FiniteSetTheorems,
        FunctionTheorems, WellFoundedInduction, TLAPS

(* A set of numbers has a least one.                                       *)
LEMMA LeastOf ==
    ASSUME NEW S \in SUBSET Nat, S # {}
    PROVE  \E m \in S : \A k \in S : m <= k
<1>1. \E m \in S : \A k \in S : <<k, m>> \notin OpToRel(<, Nat)
  BY NatLessThanWellFounded, WFMin
<1>2. PICK m \in S : \A k \in S : <<k, m>> \notin OpToRel(<, Nat)
  BY <1>1
<1>3. \A k \in S : ~(k < m)
  BY <1>2 DEF OpToRel
<1> QED
  BY <1>3

(* A sequence of the members of a set is one of its elements.              *)
LEMMA OwnSequence ==
    ASSUME NEW S, NEW s \in Seq(S)
    PROVE  s \in Seq(ToSet(s)) /\ ToSet(s) \subseteq S
<1>1. s \in [1 .. Len(s) -> ToSet(s)] /\ Len(s) \in Nat /\ ToSet(s) \subseteq S
  BY DEF ToSet
<1> QED
  BY <1>1, SeqDef

(* Two sequences joined, element by element.                               *)
LEMMA Concatenated ==
    ASSUME NEW s, s \in Seq(ToSet(s)), NEW t, t \in Seq(ToSet(t))
    PROVE  /\ s \o t \in Seq(ToSet(s \o t))
           /\ Len(s) \in Nat /\ DOMAIN s = 1 .. Len(s)
           /\ Len(t) \in Nat /\ DOMAIN t = 1 .. Len(t)
           /\ Len(s \o t) = Len(s) + Len(t) /\ DOMAIN (s \o t) = 1 .. Len(s) + Len(t)
           /\ \A i \in 1 .. Len(s) : (s \o t)[i] = s[i]
           /\ \A i \in 1 .. Len(t) : (s \o t)[Len(s) + i] = t[i]
           /\ ToSet(s \o t) = ToSet(s) \cup ToSet(t)
<1> DEFINE S == ToSet(s) \cup ToSet(t)
<1>1. s \in Seq(S) /\ t \in Seq(S)
  BY SeqMonotonic
<1> HIDE DEF S
<1>2. /\ s \o t \in Seq(S) /\ Len(s \o t) = Len(s) + Len(t)
      /\ \A i \in 1 .. Len(s) + Len(t) :
            (s \o t)[i] = IF i <= Len(s) THEN s[i] ELSE t[i - Len(s)]
  BY <1>1, ConcatProperties
<1>3. /\ Len(s) \in Nat /\ DOMAIN s = 1 .. Len(s)
      /\ Len(t) \in Nat /\ DOMAIN t = 1 .. Len(t)
      /\ DOMAIN (s \o t) = 1 .. Len(s) + Len(t)
  BY <1>1, <1>2
<1>4. /\ \A i \in 1 .. Len(s) : (s \o t)[i] = s[i] /\ i \in DOMAIN (s \o t)
      /\ \A i \in 1 .. Len(t) : (s \o t)[Len(s) + i] = t[i] /\ Len(s) + i \in DOMAIN (s \o t)
  BY <1>2, <1>3
<1>5. \A i \in DOMAIN (s \o t) : (s \o t)[i] \in ToSet(s) \cup ToSet(t)
  <2>1. TAKE i \in DOMAIN (s \o t)
  <2>2. CASE i <= Len(s)
    BY <1>2, <1>3, <2>2 DEF ToSet
  <2>3. CASE i > Len(s)
    <3>1. (s \o t)[i] = t[i - Len(s)] /\ i - Len(s) \in DOMAIN t
      BY <1>2, <1>3, <2>3
    <3> QED BY <3>1 DEF ToSet
  <2> QED BY <1>3, <2>2, <2>3
<1>6. ToSet(s) \cup ToSet(t) \subseteq ToSet(s \o t)
  BY <1>3, <1>4 DEF ToSet
<1>7. ToSet(s \o t) = ToSet(s) \cup ToSet(t)
  BY <1>5, <1>6 DEF ToSet
<1>8. s \o t \in Seq(ToSet(s \o t))
  BY <1>2, OwnSequence
<1> QED
  BY <1>2, <1>3, <1>4, <1>7, <1>8

(* A sequence of one element.                                              *)
LEMMA Singleton ==
    ASSUME NEW x
    PROVE  <<x>> \in Seq(ToSet(<<x>>)) /\ Len(<<x>>) = 1 /\ <<x>>[1] = x /\ ToSet(<<x>>) = {x}
<1>1. <<x>> \in Seq({x}) /\ Len(<<x>>) = 1 /\ <<x>>[1] = x /\ DOMAIN <<x>> = {1}
  OBVIOUS
<1> QED
  BY <1>1, OwnSequence DEF ToSet

(* The empty sequence.                                                     *)
LEMMA EmptySequence == <<>> \in Seq(ToSet(<<>>)) /\ Len(<<>>) = 0 /\ ToSet(<<>>) = {} /\ DOMAIN <<>> = {}
BY EmptySeq DEF ToSet

(* A sequence with an element more.                                        *)
LEMMA Appended ==
    ASSUME NEW s, s \in Seq(ToSet(s)), NEW x
    PROVE  /\ Append(s, x) = s \o <<x>>
           /\ Append(s, x) \in Seq(ToSet(Append(s, x)))
           /\ Len(s) \in Nat /\ Len(Append(s, x)) = Len(s) + 1
           /\ DOMAIN s = 1 .. Len(s) /\ DOMAIN Append(s, x) = 1 .. Len(s) + 1
           /\ \A i \in 1 .. Len(s) : Append(s, x)[i] = s[i]
           /\ Append(s, x)[Len(s) + 1] = x
           /\ ToSet(Append(s, x)) = ToSet(s) \cup {x}
<1>1. s \in Seq(ToSet(s) \cup {x})
  BY SeqMonotonic
<1>2. /\ Append(s, x) \in Seq(ToSet(s) \cup {x}) /\ Append(s, x) = s \o <<x>>
      /\ Len(Append(s, x)) = Len(s) + 1 /\ Append(s, x)[Len(s) + 1] = x
      /\ \A i \in 1 .. Len(s) : Append(s, x)[i] = s[i]
  BY <1>1, AppendProperties, AppendIsConcat
<1>3. <<x>> \in Seq(ToSet(<<x>>)) /\ ToSet(<<x>>) = {x}
  BY Singleton
<1> QED
  BY <1>2, <1>3, Concatenated, OwnSequence

(* A part of a sequence.                                                   *)
LEMMA Sliced ==
    ASSUME NEW s, s \in Seq(ToSet(s)), NEW m \in 1 .. Len(s) + 1, NEW n \in 0 .. Len(s),
           m <= n + 1
    PROVE  /\ SubSeq(s, m, n) \in Seq(ToSet(SubSeq(s, m, n)))
           /\ Len(SubSeq(s, m, n)) = n - m + 1
           /\ DOMAIN SubSeq(s, m, n) = 1 .. n - m + 1
           /\ \A i \in 1 .. n - m + 1 : SubSeq(s, m, n)[i] = s[m + i - 1]
<1>1. Len(s) \in Nat /\ DOMAIN s = 1 .. Len(s)
  OBVIOUS
<1>2. m \in Int /\ n \in Int /\ \A i \in m .. n : s[i] \in ToSet(s)
  BY <1>1 DEF ToSet
<1>3. /\ SubSeq(s, m, n) \in Seq(ToSet(s))
      /\ Len(SubSeq(s, m, n)) = IF m <= n THEN n - m + 1 ELSE 0
      /\ \A i \in 1 .. n - m + 1 : SubSeq(s, m, n)[i] = s[m + i - 1]
  BY <1>2, SubSeqProperties
<1>4. Len(SubSeq(s, m, n)) = n - m + 1
  BY <1>2, <1>3
<1>5. DOMAIN SubSeq(s, m, n) = 1 .. Len(SubSeq(s, m, n))
  BY <1>3
<1> QED
  BY <1>3, <1>4, <1>5, OwnSequence

(* Division: n times k and less than n more.                               *)
LEMMA Multiple ==
    ASSUME NEW n \in Nat \ {0}, NEW k \in Nat
    PROVE  (k * n) \div n = k /\ (k * n) % n = 0
OBVIOUS

(* An index into rows of n, as the row and the place in it.                *)
LEMMA Divided ==
    ASSUME NEW n \in Nat \ {0}, NEW m \in Nat, NEW a \in 0 .. n * m - 1
    PROVE  (a \div n) \in 0 .. m - 1 /\ (a % n) \in 0 .. n - 1
<1> DEFINE q == a \div n
           r == a % n
<1>0. n * m \in Int /\ a \in Nat
  OBVIOUS
<1>1. q \in Int /\ r \in 0 .. n - 1
  OBVIOUS
<1>2. a = (n * q) + r
  OBVIOUS
<1>3. n * q < n * m /\ n * q + n > 0
  BY <1>0, <1>1, <1>2
<1> HIDE DEF q, r
<1>4. ASSUME q >= m PROVE FALSE
  <2>1. n * q >= n * m
    BY <1>4, <1>1
  <2> QED BY <2>1, <1>3, <1>1, <1>0
<1>5. ASSUME q <= -1 PROVE FALSE
  <2>1. n * q <= n * (-1)
    BY <1>5, <1>1
  <2> QED BY <2>1, <1>3, <1>1
<1> QED BY <1>1, <1>4, <1>5 DEF q, r

(* Sequences: one element removed, one put in, the first of a kind.        *)
LEMMA SeqFacts ==
    ASSUME NEW S, NEW s \in Seq(S)
    PROVE  Len(s) \in Nat /\ DOMAIN s = 1 .. Len(s) /\ (\A i \in 1 .. Len(s) : s[i] \in S)
           /\ ToSet(s) \subseteq S /\ (\A x \in ToSet(s) : \E i \in 1 .. Len(s) : s[i] = x)
           /\ \A i \in 1 .. Len(s) : s[i] \in ToSet(s)
BY DEF ToSet

(* A sequence with one element left out.                                   *)
LEMMA LeftOutAt ==
    ASSUME NEW S, NEW s \in Seq(S), NEW at \in 1 .. Len(s), NEW t, t = RemoveAt(s, at)
    PROVE  /\ t \in Seq(S) /\ Len(t) = Len(s) - 1 /\ DOMAIN t = 1 .. Len(s) - 1
           /\ \A i \in 1 .. Len(s) - 1 : t[i] = IF i < at THEN s[i] ELSE s[i + 1]
<1> DEFINE a == SubSeq(s, 1, at - 1)
           b == SubSeq(s, at + 1, Len(s))
<1>1. Len(s) \in Nat /\ \A i \in 1 .. Len(s) : s[i] \in S
  BY SeqFacts
<1>2. /\ a \in Seq(S) /\ Len(a) = at - 1
      /\ \A i \in 1 .. at - 1 : a[i] = s[i]
  <2>1. 1 \in Int /\ at - 1 \in Int /\ \A i \in 1 .. at - 1 : s[i] \in S
    BY <1>1
  <2>2. a \in Seq(S) /\ Len(a) = (IF 1 <= at - 1 THEN at - 1 - 1 + 1 ELSE 0)
        /\ \A i \in 1 .. at - 1 - 1 + 1 : a[i] = s[1 + i - 1]
    BY <2>1, SubSeqProperties
  <2> HIDE DEF a
  <2> QED BY <1>1, <2>2
<1>3. /\ b \in Seq(S) /\ Len(b) = Len(s) - at
      /\ \A i \in 1 .. Len(s) - at : b[i] = s[at + i]
  <2>1. at + 1 \in Int /\ Len(s) \in Int /\ \A i \in at + 1 .. Len(s) : s[i] \in S
    BY <1>1
  <2>2. b \in Seq(S) /\ Len(b) = (IF at + 1 <= Len(s) THEN Len(s) - (at + 1) + 1 ELSE 0)
        /\ \A i \in 1 .. Len(s) - (at + 1) + 1 : b[i] = s[at + 1 + i - 1]
    BY <2>1, SubSeqProperties
  <2> HIDE DEF b
  <2> QED BY <1>1, <2>2
<1>4. t = a \o b
  BY DEF RemoveAt
<1> HIDE DEF a, b
<1>5. /\ t \in Seq(S) /\ Len(t) = Len(a) + Len(b)
      /\ \A i \in 1 .. Len(a) + Len(b) : t[i] = IF i <= Len(a) THEN a[i] ELSE b[i - Len(a)]
  <2>1. a \in Seq(S) /\ b \in Seq(S)
    BY <1>2, <1>3
  <2> QED BY <2>1, <1>4, ConcatProperties
<1>6. Len(t) = Len(s) - 1 /\ DOMAIN t = 1 .. Len(s) - 1
  BY <1>1, <1>2, <1>3, <1>5
<1>7. ASSUME NEW i \in 1 .. Len(s) - 1 PROVE t[i] = IF i < at THEN s[i] ELSE s[i + 1]
  <2>1. t[i] = IF i <= Len(a) THEN a[i] ELSE b[i - Len(a)]
    BY <1>1, <1>2, <1>3, <1>5
  <2>2. CASE i < at
    BY <1>1, <1>2, <2>1, <2>2
  <2>3. CASE ~(i < at)
    <3>1. t[i] = b[i - (at - 1)] /\ i - (at - 1) \in 1 .. Len(s) - at
      BY <1>1, <1>2, <2>1, <2>3
    <3>2. b[i - (at - 1)] = s[at + (i - (at - 1))]
      BY <1>3, <3>1
    <3>3. at + (i - (at - 1)) = i + 1
      OBVIOUS
    <3> QED BY <2>3, <3>1, <3>2, <3>3
  <2> QED BY <2>2, <2>3
<1> QED
  BY <1>5, <1>6, <1>7

Longer(S, s, at, x, t) ==
    /\ t \in Seq(S) /\ Len(t) = Len(s) + 1 /\ DOMAIN t = 1 .. Len(s) + 1
    /\ \A i \in 1 .. Len(s) + 1 :
          t[i] = IF i < at THEN s[i] ELSE IF i = at THEN x ELSE s[i - 1]

(* A sequence with one element put in.                                     *)
LEMMA PutInAt ==
    ASSUME NEW S, NEW s \in Seq(S), NEW at \in 1 .. Len(s) + 1, NEW x \in S,
           NEW t, t = InsertAt(s, at, x)
    PROVE  Longer(S, s, at, x, t)
<1> DEFINE a == SubSeq(s, 1, at - 1)
           b == SubSeq(s, at, Len(s))
<1>1. Len(s) \in Nat /\ \A i \in 1 .. Len(s) : s[i] \in S
  BY SeqFacts
<1>2. /\ a \in Seq(S) /\ Len(a) = at - 1
      /\ \A i \in 1 .. at - 1 : a[i] = s[i]
  <2>1. 1 \in Int /\ at - 1 \in Int /\ \A i \in 1 .. at - 1 : s[i] \in S
    BY <1>1
  <2>2. a \in Seq(S) /\ Len(a) = (IF 1 <= at - 1 THEN at - 1 - 1 + 1 ELSE 0)
        /\ \A i \in 1 .. at - 1 - 1 + 1 : a[i] = s[1 + i - 1]
    BY <2>1, SubSeqProperties
  <2> HIDE DEF a
  <2> QED BY <1>1, <2>2
<1>3. /\ b \in Seq(S) /\ Len(b) = Len(s) - at + 1
      /\ \A i \in 1 .. Len(s) - at + 1 : b[i] = s[at + i - 1]
  <2>1. at \in Int /\ Len(s) \in Int /\ \A i \in at .. Len(s) : s[i] \in S
    BY <1>1
  <2>2. b \in Seq(S) /\ Len(b) = (IF at <= Len(s) THEN Len(s) - at + 1 ELSE 0)
        /\ \A i \in 1 .. Len(s) - at + 1 : b[i] = s[at + i - 1]
    BY <2>1, SubSeqProperties
  <2> HIDE DEF b
  <2> QED BY <1>1, <2>2
<1>4. t = (a \o <<x>>) \o b
  BY DEF InsertAt
<1> HIDE DEF a, b
<1> DEFINE c == a \o <<x>>
<1>5. /\ c \in Seq(S) /\ Len(c) = at
      /\ \A i \in 1 .. at : c[i] = IF i < at THEN a[i] ELSE x
  <2>1. <<x>> \in Seq(S) /\ Len(<<x>>) = 1 /\ <<x>>[1] = x
    OBVIOUS
  <2>2. /\ c \in Seq(S) /\ Len(c) = Len(a) + 1
        /\ \A i \in 1 .. Len(a) + 1 : c[i] = IF i <= Len(a) THEN a[i] ELSE <<x>>[i - Len(a)]
    BY <1>2, <2>1, ConcatProperties
  <2> HIDE DEF c
  <2>3. Len(c) = at
    BY <1>2, <2>2
  <2>4. ASSUME NEW i \in 1 .. at PROVE c[i] = IF i < at THEN a[i] ELSE x
    <3>1. c[i] = IF i <= Len(a) THEN a[i] ELSE <<x>>[i - Len(a)]
      BY <1>2, <2>2
    <3>2. CASE i < at
      BY <1>2, <3>1, <3>2
    <3>3. CASE i = at
      <4>1. i - Len(a) = 1 /\ ~(i <= Len(a))
        BY <1>2, <3>3
      <4> QED BY <2>1, <3>1, <3>3, <4>1
    <3> QED BY <3>2, <3>3
  <2> QED BY <2>2, <2>3, <2>4
<1> HIDE DEF c
<1>6. /\ t \in Seq(S) /\ Len(t) = Len(c) + Len(b)
      /\ \A i \in 1 .. Len(c) + Len(b) : t[i] = IF i <= Len(c) THEN c[i] ELSE b[i - Len(c)]
  <2>1. t = c \o b
    BY <1>4 DEF c
  <2>2. b \in Seq(S) /\ c \in Seq(S)
    BY <1>3, <1>5
  <2> HIDE DEF b
  <2> QED BY ONLY <2>1, <2>2, ConcatProperties
<1>7. Len(t) = Len(s) + 1 /\ DOMAIN t = 1 .. Len(s) + 1
  BY <1>1, <1>3, <1>5, <1>6
<1>8. ASSUME NEW i \in 1 .. Len(s) + 1
      PROVE  t[i] = IF i < at THEN s[i] ELSE IF i = at THEN x ELSE s[i - 1]
  <2>1. t[i] = IF i <= at THEN c[i] ELSE b[i - at]
    BY <1>1, <1>3, <1>5, <1>6
  <2>2. CASE i <= at
    BY <1>2, <1>5, <2>1, <2>2
  <2>3. CASE ~(i <= at)
    <3>1. t[i] = b[i - at] /\ i - at \in 1 .. Len(s) - at + 1
      BY <1>1, <2>1, <2>3
    <3>2. b[i - at] = s[at + (i - at) - 1]
      BY <1>3, <3>1
    <3>3. at + (i - at) - 1 = i - 1
      OBVIOUS
    <3> QED BY <2>3, <3>1, <3>2, <3>3
  <2> QED BY <2>2, <2>3
<1> QED
  BY <1>6, <1>7, <1>8 DEF Longer

(* The first place of an element, and the least of a set of places.        *)
Place(s, x) == SelectInSeq(s, LAMBDA y : y = x)

(* What Min gives for a set of places, or 0 where there is none.           *)
LEMMA LeastPlace ==
    ASSUME NEW n \in Nat, NEW I, I \subseteq 1 .. n, NEW k, k = IF I # {} THEN Min(I) ELSE 0
    PROVE  IF I = {} THEN k = 0 ELSE k \in I /\ \A y \in I : k <= y
<1>1. CASE I = {}
  BY <1>1
<1>2. CASE I # {}
  <2>1. k = CHOOSE m \in I : \A y \in I : m <= y
    BY <1>2 DEF Min
  <2>2. I \in SUBSET Nat
    OBVIOUS
  <2>3. \E m \in I : \A y \in I : m <= y
    BY <1>2, <2>2, LeastOf
  <2> QED BY <1>2, <2>1, <2>3
<1> QED
  BY <1>1, <1>2

(* SelectInSeq finds the first place of an element, or 0 where it is not.  *)
LEMMA FoundAt ==
    ASSUME NEW S, NEW s \in Seq(S), NEW x, NEW k, k = Place(s, x)
    PROVE  \/ k \in 1 .. Len(s) /\ s[k] = x /\ \A i \in 1 .. k - 1 : s[i] # x
           \/ k = 0 /\ x \notin ToSet(s)
<1> DEFINE I == {i \in 1 .. Len(s) : s[i] = x}
<1>1. Len(s) \in Nat /\ DOMAIN s = 1 .. Len(s)
  BY SeqFacts
<1>2. k = IF I # {} THEN Min(I) ELSE 0
  BY DEF SelectInSeq, Place
<1>3. CASE I = {}
  BY <1>1, <1>2, <1>3 DEF ToSet
<1>4. CASE I # {}
  <2>1. I \subseteq 1 .. Len(s) /\ \A i \in I : i \in 1 .. Len(s) /\ s[i] = x
    BY <1>1
  <2>2. \A i \in 1 .. Len(s) : s[i] = x => i \in I
    OBVIOUS
  <2> HIDE DEF I
  <2>3. k \in I /\ \A y \in I : k <= y
    BY <1>1, <1>2, <1>4, <2>1, LeastPlace
  <2>4. \A i \in 1 .. k - 1 : s[i] # x
    <3>1. TAKE i \in 1 .. k - 1
    <3>2. i \in 1 .. Len(s) /\ ~(k <= i)
      BY <1>1, <2>1, <2>3
    <3> QED BY <2>2, <2>3, <3>2
  <2> QED BY <2>1, <2>3, <2>4
<1> QED
  BY <1>3, <1>4

(* The lowest of a set of numbers: in ascending order, and each of them.   *)
LEMMA RankFacts ==
    ASSUME NEW S, S \subseteq Nat, IsFiniteSet(S),
           NEW r, r = [x \in S |-> Cardinality({y \in S : y < x})]
    PROVE  /\ Cardinality(S) \in Nat
           /\ \A x \in S : r[x] \in 0 .. Cardinality(S) - 1
           /\ \A x, z \in S : x < z => r[x] < r[z]
<1> DEFINE B(x) == {y \in S : y < x}
<1>1. Cardinality(S) \in Nat
  BY FS_CardinalityType
<1>2. \A x : IsFiniteSet(B(x)) /\ Cardinality(B(x)) \in Nat /\ Cardinality(B(x)) <= Cardinality(S)
  BY FS_Subset, FS_CardinalityType
<1>3. ASSUME NEW x \in S, NEW T \in SUBSET S, B(x) \subseteq T, x \in T
      PROVE  Cardinality(B(x)) < Cardinality(T)
  <2>1. x \notin B(x) /\ B(x) \cup {x} \subseteq T
    BY <1>3
  <2>2. Cardinality(B(x) \cup {x}) = Cardinality(B(x)) + 1
    BY <1>2, <2>1, FS_AddElement
  <2>3. IsFiniteSet(T)
    BY FS_Subset
  <2>4. Cardinality(B(x) \cup {x}) <= Cardinality(T) /\ Cardinality(T) \in Nat
    BY <2>1, <2>3, FS_Subset, FS_CardinalityType
  <2> HIDE DEF B
  <2> QED BY <1>2, <2>2, <2>4
<1>4. ASSUME NEW x \in S PROVE r[x] \in 0 .. Cardinality(S) - 1
  <2>1. B(x) \subseteq S
    OBVIOUS
  <2>2. Cardinality(B(x)) < Cardinality(S)
    BY <1>3, <2>1
  <2>3. r[x] = Cardinality(B(x))
    OBVIOUS
  <2> HIDE DEF B
  <2> QED BY <1>1, <1>2, <2>2, <2>3
<1>5. ASSUME NEW x \in S, NEW z \in S, x < z PROVE r[x] < r[z]
  <2>1. B(x) \subseteq B(z) /\ x \in B(z) /\ B(z) \subseteq S
    <3>1. \A y \in S : y \in Nat
      OBVIOUS
    <3>2. \A y \in S : y < x => y < z
      BY <1>5, <3>1
    <3> QED BY <1>5, <3>2
  <2>2. Cardinality(B(x)) < Cardinality(B(z))
    BY <1>3, <2>1
  <2>3. r[x] = Cardinality(B(x)) /\ r[z] = Cardinality(B(z))
    OBVIOUS
  <2> QED BY <2>2, <2>3
<1> QED
  BY <1>1, <1>4, <1>5

Rising(l, k, S) ==
    /\ l \in Seq(S) /\ Len(l) = k /\ DOMAIN l = 1 .. k
    /\ \A i \in 1 .. k : l[i] \in S
    /\ \A i, j \in 1 .. k : i < j => l[i] < l[j]

Covers(l, S) == \A x \in S : \E i \in DOMAIN l : l[i] = x

(* A function of the first natural numbers, each value from the one        *)
(* before.                                                                 *)
Iteration(f, n, s, F) == f = [i \in 0 .. n |-> IF i = 0 THEN s ELSE F[<<i, f[i - 1]>>]]

(* Such a function exists, for any first value and any step.               *)
LEMMA Iterated ==
    ASSUME NEW n \in Nat, NEW s, NEW F
    PROVE  \E f : Iteration(f, n, s, F)
<1> DEFINE Trace(m, f) == f = [i \in 0 .. m |-> IF i = 0 THEN s ELSE F[<<i, f[i - 1]>>]]
           S == {m \in 0 .. n : ~\E f : Trace(m, f)}
<1>0. n \in 0 .. n /\ \A f : Iteration(f, n, s, F) <=> Trace(n, f)
  BY DEF Iteration
<1>1. SUFFICES ASSUME S # {} PROVE FALSE
  <2>1. n \notin S => \E f : Trace(n, f)
    BY <1>0
  <2> QED BY <1>0, <2>1
<1>2. S \in SUBSET Nat /\ \A m \in S : m \in 0 .. n /\ ~\E f : Trace(m, f)
  OBVIOUS
<1>3. \A m \in 0 .. n : m \notin S => \E f : Trace(m, f)
  OBVIOUS
<1>4. PICK m \in S : \A k \in S : m <= k
  <2> HIDE DEF S
  <2> QED BY <1>1, <1>2, LeastOf
<1> HIDE DEF S
<1>5. m # 0
  <2> DEFINE f == [i \in 0 .. 0 |-> s]
  <2>1. f = [i \in 0 .. 0 |-> IF i = 0 THEN s ELSE F[<<i, f[i - 1]>>]]
    OBVIOUS
  <2>2. Trace(0, f)
    BY <2>1
  <2> QED BY <1>2, <2>2
<1>6. m - 1 \in 0 .. n /\ m - 1 \notin S
  <2>1. m - 1 \in 0 .. n /\ ~(m <= m - 1)
    BY <1>2, <1>5
  <2> QED BY <1>4, <2>1
<1>7. PICK g : Trace(m - 1, g)
  BY <1>3, <1>6
<1> DEFINE f == [i \in 0 .. m |-> IF i = m THEN F[<<m, g[m - 1]>>] ELSE g[i]]
<1>8. Trace(m, f)
  <2>1. \A i \in 0 .. m : f[i] = IF i = 0 THEN s ELSE F[<<i, f[i - 1]>>]
    <3>1. TAKE i \in 0 .. m
    <3>2. CASE i = m
      <4>1. f[i] = F[<<m, g[m - 1]>>] /\ f[i - 1] = g[m - 1]
        BY <1>2, <1>5, <3>2
      <4> QED BY <1>5, <3>2, <4>1
    <3>3. CASE i # m
      <4>1. i \in 0 .. m - 1 /\ f[i] = g[i]
        BY <1>2, <3>3
      <4>2. g[i] = IF i = 0 THEN s ELSE F[<<i, g[i - 1]>>]
        BY <1>7, <4>1
      <4>3. i # 0 => f[i - 1] = g[i - 1]
        BY <1>2, <4>1
      <4> QED BY <4>1, <4>2, <4>3
    <3> QED BY <3>2, <3>3
  <2>2. DOMAIN f = 0 .. m
    OBVIOUS
  <2>3. f = [i \in DOMAIN f |-> f[i]]
    OBVIOUS
  <2> HIDE DEF f
  <2> QED BY <2>1, <2>2, <2>3
<1> QED
  BY <1>2, <1>8

(* The sequences one after the other: each element of t is one of theirs,  *)
(* in the order of the sequences and of the elements in them.              *)
Places(ss, n, t, sec, off) ==
    /\ sec \in [1 .. Len(t) -> 1 .. n] /\ off \in [1 .. Len(t) -> Nat]
    /\ \A i \in 1 .. Len(t) : off[i] \in 1 .. Len(ss[sec[i]]) /\ t[i] = ss[sec[i]][off[i]]
    /\ \A i, j \in 1 .. Len(t) : i < j => sec[i] < sec[j] \/ (sec[i] = sec[j] /\ off[i] < off[j])
    /\ \A k \in 1 .. n : \A l \in 1 .. Len(ss[k]) : \E i \in 1 .. Len(t) : sec[i] = k /\ off[i] = l

Flattened(X, ss, n, t) == t \in Seq(X) /\ \E sec, off : Places(ss, n, t, sec, off)

(* One sequence on its own.                                                *)
LEMMA FlattenedFirst ==
    ASSUME NEW X, NEW ss, ss[1] \in Seq(X)
    PROVE  Flattened(X, ss, 1, ss[1])
<1> DEFINE t == ss[1]
           sec == [i \in 1 .. Len(t) |-> 1]
           off == [i \in 1 .. Len(t) |-> i]
<1>1. Len(t) \in Nat
  OBVIOUS
<1>2. Places(ss, 1, t, sec, off)
  <2>1. sec \in [1 .. Len(t) -> 1 .. 1] /\ off \in [1 .. Len(t) -> Nat]
    BY <1>1
  <2>2. \A i \in 1 .. Len(t) : off[i] \in 1 .. Len(ss[sec[i]]) /\ t[i] = ss[sec[i]][off[i]]
    OBVIOUS
  <2>3. \A i, j \in 1 .. Len(t) : i < j => sec[i] < sec[j] \/ (sec[i] = sec[j] /\ off[i] < off[j])
    OBVIOUS
  <2>4. \A k \in 1 .. 1 : \A l \in 1 .. Len(ss[k]) : \E i \in 1 .. Len(t) : sec[i] = k /\ off[i] = l
    <3>1. \A l \in 1 .. Len(t) : sec[l] = 1 /\ off[l] = l
      OBVIOUS
    <3> QED BY <3>1
  <2> QED BY <2>1, <2>2, <2>3, <2>4 DEF Places
<1> QED
  BY <1>2 DEF Flattened

(* One sequence more.                                                      *)
LEMMA FlattenedNext ==
    ASSUME NEW X, NEW ss, NEW n \in Nat, ss[n + 1] \in Seq(X), NEW t, Flattened(X, ss, n, t),
           NEW u, u = t \o ss[n + 1]
    PROVE  Flattened(X, ss, n + 1, u)
<1> DEFINE v == ss[n + 1]
<1>1. t \in Seq(X) /\ v \in Seq(X)
  BY DEF Flattened
<1>2. Len(t) \in Nat /\ Len(v) \in Nat
  BY <1>1
<1>3. PICK sec, off : Places(ss, n, t, sec, off)
  BY DEF Flattened
<1>4. /\ u \in Seq(X) /\ Len(u) = Len(t) + Len(v)
      /\ \A i \in 1 .. Len(t) + Len(v) : u[i] = IF i <= Len(t) THEN t[i] ELSE v[i - Len(t)]
  BY <1>1, ConcatProperties
<1> DEFINE sec2 == [i \in 1 .. Len(u) |-> IF i <= Len(t) THEN sec[i] ELSE n + 1]
           off2 == [i \in 1 .. Len(u) |-> IF i <= Len(t) THEN off[i] ELSE i - Len(t)]
<1>5. /\ sec \in [1 .. Len(t) -> 1 .. n] /\ off \in [1 .. Len(t) -> Nat]
      /\ \A i \in 1 .. Len(t) : off[i] \in 1 .. Len(ss[sec[i]]) /\ t[i] = ss[sec[i]][off[i]]
      /\ \A i, j \in 1 .. Len(t) : i < j => sec[i] < sec[j] \/ (sec[i] = sec[j] /\ off[i] < off[j])
      /\ \A k \in 1 .. n : \A l \in 1 .. Len(ss[k]) : \E i \in 1 .. Len(t) : sec[i] = k /\ off[i] = l
  BY <1>3 DEF Places
<1>6. /\ \A i \in 1 .. Len(t) : sec2[i] = sec[i] /\ off2[i] = off[i] /\ i \in 1 .. Len(u) /\ u[i] = t[i]
      /\ \A i \in 1 .. Len(u) : i > Len(t) =>
            sec2[i] = n + 1 /\ off2[i] = i - Len(t) /\ off2[i] \in 1 .. Len(v) /\ u[i] = v[off2[i]]
  <2>1. Len(u) \in Nat /\ Len(t) <= Len(u)
    BY <1>2, <1>4
  <2>2. \A i \in 1 .. Len(t) : i \in 1 .. Len(u) /\ i <= Len(t)
    BY <1>2, <2>1
  <2>3. \A i \in 1 .. Len(t) : sec2[i] = sec[i] /\ off2[i] = off[i]
    BY <2>2
  <2>4. \A i \in 1 .. Len(t) : u[i] = t[i]
    BY <1>4, <2>2
  <2>5. \A i \in 1 .. Len(u) : i > Len(t) => sec2[i] = n + 1 /\ off2[i] = i - Len(t)
    BY <1>2, <2>1
  <2>6. \A i \in 1 .. Len(u) : i > Len(t) => i - Len(t) \in 1 .. Len(v) /\ u[i] = v[i - Len(t)]
    BY <1>2, <1>4
  <2> HIDE DEF sec2, off2
  <2> QED BY <2>2, <2>3, <2>4, <2>5, <2>6
<1>7. sec2 \in [1 .. Len(u) -> 1 .. n + 1] /\ off2 \in [1 .. Len(u) -> Nat]
  <2>1. \A i \in 1 .. Len(u) : sec2[i] \in 1 .. n + 1 /\ off2[i] \in Nat
    <3>1. TAKE i \in 1 .. Len(u)
    <3>2. CASE i <= Len(t)
      <4>1. i \in 1 .. Len(t)
        BY <1>2, <1>4, <3>2
      <4>2. sec[i] \in 1 .. n /\ off[i] \in Nat
        BY <1>5, <4>1
      <4> QED BY <1>6, <4>1, <4>2
    <3>3. CASE i > Len(t)
      BY <1>6, <3>3
    <3> QED BY <1>2, <1>4, <3>2, <3>3
  <2>2. DOMAIN sec2 = 1 .. Len(u) /\ DOMAIN off2 = 1 .. Len(u)
    OBVIOUS
  <2>3. sec2 = [i \in DOMAIN sec2 |-> sec2[i]] /\ off2 = [i \in DOMAIN off2 |-> off2[i]]
    OBVIOUS
  <2> HIDE DEF sec2, off2
  <2> QED BY <2>1, <2>2, <2>3
<1> HIDE DEF sec2, off2, v
<1>8. \A i \in 1 .. Len(u) : off2[i] \in 1 .. Len(ss[sec2[i]]) /\ u[i] = ss[sec2[i]][off2[i]]
  <2>1. TAKE i \in 1 .. Len(u)
  <2>2. CASE i <= Len(t)
    <3>1. i \in 1 .. Len(t)
      BY <1>2, <1>4, <2>2
    <3> QED BY <1>5, <1>6, <3>1
  <2>3. CASE i > Len(t)
    BY <1>6, <2>3 DEF v
  <2> QED BY <1>2, <1>4, <2>2, <2>3
<1>9. \A i, j \in 1 .. Len(u) : i < j => sec2[i] < sec2[j] \/ (sec2[i] = sec2[j] /\ off2[i] < off2[j])
  <2>1. TAKE i, j \in 1 .. Len(u)
  <2>2. HAVE i < j
  <2>3. CASE j <= Len(t)
    <3>1. i \in 1 .. Len(t) /\ j \in 1 .. Len(t)
      BY <1>2, <1>4, <2>2, <2>3
    <3> QED BY <1>5, <1>6, <2>2, <3>1
  <2>4. CASE i <= Len(t) /\ j > Len(t)
    <3>1. i \in 1 .. Len(t)
      BY <1>2, <1>4, <2>4
    <3>2. sec2[i] \in 1 .. n /\ sec2[j] = n + 1
      BY <1>5, <1>6, <2>4, <3>1
    <3> QED BY <3>2
  <2>5. CASE i > Len(t)
    <3>1. j > Len(t)
      BY <1>2, <1>4, <2>2, <2>5
    <3>2. sec2[i] = sec2[j] /\ off2[i] = i - Len(t) /\ off2[j] = j - Len(t)
      BY <1>6, <2>5, <3>1
    <3> QED BY <1>2, <1>4, <2>2, <3>2
  <2> QED BY <1>2, <1>4, <2>3, <2>4, <2>5
<1>10. \A k \in 1 .. n + 1 : \A l \in 1 .. Len(ss[k]) : \E i \in 1 .. Len(u) : sec2[i] = k /\ off2[i] = l
  <2>1. TAKE k \in 1 .. n + 1
  <2>2. TAKE l \in 1 .. Len(ss[k])
  <2>3. CASE k = n + 1
    <3>1. l \in 1 .. Len(v)
      BY <2>3 DEF v
    <3>2. Len(t) + l \in 1 .. Len(u) /\ Len(t) + l > Len(t) /\ Len(t) + l - Len(t) = l
      BY <1>2, <1>4, <3>1
    <3> QED BY <1>6, <2>3, <3>2
  <2>4. CASE k # n + 1
    <3>1. k \in 1 .. n
      BY <2>4
    <3>2. PICK i \in 1 .. Len(t) : sec[i] = k /\ off[i] = l
      BY <1>5, <3>1
    <3> QED BY <1>6, <3>2
  <2> QED BY <2>3, <2>4
<1>11. Places(ss, n + 1, u, sec2, off2)
  BY <1>7, <1>8, <1>9, <1>10 DEF Places
<1> QED
  BY <1>4, <1>11 DEF Flattened

(* FlattenSeq joins them all: by induction on how many.                    *)
LEMMA FlattenFacts ==
    ASSUME NEW X, NEW ss \in Seq(Seq(X))
    PROVE  Flattened(X, ss, Len(ss), FlattenSeq(ss))
<1> DEFINE n == Len(ss)
           Trace(f) == f = [i \in 1 .. n |-> IF i = 1 THEN ss[i] ELSE f[i - 1] \o ss[i]]
<1>1. n \in Nat /\ \A i \in 1 .. n : ss[i] \in Seq(X)
  OBVIOUS
<1>2. CASE n = 0
  <2>1. FlattenSeq(ss) = ss /\ ss = <<>>
    BY <1>1, <1>2 DEF FlattenSeq
  <2>2. <<>> \in Seq(X) /\ Len(<<>>) = 0
    OBVIOUS
  <2> DEFINE e == [i \in 1 .. 0 |-> 0]
  <2>3. Places(ss, 0, <<>>, e, e)
    BY <2>2 DEF Places
  <2>4. Flattened(X, ss, 0, <<>>)
    BY <2>2, <2>3 DEF Flattened
  <2> QED BY <1>2, <2>1, <2>4
<1>3. CASE n # 0
  <2>1. FlattenSeq(ss) = (CHOOSE f : Trace(f))[n]
    BY <1>3 DEF FlattenSeq
  <2>2. n - 1 \in Nat /\ 1 \in 1 .. n
    BY <1>1, <1>3
  <2> HIDE DEF n
  <2>3. \E f : Trace(f)
    <3> DEFINE F == [x \in (1 .. n) \X Seq(X) |-> x[2] \o ss[x[1] + 1]]
    <3>1. PICK g : g = [i \in 0 .. n - 1 |-> IF i = 0 THEN ss[1] ELSE F[<<i, g[i - 1]>>]]
      <4> HIDE DEF F
      <4>1. \E g : Iteration(g, n - 1, ss[1], F)
        BY <2>2, Iterated
      <4> QED BY <4>1 DEF Iteration
    <3>2. \A i \in 1 .. n : \A x \in Seq(X) : F[<<i, x>>] = x \o ss[i + 1]
      OBVIOUS
    <3> HIDE DEF F
    <3>3. \A i \in 0 .. n - 1 : g[i] \in Seq(X)
      <4> DEFINE I == {i \in 0 .. n - 1 : ~(g[i] \in Seq(X))}
      <4>1. /\ I \in SUBSET Nat /\ (\A i \in I : i \in 0 .. n - 1 /\ ~(g[i] \in Seq(X)))
            /\ \A i \in 0 .. n - 1 : i \notin I => g[i] \in Seq(X)
        BY <2>2
      <4> HIDE DEF I
      <4>2. SUFFICES ASSUME I # {} PROVE FALSE
        BY <4>1
      <4>3. PICK i \in I : \A k \in I : i <= k
        BY <4>1, <4>2, LeastOf
      <4>4. i # 0
        <5>1. g[0] = ss[1]
          BY <2>2, <3>1
        <5> QED BY <1>1, <2>2, <4>1, <5>1
      <4>5. i \in 1 .. n /\ i + 1 \in 1 .. n /\ i - 1 \in 0 .. n - 1 /\ ~(i <= i - 1)
        BY <1>1, <4>1, <4>4
      <4>6. g[i - 1] \in Seq(X) /\ g[i] = F[<<i, g[i - 1]>>]
        BY <3>1, <4>1, <4>3, <4>4, <4>5
      <4>7. g[i] = g[i - 1] \o ss[i + 1] /\ ss[i + 1] \in Seq(X)
        BY <1>1, <3>2, <4>5, <4>6
      <4>8. g[i - 1] \o ss[i + 1] \in Seq(X)
        BY <4>6, <4>7, ConcatProperties
      <4> QED BY <4>1, <4>3, <4>7, <4>8
    <3> DEFINE f == [i \in 1 .. n |-> g[i - 1]]
    <3>4. \A i \in 1 .. n : f[i] = IF i = 1 THEN ss[i] ELSE f[i - 1] \o ss[i]
      <4>1. TAKE i \in 1 .. n
      <4>2. CASE i = 1
        BY <2>2, <3>1, <4>2
      <4>3. CASE i # 1
        <5>1. i - 1 \in 0 .. n - 1 /\ i - 1 # 0 /\ i - 1 \in 1 .. n /\ i - 1 - 1 \in 0 .. n - 1 /\ i - 1 + 1 = i
          BY <1>1, <4>3
        <5>2. g[i - 1] = F[<<i - 1, g[i - 1 - 1]>>]
          BY <3>1, <5>1
        <5>3. g[i - 1] = g[i - 1 - 1] \o ss[i]
          BY <3>2, <3>3, <5>1, <5>2
        <5>4. f[i] = g[i - 1] /\ f[i - 1] = g[i - 1 - 1]
          BY <5>1
        <5> QED BY <4>3, <5>3, <5>4
      <4> QED BY <4>2, <4>3
    <3>5. DOMAIN f = 1 .. n /\ f = [i \in DOMAIN f |-> f[i]]
      OBVIOUS
    <3>6. f = [i \in 1 .. n |-> IF i = 1 THEN ss[i] ELSE f[i - 1] \o ss[i]]
      <4> HIDE DEF f
      <4>1. f = [i \in 1 .. n |-> f[i]]
        BY <3>5
      <4> QED BY <3>4, <4>1
    <3>7. Trace(f)
      BY <3>6
    <3> HIDE DEF f, Trace
    <3> QED BY <3>7
  <2> DEFINE W == CHOOSE f : Trace(f)
  <2>4. Trace(W)
    BY <2>3
  <2> HIDE DEF W
  <2>5. \A i \in 1 .. n : W[i] = IF i = 1 THEN ss[i] ELSE W[i - 1] \o ss[i]
    BY <2>4
  <2> DEFINE Good(i) == Flattened(X, ss, i, W[i])
             I == {i \in 1 .. n : ~Good(i)}
  <2>6. \A i \in 1 .. n : Good(i)
    <3>1. /\ I \in SUBSET Nat /\ (\A i \in I : i \in 1 .. n /\ ~Good(i))
          /\ \A i \in 1 .. n : i \notin I => Good(i)
      BY <1>1
    <3>2. Good(1)
      <4>1. W[1] = ss[1] /\ ss[1] \in Seq(X)
        BY <1>1, <2>2, <2>5
      <4> QED BY <4>1, FlattenedFirst
    <3> HIDE DEF I, Good
    <3>3. SUFFICES ASSUME I # {} PROVE FALSE
      BY <3>1
    <3>4. PICK i \in I : \A k \in I : i <= k
      BY <3>1, <3>3, LeastOf
    <3>5. i # 1
      BY <3>1, <3>2
    <3>6. i \in 1 .. n /\ i - 1 \in 1 .. n /\ ~(i <= i - 1) /\ i - 1 \in Nat /\ i - 1 + 1 = i
      BY <1>1, <3>1, <3>5
    <3>7. Flattened(X, ss, i - 1, W[i - 1])
      BY <3>1, <3>4, <3>6 DEF Good
    <3>8. W[i] = W[i - 1] \o ss[i - 1 + 1] /\ ss[i - 1 + 1] \in Seq(X)
      BY <1>1, <2>5, <3>5, <3>6
    <3>9. Flattened(X, ss, i - 1 + 1, W[i])
      BY <3>6, <3>7, <3>8, FlattenedNext
    <3> QED BY <3>1, <3>6, <3>9 DEF Good
  <2>7. n \in 1 .. n
    BY <1>1, <1>3
  <2> QED BY <2>1, <2>6, <2>7 DEF W, n
<1> QED
  BY <1>2, <1>3

(* A function takes no more values than it has arguments.                  *)
LEMMA ImageFacts ==
    ASSUME NEW D, IsFiniteSet(D), NEW f, f = [x \in D |-> f[x]], NEW B, B = {f[x] : x \in D}
    PROVE  IsFiniteSet(B) /\ Cardinality(B) <= Cardinality(D)
<1>1. f \in [D -> B]
  <2>1. \A x \in D : f[x] \in B
    OBVIOUS
  <2> QED BY <2>1
<1>2. f \in Surjection(D, B)
  BY <1>1 DEF Surjection
<1> QED
  BY <1>2, FS_Surjection

(* Where no element is there twice, each has its place.                    *)
LEMMA PlaceOf ==
    ASSUME NEW X, NEW s \in Seq(X), \A i, j \in 1 .. Len(s) : s[i] = s[j] => i = j
    PROVE  /\ \A i \in 1 .. Len(s) : Place(s, s[i]) = i
           /\ \A x \in ToSet(s) : Place(s, x) \in 1 .. Len(s) /\ s[Place(s, x)] = x
<1>1. \A x \in ToSet(s) : Place(s, x) \in 1 .. Len(s) /\ s[Place(s, x)] = x
  <2>1. TAKE x \in ToSet(s)
  <2>2. PICK k : k = Place(s, x)
    OBVIOUS
  <2>3. \/ k \in 1 .. Len(s) /\ s[k] = x /\ \A i \in 1 .. k - 1 : s[i] # x
        \/ k = 0 /\ x \notin ToSet(s)
    BY <2>2, FoundAt
  <2> QED BY <2>2, <2>3
<1>2. \A i \in 1 .. Len(s) : s[i] \in ToSet(s)
  BY SeqFacts
<1> QED
  BY <1>1, <1>2

(* A rising sequence has no element twice.                                 *)
LEMMA RisingFacts ==
    ASSUME NEW S, S \subseteq Nat, NEW k \in Nat, NEW s, Rising(s, k, S)
    PROVE  /\ s \in Seq(S) /\ Len(s) = k /\ ToSet(s) \subseteq S
           /\ \A i, j \in 1 .. Len(s) : s[i] = s[j] => i = j
<1>1. s \in Seq(S) /\ Len(s) = k /\ ToSet(s) \subseteq S
  BY SeqFacts DEF Rising
<1>2. \A i, j \in 1 .. k : s[i] = s[j] => i = j
  <2>1. SUFFICES ASSUME NEW i \in 1 .. k, NEW j \in 1 .. k, s[i] = s[j], i < j PROVE FALSE
    OBVIOUS
  <2>2. s[i] \in Nat /\ s[j] \in Nat /\ s[i] < s[j]
    BY <2>1 DEF Rising
  <2> QED BY <2>1, <2>2
<1> QED
  BY <1>1, <1>2

=============================================================================
