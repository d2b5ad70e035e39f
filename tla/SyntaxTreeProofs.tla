-------------------------- MODULE SyntaxTreeProofs --------------------------
(***************************************************************************)
(* Theorems about SyntaxTree: that the nodes in a tree and the database    *)
(* they are registered in always describe one another, that a copy is      *)
(* apart from what it was copied from, and that a replaced node's id goes  *)
(* to the node in its place.                                               *)
(***************************************************************************)
EXTENDS SyntaxTree, BasicFacts

---------------------------------------------------------------------------
(* A heap, and one in which L are the nodes there are.                     *)
Heaps == [name : [Nodes -> Nodes \cup {NoNode}], children : [Nodes -> Seq(Nodes)],
          parent : [Nodes -> Nodes \cup {NoNode}], index : [Nodes -> Int],
          id : [Nodes -> Ids \cup {NoId}], nodes : [Ids -> Nodes \cup {NoNode}]]

Closed(h, L) == \A n \in L : ToSet(h.children[n]) \subseteq L

Linked(h, L) ==
    /\ \A p \in L : \A i \in DOMAIN h.children[p] :
          h.parent[h.children[p][i]] = p /\ h.index[h.children[p][i]] = i - 1
    /\ \A c \in L : h.parent[c] # NoNode =>
          h.parent[c] \in L /\ c \in ToSet(h.children[h.parent[c]])

Named(h, L) ==
    /\ \A n \in L : h.name[n] # NoNode /\ h.id[n] # NoId /\ h.nodes[h.id[n]] = n
    /\ \A i \in Ids : h.nodes[i] # NoNode => h.nodes[i] \in L /\ h.id[h.nodes[i]] = i

(* No node is below itself: a part of the tree has a node without children *)
(* there.                                                                  *)
Grounded(h, L) ==
    \A T \in SUBSET L : T # {} => \E n \in T : ToSet(h.children[n]) \cap T = {}

Well(h, L) ==
    /\ h \in Heaps /\ L \subseteq Nodes
    /\ Closed(h, L) /\ Linked(h, L) /\ Named(h, L) /\ Grounded(h, L)

(* What is not a node any more is blank.                                   *)
Blank(h, L) ==
    \A n \in Nodes \ L : /\ h.name[n] = NoNode /\ h.children[n] = <<>> /\ h.parent[n] = NoNode
                         /\ h.index[n] = 0 /\ h.id[n] = NoId

(* The file holds a tree: each section has an id of its own, and its       *)
(* parent, but for the root's, comes before it.                            *)
Sections == [id : Ids, name : Nodes, parent : Ids \cup {NoId}]

FileInv ==
    /\ file \in Seq(Sections) /\ Len(file) <= MaxNodes
    /\ \A i, j \in DOMAIN file : file[i].id = file[j].id => i = j
    /\ \A i \in DOMAIN file : IF i = 1 THEN file[i].parent = NoId
                              ELSE \E j \in 1 .. i - 1 : file[j].id = file[i].parent

---------------------------------------------------------------------------
(* Lowest(S, k) lists k of S in ascending order, and all of S if it has k  *)
(* elements.                                                               *)
LEMMA LowestFacts ==
    ASSUME NEW S, S \subseteq Nat, IsFiniteSet(S), NEW k \in 0 .. Cardinality(S)
    PROVE  /\ Rising(Lowest(S, k), k, S)
           /\ k = Cardinality(S) => Covers(Lowest(S, k), S)
<1> DEFINE n == Cardinality(S)
           l == Lowest(S, k)
           r == [x \in S |-> Cardinality({y \in S : y < x})]
<1>1. n \in Nat /\ (\A x \in S : r[x] \in 0 .. n - 1) /\ \A x, z \in S : x < z => r[x] < r[z]
  BY RankFacts
<1>2. l = [i \in 1 .. k |-> CHOOSE x \in S : Cardinality({y \in S : y < x}) = i - 1]
  BY DEF Lowest
<1>b. \A x \in S : r[x] = Cardinality({y \in S : y < x})
  OBVIOUS
<1> DEFINE N == 0 .. n - 1
           R == {r[x] : x \in S}
<1>a. r \in [S -> N]
  <2>1. r = [x \in DOMAIN r |-> r[x]] /\ DOMAIN r = S
    OBVIOUS
  <2> HIDE DEF r, n
  <2> QED BY <1>1, <2>1
<1> HIDE DEF r, l
<1>3. \A x, z \in S : r[x] = r[z] => x = z
  <2>1. TAKE x, z \in S
  <2>2. x \in Nat /\ z \in Nat /\ r[x] \in Int /\ r[z] \in Int
    BY <1>1
  <2> HIDE DEF n
  <2> QED BY <1>1, <2>2
<1>4. R = N
  <2>1. R \subseteq N
    BY <1>1
  <2>2. IsFiniteSet(N) /\ Cardinality(N) = n
    <3>1. 0 \in Int /\ n - 1 \in Int /\ n \in Nat
      BY <1>1
    <3> HIDE DEF n
    <3>2. IsFiniteSet(N) /\ Cardinality(N) = IF 0 > n - 1 THEN 0 ELSE n - 1 - 0 + 1
      BY <3>1, FS_Interval
    <3> QED BY <3>1, <3>2
  <2>3. Cardinality(R) = n
    <3>1. r \in Injection(S, R)
      <4>1. r \in [S -> R]
        BY <1>a
      <4> QED BY <1>3, <4>1 DEF Injection, IsInjective
    <3>2. r \in Surjection(S, R)
      BY <1>a DEF Surjection
    <3>3. r \in Bijection(S, R)
      BY <3>1, <3>2 DEF Bijection
    <3> QED BY <3>3, FS_Bijection DEF ExistsBijection
  <2> QED BY <2>1, <2>2, <2>3, FS_Subset
<1>5. \A i \in 1 .. k : l[i] \in S /\ r[l[i]] = i - 1
  <2>1. TAKE i \in 1 .. k
  <2>2. i - 1 \in N
    BY <1>1
  <2>3. \E x \in S : Cardinality({y \in S : y < x}) = i - 1
    BY <1>4, <1>b, <2>2
  <2>4. l[i] = CHOOSE x \in S : Cardinality({y \in S : y < x}) = i - 1
    BY <1>2
  <2> QED BY <1>b, <2>3, <2>4
<1>6. l \in Seq(S) /\ Len(l) = k /\ DOMAIN l = 1 .. k
  <2>1. k \in Nat /\ DOMAIN l = 1 .. k
    BY <1>1, <1>2
  <2>2. l \in [1 .. k -> S]
    BY <1>2, <1>5
  <2> QED BY <2>1, <2>2
<1>7. \A i, j \in 1 .. k : i < j => l[i] < l[j]
  <2>1. SUFFICES ASSUME NEW i \in 1 .. k, NEW j \in 1 .. k, i < j, ~(l[i] < l[j]) PROVE FALSE
    OBVIOUS
  <2>2. l[i] \in S /\ l[j] \in S /\ l[i] \in Nat /\ l[j] \in Nat
    BY <1>5
  <2>3. l[i] = l[j] \/ r[l[j]] < r[l[i]]
    BY <1>1, <2>1, <2>2
  <2>4. r[l[i]] = i - 1 /\ r[l[j]] = j - 1
    BY <1>5
  <2> QED BY <2>1, <2>3, <2>4
<1>8. ASSUME k = n, NEW x \in S PROVE \E i \in 1 .. k : l[i] = x
  <2>1. r[x] \in N /\ r[x] + 1 \in 1 .. k
    BY <1>1, <1>8
  <2>2. r[l[r[x] + 1]] = r[x] + 1 - 1 /\ l[r[x] + 1] \in S
    BY <1>5, <2>1
  <2>3. r[x] + 1 - 1 = r[x]
    BY <2>1
  <2>4. l[r[x] + 1] = x
    BY <1>3, <2>2, <2>3
  <2> QED BY <2>1, <2>4
<1> QED
  BY <1>5, <1>6, <1>7, <1>8 DEF l, Rising, Covers

PartOf(X, s, S, t) ==
    \E l : /\ t \in Seq(X) /\ Len(t) = Cardinality(S) /\ DOMAIN t = 1 .. Len(t)
           /\ l \in [1 .. Len(t) -> S]
           /\ \A i \in 1 .. Len(t) : t[i] = s[l[i]]
           /\ \A i, j \in 1 .. Len(t) : i < j => l[i] < l[j]
           /\ \A x \in S : \E i \in 1 .. Len(t) : l[i] = x

(* Part(s, S) keeps the order of s, and all of its elements at the places  *)
(* S.                                                                      *)
LEMMA PartFacts ==
    ASSUME NEW X, NEW s \in Seq(X), NEW S, S \subseteq 1 .. Len(s), NEW t, t = Part(s, S)
    PROVE  PartOf(X, s, S, t)
<1> DEFINE n == Cardinality(S)
<1>1. Len(s) \in Nat /\ \A i \in 1 .. Len(s) : s[i] \in X
  BY SeqFacts
<1>2. IsFiniteSet(S) /\ S \subseteq Nat
  <2>1. IsFiniteSet(1 .. Len(s))
    BY <1>1, FS_Interval
  <2>2. S \in SUBSET (1 .. Len(s))
    OBVIOUS
  <2>3. IsFiniteSet(S)
    BY ONLY <2>1, <2>2, FS_Subset
  <2> QED BY <1>1, <2>3
<1>3. n \in Nat /\ n \in 0 .. n
  BY <1>2, FS_CardinalityType
<1>4. PICK l : l = Lowest(S, n)
  OBVIOUS
<1>5. Rising(l, n, S) /\ Covers(l, S)
  BY <1>2, <1>3, <1>4, LowestFacts
<1>6. t = [k \in 1 .. n |-> s[l[k]]]
  BY <1>4 DEF Part
<1>7. l \in [1 .. n -> S]
  <2>1. l = [i \in 1 .. n |-> CHOOSE x \in S : Cardinality({y \in S : y < x}) = i - 1]
    BY <1>4 DEF Lowest
  <2> HIDE DEF n
  <2> QED BY <1>5, <2>1 DEF Rising
<1>8. t \in Seq(X) /\ Len(t) = n /\ DOMAIN t = 1 .. n
  <2> HIDE DEF n
  <2>1. t \in [1 .. n -> X]
    BY <1>1, <1>5, <1>6 DEF Rising
  <2> QED BY <1>3, <2>1
<1>9. \A x \in S : \E i \in 1 .. n : l[i] = x
  BY <1>5 DEF Rising, Covers
<1>10. \A i \in 1 .. n : t[i] = s[l[i]]
  BY <1>6
<1>11. \A i, j \in 1 .. n : i < j => l[i] < l[j]
  BY <1>5 DEF Rising
<1> HIDE DEF n
<1>12. Len(t) = Cardinality(S)
  BY <1>8 DEF n
<1> QED
  BY <1>7, <1>8, <1>9, <1>10, <1>11, <1>12 DEF PartOf

---------------------------------------------------------------------------
(* B are the nodes of S and those below them.                              *)
Reach(h, S, B) ==
    /\ S \subseteq B /\ B \subseteq Nodes
    /\ \A m \in B : ToSet(h.children[m]) \subseteq B
    /\ \A T : S \subseteq T /\ (\A m \in T \cap B : ToSet(h.children[m]) \subseteq T) => B \subseteq T

(* After as many steps down as there can be nodes, none is new.            *)
LEMMA BelowFacts ==
    ASSUME NEW h, h.children \in [Nodes -> Seq(Nodes)], NEW S, S \subseteq Nodes
    PROVE  Reach(h, S, Below(h, S))
<1> DEFINE M == MaxNodes
           kids(m) == ToSet(h.children[m])
           step(A) == A \cup UNION {kids(m) : m \in A}
           Trace(f) == f = [n \in 0 .. M |-> IF n = 0 THEN S ELSE step(f[n - 1])]
<1>0. M \in Nat
  BY BoundAssumption
<1>1. \A m \in Nodes : kids(m) \subseteq Nodes
  <2>1. TAKE m \in Nodes
  <2>2. h.children[m] \in Seq(Nodes)
    OBVIOUS
  <2> QED BY <2>2, SeqFacts
<1>2. Below(h, S) = (CHOOSE f : Trace(f))[M]
  BY DEF Below
<1>3. \E f : Trace(f)
  <2> DEFINE D == SUBSET Nodes
             F == [x \in (1 .. M) \X D |-> step(x[2])]
  <2>1. PICK f : f = [i \in 0 .. M |-> IF i = 0 THEN S ELSE F[<<i, f[i - 1]>>]]
    <3> HIDE DEF F, M
    <3>1. \E f : Iteration(f, M, S, F)
      BY <1>0, Iterated
    <3> QED BY <3>1 DEF Iteration
  <2>2. \A A \in D : step(A) \in D
    BY <1>1
  <2>3. \A i \in 1 .. M : \A A \in D : F[<<i, A>>] = step(A)
    OBVIOUS
  <2> HIDE DEF F, step, kids, M
  <2>4. \A i \in 0 .. M : f[i] \in D
    <3> DEFINE I == {i \in 0 .. M : ~(f[i] \in D)}
    <3>1. I \in SUBSET Nat /\ (\A i \in I : i \in 0 .. M /\ ~(f[i] \in D))
          /\ \A i \in 0 .. M : i \notin I => f[i] \in D
      BY <1>0
    <3> HIDE DEF I
    <3>2. SUFFICES ASSUME I # {} PROVE FALSE
      BY <3>1
    <3>3. PICK i \in I : \A k \in I : i <= k
      BY <3>1, <3>2, LeastOf
    <3>4. i # 0
      BY <2>1, <1>0, <3>1
    <3>5. i \in 1 .. M /\ i - 1 \in 0 .. M /\ ~(i <= i - 1)
      BY <1>0, <3>1, <3>4
    <3>6. f[i - 1] \in D
      BY <3>1, <3>3, <3>5
    <3>7. f[i] = F[<<i, f[i - 1]>>]
      BY <2>1, <3>1, <3>4
    <3> QED BY <2>2, <2>3, <3>1, <3>5, <3>6, <3>7
  <2>5. \A i \in 0 .. M : f[i] = IF i = 0 THEN S ELSE step(f[i - 1])
    <3>1. TAKE i \in 0 .. M
    <3>2. CASE i = 0
      BY <2>1, <3>2
    <3>3. CASE i # 0
      <4>1. i \in 1 .. M /\ i - 1 \in 0 .. M
        BY <1>0, <3>3
      <4>2. f[i] = F[<<i, f[i - 1]>>]
        BY <2>1, <3>3
      <4> QED BY <2>3, <2>4, <4>1, <4>2, <3>3
    <3> QED BY <3>2, <3>3
  <2>6. DOMAIN f = 0 .. M
    BY <2>1
  <2>7. f = [i \in DOMAIN f |-> f[i]]
    BY <2>1
  <2>8. Trace(f)
    BY <2>5, <2>6, <2>7
  <2> HIDE DEF Trace
  <2> QED BY <2>8
<1> DEFINE W == CHOOSE f : Trace(f)
<1>4. Trace(W)
  BY <1>3
<1> HIDE DEF W
<1>5. Below(h, S) = W[M]
  BY <1>2 DEF W
<1>6. W[0] = S /\ \A i \in 1 .. M : W[i] = step(W[i - 1])
  <2>1. \A i \in 0 .. M : W[i] = IF i = 0 THEN S ELSE step(W[i - 1])
    BY <1>4
  <2>2. 0 \in 0 .. M /\ \A i \in 1 .. M : i \in 0 .. M /\ i # 0
    BY <1>0
  <2> QED BY <2>1, <2>2
<1> DEFINE closed(A) == \A m \in A : kids(m) \subseteq A
           Good(i) == /\ S \subseteq W[i] /\ W[i] \subseteq Nodes
                      /\ closed(W[i]) \/ Cardinality(W[i]) > i
           I == {i \in 0 .. M : ~Good(i)}
<1>7. IsFiniteSet(Nodes) /\ Cardinality(Nodes) = M
  <2> HIDE DEF M
  <2>1. 1 \in Int /\ M \in Int
    BY <1>0
  <2>2. IsFiniteSet(1 .. M) /\ Cardinality(1 .. M) = IF 1 > M THEN 0 ELSE M - 1 + 1
    BY <2>1, FS_Interval
  <2> QED BY <1>0, <2>2 DEF Nodes, M
<1>8. \A A : A \subseteq Nodes => IsFiniteSet(A) /\ Cardinality(A) \in Nat /\ Cardinality(A) <= M
  BY <1>7, FS_Subset, FS_CardinalityType
<1>9. \A i \in 0 .. M : Good(i)
  <2>1. /\ I \in SUBSET Nat /\ (\A i \in I : i \in 0 .. M /\ ~Good(i))
        /\ \A i \in 0 .. M : i \notin I => Good(i)
    BY <1>0
  <2> HIDE DEF I, Good
  <2>2. SUFFICES ASSUME I # {} PROVE FALSE
    BY <2>1
  <2>3. PICK i \in I : \A k \in I : i <= k
    BY <2>1, <2>2, LeastOf
  <2>4. i # 0
    <3>1. Good(0)
      <4>1. CASE S = {}
        BY <1>6, <4>1 DEF Good
      <4>2. CASE S # {}
        <5>1. Cardinality(S) # 0
          BY <1>8, <4>2, FS_EmptySet
        <5>2. Cardinality(S) > 0
          BY <1>8, <5>1
        <5> QED BY <1>6, <5>2 DEF Good
      <4> QED BY <4>1, <4>2
    <3> QED BY <2>1, <3>1
  <2>5. i \in 1 .. M /\ i - 1 \in 0 .. M /\ ~(i <= i - 1)
    BY <1>0, <2>1, <2>4
  <2>6. Good(i - 1)
    BY <2>1, <2>3, <2>5
  <2>7. W[i] = step(W[i - 1])
    BY <1>6, <2>5
  <2>8. S \subseteq W[i] /\ W[i] \subseteq Nodes /\ W[i - 1] \subseteq W[i]
    BY <1>1, <2>6, <2>7 DEF Good
  <2>9. CASE closed(W[i - 1])
    <3>1. W[i] = W[i - 1]
      BY <2>7, <2>9
    <3> QED BY <2>1, <2>8, <2>9, <3>1 DEF Good
  <2>10. CASE ~closed(W[i - 1])
    <3>1. PICK x \in W[i] : x \notin W[i - 1]
      BY <2>7, <2>10
    <3> DEFINE A == W[i - 1]
               B == W[i]
    <3>2. Cardinality(A) > i - 1
      BY <2>6, <2>10 DEF Good
    <3>3. A \subseteq Nodes /\ A \cup {x} \subseteq B /\ B \subseteq Nodes /\ x \notin A
      BY <2>6, <2>8, <3>1
    <3> HIDE DEF A, B
    <3>4. Cardinality(A \cup {x}) = Cardinality(A) + 1
      BY <1>8, <3>3, FS_AddElement
    <3>5. Cardinality(A \cup {x}) <= Cardinality(B)
      BY <1>8, <3>3, FS_Subset
    <3>6. Cardinality(A) \in Nat /\ Cardinality(B) \in Nat
      BY <1>8, <3>3
    <3>7. Cardinality(B) > i
      BY <2>5, <3>2, <3>4, <3>5, <3>6
    <3> QED BY <2>1, <2>8, <3>7 DEF Good, B
  <2> QED BY <2>9, <2>10
<1>10. S \subseteq W[M] /\ W[M] \subseteq Nodes /\ closed(W[M])
  <2>1. Good(M)
    BY <1>0, <1>9
  <2>2. Cardinality(W[M]) \in Nat /\ Cardinality(W[M]) <= M
    BY <1>8, <2>1
  <2>3. ~(Cardinality(W[M]) > M)
    BY <1>0, <2>2
  <2> QED BY <2>1, <2>3
<1>11. ASSUME NEW T, S \subseteq T, \A m \in T \cap W[M] : kids(m) \subseteq T
       PROVE  W[M] \subseteq T
  <2>0. \A i \in 0 .. M : W[i] \subseteq W[M]
    <3> DEFINE G(i) == W[i] \subseteq W[M]
               K == {i \in 0 .. M : ~G(M - i)}
    <3>1. /\ K \in SUBSET Nat /\ (\A i \in K : i \in 0 .. M /\ ~G(M - i))
          /\ \A i \in 0 .. M : i \notin K => G(M - i)
      BY <1>0
    <3>2. G(M - 0)
      BY <1>0
    <3> HIDE DEF K, G
    <3>3. SUFFICES ASSUME K # {} PROVE FALSE
      <4>1. TAKE i \in 0 .. M
      <4>2. M - i \in 0 .. M /\ M - (M - i) = i
        BY <1>0
      <4>3. G(i)
        BY <3>1, <4>2
      <4> QED BY <4>3 DEF G
    <3>4. PICK i \in K : \A k \in K : i <= k
      BY <3>1, <3>3, LeastOf
    <3>5. i # 0
      BY <3>1, <3>2
    <3>6. i - 1 \in 0 .. M /\ ~(i <= i - 1) /\ M - (i - 1) \in 1 .. M /\ M - (i - 1) - 1 = M - i
      BY <1>0, <3>1, <3>5
    <3>7. G(M - (i - 1))
      BY <3>1, <3>4, <3>6
    <3>8. W[M - (i - 1)] = step(W[M - i])
      BY <1>6, <3>6
    <3>9. G(M - i)
      BY <3>7, <3>8 DEF G
    <3> QED BY <3>1, <3>9
  <2> DEFINE K == {i \in 0 .. M : ~(W[i] \subseteq T)}
  <2>1. /\ K \in SUBSET Nat /\ (\A i \in K : i \in 0 .. M /\ ~(W[i] \subseteq T))
        /\ \A i \in 0 .. M : i \notin K => W[i] \subseteq T
    BY <1>0
  <2> HIDE DEF K
  <2>2. SUFFICES ASSUME K # {} PROVE FALSE
    BY <1>0, <2>1
  <2>3. PICK i \in K : \A k \in K : i <= k
    BY <2>1, <2>2, LeastOf
  <2>4. i # 0
    BY <1>6, <1>11, <2>1
  <2>5. i \in 1 .. M /\ i - 1 \in 0 .. M /\ ~(i <= i - 1)
    BY <1>0, <2>1, <2>4
  <2>6. W[i - 1] \subseteq T /\ W[i - 1] \subseteq W[M]
    BY <2>0, <2>1, <2>3, <2>5
  <2>7. W[i] = step(W[i - 1])
    BY <1>6, <2>5
  <2>8. W[i] \subseteq T
    BY <1>11, <2>6, <2>7
  <2> QED BY <2>1, <2>8
<1> QED
  BY <1>5, <1>10, <1>11 DEF Reach

(* There is only one such set.                                             *)
LEMMA ReachOnce ==
    ASSUME NEW h, NEW S, NEW A, NEW B, Reach(h, S, A), Reach(h, S, B)
    PROVE  A = B
<1>1. A \subseteq B
  BY DEF Reach
<1>2. B \subseteq A
  BY DEF Reach
<1> QED
  BY <1>1, <1>2

---------------------------------------------------------------------------
(* What is left after a collection is as sound as what was there, and      *)
(* nothing else is left.                                                   *)
LEMMA HeapFields ==
    ASSUME NEW h \in Heaps
    PROVE  /\ h.name \in [Nodes -> Nodes \cup {NoNode}] /\ h.children \in [Nodes -> Seq(Nodes)]
           /\ h.parent \in [Nodes -> Nodes \cup {NoNode}] /\ h.index \in [Nodes -> Int]
           /\ h.id \in [Nodes -> Ids \cup {NoId}] /\ h.nodes \in [Ids -> Nodes \cup {NoNode}]
BY DEF Heaps

(* Nodes and ids are numbers, and neither is the mark of none.             *)
LEMMA NodesAreNumbers == NoNode \notin Nodes /\ NoId \notin Ids /\ MaxNodes \in Nat
                         /\ (\A n \in Nodes : n \in Nat) /\ (\A i \in Ids : i \in Nat)
BY BoundAssumption DEF Nodes, Ids, NoNode, NoId

(* The collected heap, field by field.                                     *)
CollectedTo(h, A, c) ==
    /\ c \in Heaps
    /\ \A n \in A : /\ c.name[n] = h.name[n] /\ c.children[n] = h.children[n]
                    /\ c.id[n] = h.id[n]
                    /\ c.parent[n] = IF h.parent[n] \in A THEN h.parent[n] ELSE NoNode
                    /\ c.index[n] = IF h.parent[n] \in A THEN h.index[n] ELSE 0
    /\ Blank(c, A)
    /\ \A i \in Ids : c.nodes[i] = IF h.nodes[i] \in A THEN h.nodes[i] ELSE NoNode

(* Collected does that.                                                    *)
LEMMA CollectedFields ==
    ASSUME NEW h \in Heaps, NEW holding, Below(h, holding) \subseteq Nodes
    PROVE  CollectedTo(h, Below(h, holding), Collected(h, holding))
<1> DEFINE A == Below(h, holding)
           c == Collected(h, holding)
<1>1. c = [name |-> [n \in Nodes |-> IF n \in A THEN h.name[n] ELSE NoNode],
         children |-> [n \in Nodes |-> IF n \in A THEN h.children[n] ELSE <<>>],
         parent |-> [n \in Nodes |->
             IF n \in A /\ h.parent[n] \in A THEN h.parent[n] ELSE NoNode],
         index |-> [n \in Nodes |-> IF n \in A /\ h.parent[n] \in A THEN h.index[n] ELSE 0],
         id |-> [n \in Nodes |-> IF n \in A THEN h.id[n] ELSE NoId],
         nodes |-> [i \in Ids |-> IF h.nodes[i] \in A THEN h.nodes[i] ELSE NoNode]]
  BY DEF Collected
<1> HIDE DEF A, c
<1>2. A \subseteq Nodes
  BY DEF A
<1>3. c.name \in [Nodes -> Nodes \cup {NoNode}]
  BY <1>1, HeapFields
<1>4. c.children \in [Nodes -> Seq(Nodes)]
  BY <1>1, HeapFields
<1>5. c.parent \in [Nodes -> Nodes \cup {NoNode}]
  BY <1>1, HeapFields
<1>6. c.index \in [Nodes -> Int]
  BY <1>1, HeapFields
<1>7. c.id \in [Nodes -> Ids \cup {NoId}]
  BY <1>1, HeapFields
<1>8. c.nodes \in [Ids -> Nodes \cup {NoNode}]
  BY <1>1, HeapFields
<1>9. c \in Heaps
  <2>1. c = [name |-> c.name, children |-> c.children, parent |-> c.parent,
             index |-> c.index, id |-> c.id, nodes |-> c.nodes]
    BY <1>1
  <2> QED BY <1>3, <1>4, <1>5, <1>6, <1>7, <1>8, <2>1 DEF Heaps
<1>10. \A n \in A : /\ c.name[n] = h.name[n] /\ c.children[n] = h.children[n]
                    /\ c.id[n] = h.id[n]
                    /\ c.parent[n] = IF h.parent[n] \in A THEN h.parent[n] ELSE NoNode
                    /\ c.index[n] = IF h.parent[n] \in A THEN h.index[n] ELSE 0
  BY <1>1, <1>2
<1>11. Blank(c, A)
  BY <1>1 DEF Blank
<1>12. \A i \in Ids : c.nodes[i] = IF h.nodes[i] \in A THEN h.nodes[i] ELSE NoNode
  BY <1>1
<1> QED
  BY <1>9, <1>10, <1>11, <1>12 DEF CollectedTo, A, c

(* In a heap that is well, what is below nodes there are is there.         *)
LEMMA WellReach ==
    ASSUME NEW h, NEW L, Well(h, L), NEW S, S \subseteq L
    PROVE  Reach(h, S, Below(h, S)) /\ Below(h, S) \subseteq L
<1>1. h \in Heaps /\ S \subseteq Nodes /\ h.children \in [Nodes -> Seq(Nodes)]
  BY HeapFields DEF Well
<1>2. Reach(h, S, Below(h, S))
  BY <1>1, BelowFacts
<1>3. \A m \in L : ToSet(h.children[m]) \subseteq L
  BY DEF Well, Closed
<1> QED
  BY <1>2, <1>3 DEF Reach

(* A sequence of nodes, and what is in it.                                 *)
LEMMA Listed ==
    ASSUME NEW h \in Heaps, NEW n \in Nodes
    PROVE  /\ h.children[n] \in Seq(Nodes) /\ Len(h.children[n]) \in Nat
           /\ DOMAIN h.children[n] = 1 .. Len(h.children[n])
           /\ ToSet(h.children[n]) \subseteq Nodes
           /\ \A x : x \in ToSet(h.children[n]) <=>
                     \E i \in 1 .. Len(h.children[n]) : h.children[n][i] = x
<1>1. h.children[n] \in Seq(Nodes)
  BY HeapFields
<1> QED
  BY <1>1, SeqFacts

(* What is left of a heap that is well when only some nodes are held is    *)
(* well, and it is all that is below those.                                *)
LEMMA Collection ==
    ASSUME NEW h, NEW L, Well(h, L), NEW holding, holding \subseteq L,
           NEW A, A = Below(h, holding), NEW c, c = Collected(h, holding)
    PROVE  /\ holding \subseteq A /\ A \subseteq L /\ CollectedTo(h, A, c)
           /\ Well(c, A) /\ Blank(c, A) /\ A = Below(c, holding)
           /\ A = {n \in Nodes : c.id[n] # NoId}
<1>1. Reach(h, holding, A) /\ A \subseteq L
  BY WellReach
<1>2. h \in Heaps /\ L \subseteq Nodes /\ A \subseteq Nodes
  BY <1>1 DEF Well
<1>3. CollectedTo(h, A, c)
  BY <1>2, CollectedFields
<1>4. c \in Heaps /\ Blank(c, A)
  BY <1>3 DEF CollectedTo
<1>5. \A m \in A : ToSet(c.children[m]) = ToSet(h.children[m]) /\ ToSet(h.children[m]) \subseteq A
  BY <1>1, <1>3 DEF CollectedTo, Reach
<1>6. Reach(c, holding, A)
  <2>1. holding \subseteq A /\ A \subseteq Nodes
    BY <1>1 DEF Reach
  <2>2. ASSUME NEW T, holding \subseteq T, \A m \in T \cap A : ToSet(c.children[m]) \subseteq T
        PROVE  A \subseteq T
    BY <1>1, <1>5, <2>2 DEF Reach
  <2> QED BY <1>5, <2>1, <2>2 DEF Reach
<1>7. A = Below(c, holding)
  <2>1. Reach(c, holding, Below(c, holding))
    <3>1. holding \subseteq Nodes /\ c.children \in [Nodes -> Seq(Nodes)]
      BY <1>2, <1>4, HeapFields
    <3> QED BY <3>1, BelowFacts
  <2> QED BY <1>6, <2>1, ReachOnce
<1>8. Closed(c, A)
  BY <1>5 DEF Closed
<1>9. Linked(c, A)
  <2>1. ASSUME NEW p \in A, NEW i \in DOMAIN c.children[p]
        PROVE  c.parent[c.children[p][i]] = p /\ c.index[c.children[p][i]] = i - 1
    <3>1. c.children[p] = h.children[p] /\ i \in DOMAIN h.children[p]
      BY <1>3, <2>1 DEF CollectedTo
    <3> DEFINE x == h.children[p][i]
    <3>2. h.parent[x] = p /\ h.index[x] = i - 1
      BY <1>1, <3>1 DEF Well, Linked
    <3>3. x \in A
      <4>1. p \in Nodes /\ h.children[p][i] \in ToSet(h.children[p])
        BY <1>2, <3>1 DEF ToSet
      <4> QED BY <1>5, <4>1
    <3> HIDE DEF x
    <3>4. c.parent[x] = p /\ c.index[x] = i - 1
      BY <1>3, <3>2, <3>3 DEF CollectedTo
    <3> QED BY <3>1, <3>4 DEF x
  <2>2. ASSUME NEW x \in A, c.parent[x] # NoNode
        PROVE  c.parent[x] \in A /\ x \in ToSet(c.children[c.parent[x]])
    <3>1. h.parent[x] \in A /\ c.parent[x] = h.parent[x]
      BY <1>3, <2>2 DEF CollectedTo
    <3>2. h.parent[x] # NoNode
      BY <1>2, <3>1, NodesAreNumbers
    <3>3. x \in ToSet(h.children[h.parent[x]])
      BY <1>1, <3>2 DEF Well, Linked
    <3> QED BY <1>5, <3>1, <3>3
  <2> QED BY <2>1, <2>2 DEF Linked
<1>10. Named(c, A)
  <2>1. ASSUME NEW n \in A PROVE c.name[n] # NoNode /\ c.id[n] # NoId /\ c.nodes[c.id[n]] = n
    <3>1. h.name[n] # NoNode /\ h.id[n] # NoId /\ h.nodes[h.id[n]] = n
      BY <1>1 DEF Well, Named
    <3>2. h.id[n] \in Ids
      BY <1>2, <3>1, HeapFields
    <3> QED BY <1>3, <3>1, <3>2 DEF CollectedTo
  <2>2. ASSUME NEW i \in Ids, c.nodes[i] # NoNode PROVE c.nodes[i] \in A /\ c.id[c.nodes[i]] = i
    <3>1. h.nodes[i] \in A /\ c.nodes[i] = h.nodes[i]
      BY <1>3, <2>2 DEF CollectedTo
    <3>2. h.nodes[i] # NoNode
      BY <1>2, <3>1, NodesAreNumbers
    <3>3. h.id[h.nodes[i]] = i
      BY <3>2 DEF Well, Named
    <3> QED BY <1>3, <3>1, <3>3 DEF CollectedTo
  <2> QED BY <2>1, <2>2 DEF Named
<1>11. Grounded(c, A)
  <2>1. SUFFICES ASSUME NEW T \in SUBSET A, T # {}
                 PROVE  \E n \in T : ToSet(c.children[n]) \cap T = {}
    BY DEF Grounded
  <2>2. T # {} /\ T \in SUBSET L
    BY <1>1, <2>1
  <2>3. PICK n \in T : ToSet(h.children[n]) \cap T = {}
    BY <1>1, <2>2 DEF Well, Grounded
  <2> QED BY <1>5, <2>3
<1>12. A = {n \in Nodes : c.id[n] # NoId}
  BY <1>2, <1>4, <1>10 DEF Blank, Named
<1> QED
  BY <1>1, <1>2, <1>3, <1>4, <1>7, <1>8, <1>9, <1>10, <1>11, <1>12 DEF Well, Reach

(* The tree part of the invariant.                                         *)
HeapInv ==
    /\ held \subseteq Nodes /\ Live = Below(Heap, held)
    /\ Well(Heap, Live) /\ Blank(Heap, Live)

(* So a step to a heap that is well, with what is held in it, keeps the    *)
(* invariant of the heap.                                                  *)
LEMMA Becoming ==
    ASSUME NEW h, NEW L, Well(h, L), NEW holding, holding \subseteq L, Becomes(h, holding)
    PROVE  HeapInv' /\ held' = holding /\ Heap' = Collected(h, holding)
           /\ Live' = Below(h, holding)
<1> DEFINE A == Below(h, holding)
           c == Collected(h, holding)
<1>1. /\ held' = holding
      /\ name' = c.name /\ children' = c.children /\ parent' = c.parent
      /\ index' = c.index /\ id' = c.id /\ nodes' = c.nodes
  BY DEF Becomes
<1>2. c = [name |-> c.name, children |-> c.children, parent |-> c.parent,
           index |-> c.index, id |-> c.id, nodes |-> c.nodes]
  BY DEF Collected
<1> HIDE DEF A, c
<1>3. Heap' = c
  BY <1>1, <1>2 DEF Heap
<1>4. /\ holding \subseteq A /\ A \subseteq L /\ CollectedTo(h, A, c)
      /\ Well(c, A) /\ Blank(c, A) /\ A = Below(c, holding)
      /\ A = {n \in Nodes : c.id[n] # NoId}
  BY Collection DEF A, c
<1>5. Live' = A
  BY <1>1, <1>4 DEF Live
<1>6. L \subseteq Nodes
  BY DEF Well
<1>7. Below(Heap, held)' = A
  <2>1. Below(Heap, held)' = Below(Heap', held')
    BY DEF Below
  <2> QED BY <1>1, <1>3, <1>4, <2>1
<1>8. Well(Heap, Live)' /\ Blank(Heap, Live)'
  <2>1. Well(Heap, Live)' = Well(Heap', Live')
    BY DEF Well, Closed, Linked, Named, Grounded
  <2>2. Blank(Heap, Live)' = Blank(Heap', Live')
    BY DEF Blank
  <2> QED BY <1>3, <1>4, <1>5, <2>1, <2>2
<1> QED
  BY <1>1, <1>3, <1>5, <1>6, <1>7, <1>8 DEF HeapInv, A, c

---------------------------------------------------------------------------
(* Where there are fewer links, less is below.                             *)
LEMMA Fewer ==
    ASSUME NEW h, NEW S, NEW A, Reach(h, S, A), NEW g, NEW T, NEW B, Reach(g, T, B),
           T \subseteq A, \A m \in A : ToSet(g.children[m]) \subseteq A
    PROVE  B \subseteq A
BY DEF Reach

(* A link more, from a node that is not below the other end of it, makes   *)
(* no circle.                                                              *)
LEMMA LinkAdded ==
    ASSUME NEW h, NEW L, Grounded(h, L), NEW p, NEW c, NEW B, Reach(h, {c}, B), p \notin B,
           NEW r, \A n \in L \ {p} : ToSet(r.children[n]) \subseteq ToSet(h.children[n]),
           ToSet(r.children[p]) \subseteq ToSet(h.children[p]) \cup {c}
    PROVE  Grounded(r, L)
<1>1. SUFFICES ASSUME NEW T \in SUBSET L, T # {}
               PROVE  \E n \in T : ToSet(r.children[n]) \cap T = {}
  BY DEF Grounded
<1>2. CASE T \cap B # {}
  <2>1. T \cap B \in SUBSET L
    OBVIOUS
  <2>2. PICK n \in T \cap B : ToSet(h.children[n]) \cap (T \cap B) = {}
    BY <1>2, <2>1 DEF Grounded
  <2>3. n # p /\ n \in L /\ ToSet(h.children[n]) \subseteq B
    BY <2>2 DEF Reach
  <2> QED BY <2>2, <2>3
<1>3. CASE T \cap B = {}
  <2>1. c \notin T
    BY <1>3 DEF Reach
  <2>2. PICK n \in T : ToSet(h.children[n]) \cap T = {}
    BY <1>1 DEF Grounded
  <2>3. ToSet(r.children[n]) \subseteq ToSet(h.children[n]) \cup {c}
    <3>1. n = p \/ n \in L \ {p}
      OBVIOUS
    <3> QED BY <3>1
  <2> QED BY <2>1, <2>2, <2>3
<1> QED
  BY <1>2, <1>3

(* Links fewer make no circle.                                             *)
LEMMA LinkLess ==
    ASSUME NEW h, NEW L, Grounded(h, L),
           NEW r, \A n \in L : ToSet(r.children[n]) \subseteq ToSet(h.children[n])
    PROVE  Grounded(r, L)
<1>1. SUFFICES ASSUME NEW T \in SUBSET L, T # {}
               PROVE  \E n \in T : ToSet(r.children[n]) \cap T = {}
  BY DEF Grounded
<1>2. PICK n \in T : ToSet(h.children[n]) \cap T = {}
  BY <1>1 DEF Grounded
<1> QED
  BY <1>2

(* What is below a node is the node, or below a child of it.               *)
LEMMA BelowChild ==
    ASSUME NEW h, NEW L, Well(h, L), NEW n \in L, NEW x \in Below(h, {n}), x # n
    PROVE  \E m \in ToSet(h.children[n]) : m \in L /\ x \in Below(h, {m})
<1> DEFINE K == ToSet(h.children[n])
           A == {n} \cup UNION {Below(h, {m}) : m \in K}
<1>1. K \subseteq L
  BY DEF Well, Closed
<1>2. \A m \in K : Reach(h, {m}, Below(h, {m}))
  BY <1>1, WellReach
<1>3. Reach(h, {n}, Below(h, {n}))
  BY WellReach
<1>4. K \subseteq A
  <2>1. \A m \in K : m \in Below(h, {m})
    BY <1>2 DEF Reach
  <2> QED BY <2>1
<1>5. \A m \in A : ToSet(h.children[m]) \subseteq A
  <2>1. TAKE m \in A
  <2>2. CASE m = n
    BY <1>4, <2>2
  <2>3. CASE m # n
    <3>1. PICK k \in K : m \in Below(h, {k})
      BY <2>3
    <3>2. ToSet(h.children[m]) \subseteq Below(h, {k})
      BY <1>2, <3>1 DEF Reach
    <3> QED BY <3>1, <3>2
  <2> QED BY <2>2, <2>3
<1>6. x \in A
  <2>1. n \in A
    OBVIOUS
  <2> HIDE DEF A
  <2> QED BY <1>3, <1>5, <2>1 DEF Reach
<1> QED
  BY <1>1, <1>6

(* No node is below a child of its own.                                    *)
LEMMA NotBelowChild ==
    ASSUME NEW h, NEW L, Well(h, L), NEW p \in L, NEW c \in ToSet(h.children[p])
    PROVE  p \notin Below(h, {c})
<1> DEFINE T == {x \in L : p \in Below(h, {x})}
<1>1. SUFFICES ASSUME p \in Below(h, {c}) PROVE FALSE
  OBVIOUS
<1>2. c \in L /\ c \in T
  BY <1>1 DEF Well, Closed
<1>3. PICK n \in T : ToSet(h.children[n]) \cap T = {}
  BY <1>2 DEF Well, Grounded
<1>4. n = p
  <2>1. SUFFICES ASSUME n # p PROVE FALSE
    OBVIOUS
  <2>2. n \in L /\ p \in Below(h, {n})
    BY <1>3
  <2>3. PICK m \in ToSet(h.children[n]) : m \in L /\ p \in Below(h, {m})
    BY <2>1, <2>2, BelowChild
  <2> QED BY <1>3, <2>3
<1> QED
  BY <1>2, <1>3, <1>4

(* A node with no parent is below no other; one with a parent is below     *)
(* another only if its parent is.                                          *)
LEMMA BelowHasParent ==
    ASSUME NEW h, NEW L, Well(h, L), NEW n \in L, NEW x \in Below(h, {n}), x # n
    PROVE  h.parent[x] \in Below(h, {n}) /\ x \in ToSet(h.children[h.parent[x]])
<1> DEFINE B == Below(h, {n})
           A == {n} \cup {y \in B : h.parent[y] \in B /\ y \in ToSet(h.children[h.parent[y]])}
<1>1. Reach(h, {n}, B) /\ B \subseteq L /\ L \subseteq Nodes /\ h \in Heaps
  BY WellReach DEF Well
<1>2. \A m \in B : ToSet(h.children[m]) \subseteq A
  <2>1. TAKE m \in B
  <2>2. SUFFICES ASSUME NEW y \in ToSet(h.children[m]) PROVE y \in A
    OBVIOUS
  <2>3. m \in L /\ y \in B
    BY <1>1 DEF Reach
  <2>4. PICK i \in 1 .. Len(h.children[m]) : h.children[m][i] = y
    <3>1. m \in Nodes /\ h \in Heaps
      BY <1>1, <2>3
    <3>2. \A z : z \in ToSet(h.children[m]) <=>
                    \E i \in 1 .. Len(h.children[m]) : h.children[m][i] = z
      BY ONLY <3>1, Listed
    <3> QED BY <2>2, <3>2
  <2>5. i \in DOMAIN h.children[m]
    BY <1>1, Listed
  <2>6. h.parent[y] = m
    BY <2>3, <2>4, <2>5 DEF Well, Linked
  <2> QED BY <2>2, <2>3, <2>6
<1>3. A \subseteq B
  BY <1>1 DEF Reach
<1>4. n \in A
  OBVIOUS
<1> HIDE DEF A, B
<1>5. B \subseteq A
  BY <1>1, <1>2, <1>3, <1>4 DEF Reach
<1> QED
  BY <1>5 DEF A, B

(* A child has its parent, and is listed once.                             *)
Family(h, L, p, s) ==
           /\ s \in Seq(Nodes) /\ Len(s) \in Nat /\ DOMAIN s = 1 .. Len(s) /\ ToSet(s) \subseteq L
           /\ \A i \in 1 .. Len(s) : /\ s[i] \in L /\ s[i] \in Nodes /\ s[i] \in ToSet(s)
                                     /\ h.parent[s[i]] = p /\ h.index[s[i]] = i - 1
           /\ \A i, j \in 1 .. Len(s) : s[i] = s[j] => i = j
           /\ \A x \in ToSet(s) : \E i \in 1 .. Len(s) : s[i] = x
           /\ \A x \in L : h.parent[x] = p => x \in ToSet(s)

(* The children of a node are its family, for every node of a heap that is *)
(* well.                                                                   *)
LEMMA ChildFacts ==
    ASSUME NEW h, NEW L, Well(h, L), NEW p \in L
    PROVE  Family(h, L, p, h.children[p])
<1> DEFINE s == h.children[p]
<1>1. h \in Heaps /\ L \subseteq Nodes /\ p \in Nodes /\ p # NoNode
  BY NodesAreNumbers DEF Well
<1>2. /\ s \in Seq(Nodes) /\ Len(s) \in Nat /\ DOMAIN s = 1 .. Len(s)
      /\ \A x : x \in ToSet(s) <=> \E i \in 1 .. Len(s) : s[i] = x
  <2>1. h \in Heaps /\ p \in Nodes
    BY <1>1
  <2> DEFINE u == h.children[p]
  <2>2. u \in Seq(Nodes) /\ Len(u) \in Nat /\ DOMAIN u = 1 .. Len(u)
    BY <2>1, Listed
  <2>3. \A x : x \in ToSet(u) <=> \E i \in 1 .. Len(u) : u[i] = x
    BY <2>1, Listed
  <2> QED BY <2>2, <2>3
<1>3. ToSet(s) \subseteq L
  BY DEF Well, Closed
<1>4. \A i \in 1 .. Len(s) : h.parent[s[i]] = p /\ h.index[s[i]] = i - 1
  BY <1>2 DEF Well, Linked
<1>5. \A i, j \in 1 .. Len(s) : s[i] = s[j] => i = j
  <2>1. TAKE i, j \in 1 .. Len(s)
  <2>2. HAVE s[i] = s[j]
  <2>3. i - 1 = j - 1
    BY <1>4, <2>2
  <2> QED BY <1>2, <2>3
<1>6. \A x \in L : h.parent[x] = p => x \in ToSet(s)
  BY <1>1 DEF Well, Linked
<1> QED
  BY <1>1, <1>2, <1>3, <1>4, <1>5, <1>6 DEF Family

---------------------------------------------------------------------------
(* r is h, but that c is no child of p any more.                           *)
TakenOut(h, r, p, c, at) ==
    /\ r \in Heaps /\ r.name = h.name /\ r.id = h.id /\ r.nodes = h.nodes
    /\ r.parent = [h.parent EXCEPT ![c] = NoNode]
    /\ \A n \in Nodes \ {p} : r.children[n] = h.children[n]
    /\ at \in 1 .. Len(h.children[p]) /\ h.children[p][at] = c
    /\ Len(r.children[p]) = Len(h.children[p]) - 1
    /\ \A i \in 1 .. Len(h.children[p]) - 1 :
          r.children[p][i] = IF i < at THEN h.children[p][i] ELSE h.children[p][i + 1]
    /\ \A x \in Nodes \ {c} :
          r.index[x] = IF \E i \in at + 1 .. Len(h.children[p]) : h.children[p][i] = x
                       THEN h.index[x] - 1 ELSE h.index[x]

(* A heap with other links.                                                *)
LEMMA HeapWith ==
    ASSUME NEW h \in Heaps, NEW children1 \in [Nodes -> Seq(Nodes)],
           NEW parent1 \in [Nodes -> Nodes \cup {NoNode}], NEW index1 \in [Nodes -> Int],
           NEW r, r = [name |-> h.name, children |-> children1, parent |-> parent1,
                       index |-> index1, id |-> h.id, nodes |-> h.nodes]
    PROVE  r \in Heaps
<1>1. /\ h.name \in [Nodes -> Nodes \cup {NoNode}] /\ h.id \in [Nodes -> Ids \cup {NoId}]
      /\ h.nodes \in [Ids -> Nodes \cup {NoNode}]
  BY HeapFields
<1> QED
  BY <1>1 DEF Heaps

(* remove_child does that, at the place of the child.                      *)
LEMMA RemovedFields ==
    ASSUME NEW h, NEW L, Well(h, L), NEW c \in L, h.parent[c] # NoNode,
           NEW p, p = h.parent[c]
    PROVE  \E at : TakenOut(h, Removed(h, c), p, c, at)
<1> DEFINE s == h.children[p]
           at == SelectInSeq(s, LAMBDA n : n = c)
           after == {s[i] : i \in at + 1 .. Len(s)}
           t == RemoveAt(s, at)
           index1 == [n \in Nodes |-> CASE n = c -> 0
                                        [] n \in after -> h.index[n] - 1
                                        [] OTHER -> h.index[n]]
           r == Removed(h, c)
<1>1. h \in Heaps /\ L \subseteq Nodes /\ p \in L /\ p \in Nodes /\ c \in Nodes /\ c \in ToSet(s)
  BY NodesAreNumbers DEF Well, Linked
<1>2. /\ s \in Seq(Nodes) /\ Len(s) \in Nat
      /\ \A i \in 1 .. Len(s) : s[i] \in Nodes
  BY <1>1, ChildFacts DEF Family
<1>3. at \in 1 .. Len(s) /\ s[at] = c
  <2>1. PICK k : k = at /\ k = Place(s, c)
    BY DEF Place
  <2>2. \/ k \in 1 .. Len(s) /\ s[k] = c /\ \A i \in 1 .. k - 1 : s[i] # c
        \/ k = 0 /\ c \notin ToSet(s)
    <3> HIDE DEF s
    <3> QED BY <1>2, <2>1, FoundAt
  <2> QED BY <1>1, <2>1, <2>2
<1>4. r = [h EXCEPT !.children = [h.children EXCEPT ![p] = t],
                    !.parent = [h.parent EXCEPT ![c] = NoNode], !.index = index1]
  BY DEF Removed
<1> HIDE DEF r, s, at
<1>5. /\ t \in Seq(Nodes) /\ Len(t) = Len(s) - 1
      /\ \A i \in 1 .. Len(s) - 1 : t[i] = IF i < at THEN s[i] ELSE s[i + 1]
  <2>1. PICK u : u = t
    OBVIOUS
  <2>2. u \in Seq(Nodes) /\ Len(u) = Len(s) - 1
        /\ \A i \in 1 .. Len(s) - 1 : u[i] = IF i < at THEN s[i] ELSE s[i + 1]
    BY <1>2, <1>3, <2>1, LeftOutAt
  <2> QED BY <2>1, <2>2
<1> HIDE DEF t
<1>6. index1 \in [Nodes -> Int] /\ DOMAIN index1 = Nodes
  <2>1. \A n \in Nodes : h.index[n] \in Int
    BY <1>1, HeapFields
  <2> HIDE DEF after
  <2>2. \A n \in Nodes : index1[n] = CASE n = c -> 0
                                        [] n \in after -> h.index[n] - 1
                                        [] OTHER -> h.index[n]
    OBVIOUS
  <2>3. \A n \in Nodes : index1[n] \in Int
    BY <2>1, <2>2
  <2> QED BY <2>3
<1>7. \A x \in Nodes \ {c} :
          index1[x] = IF \E i \in at + 1 .. Len(s) : s[i] = x THEN h.index[x] - 1 ELSE h.index[x]
  <2>1. TAKE x \in Nodes \ {c}
  <2>2. index1[x] = IF x \in after THEN h.index[x] - 1 ELSE h.index[x]
    <3> HIDE DEF after
    <3> QED OBVIOUS
  <2>3. x \in after <=> \E i \in at + 1 .. Len(s) : s[i] = x
    OBVIOUS
  <2> HIDE DEF after, index1
  <2> QED BY <2>2, <2>3
<1> HIDE DEF index1
<1> DEFINE children1 == [h.children EXCEPT ![p] = t]
           parent1 == [h.parent EXCEPT ![c] = NoNode]
<1>8. children1 \in [Nodes -> Seq(Nodes)] /\ parent1 \in [Nodes -> Nodes \cup {NoNode}]
  BY <1>1, <1>5, HeapFields
<1>9. r = [name |-> h.name, children |-> children1, parent |-> parent1, index |-> index1,
           id |-> h.id, nodes |-> h.nodes]
  BY <1>1, <1>4 DEF Heaps
<1>10. r \in Heaps
  <2> HIDE DEF children1, parent1
  <2> QED BY ONLY <1>1, <1>6, <1>8, <1>9, HeapWith
<1>11. r.children[p] = t /\ \A n \in Nodes \ {p} : r.children[n] = h.children[n]
  BY <1>1, <1>9, HeapFields
<1>12. r.name = h.name /\ r.id = h.id /\ r.nodes = h.nodes /\ r.parent = parent1 /\ r.index = index1
  BY <1>9
<1>13. TakenOut(h, r, p, c, at)
  BY <1>3, <1>5, <1>7, <1>10, <1>11, <1>12 DEF TakenOut, s
<1> QED
  BY <1>13 DEF r

(* A child taken out leaves the heap well.                                 *)
LEMMA RemovedIsWell ==
    ASSUME NEW h, NEW L, Well(h, L), NEW p \in L, NEW c \in L, NEW r, NEW at,
           TakenOut(h, r, p, c, at)
    PROVE  Well(r, L) /\ \A n \in L : ToSet(r.children[n]) \subseteq ToSet(h.children[n])
<1> DEFINE s == h.children[p]
           t == r.children[p]
<1>1. h \in Heaps /\ r \in Heaps /\ L \subseteq Nodes /\ p \in Nodes /\ c \in Nodes
  BY DEF Well, TakenOut
<1>2. /\ s \in Seq(Nodes) /\ Len(s) \in Nat /\ ToSet(s) \subseteq L
      /\ \A i \in 1 .. Len(s) : /\ s[i] \in L /\ s[i] \in Nodes /\ s[i] \in ToSet(s)
                                /\ h.parent[s[i]] = p /\ h.index[s[i]] = i - 1
      /\ \A i, j \in 1 .. Len(s) : s[i] = s[j] => i = j
      /\ \A x \in ToSet(s) : \E i \in 1 .. Len(s) : s[i] = x
  BY ChildFacts DEF Family
<1>3. at \in 1 .. Len(s) /\ s[at] = c /\ h.parent[c] = p /\ p # NoNode
  BY <1>1, <1>2, NodesAreNumbers DEF TakenOut
<1>4. /\ DOMAIN t = 1 .. Len(s) - 1
      /\ \A i \in 1 .. Len(s) - 1 : t[i] = IF i < at THEN s[i] ELSE s[i + 1]
  <2>1. Len(t) = Len(s) - 1
        /\ \A i \in 1 .. Len(s) - 1 : t[i] = IF i < at THEN s[i] ELSE s[i + 1]
    BY DEF TakenOut
  <2>2. DOMAIN t = 1 .. Len(t)
    BY <1>1, Listed
  <2> QED BY <2>1, <2>2
<1>5. \A x \in Nodes \ {c} : /\ r.parent[x] = h.parent[x]
                             /\ r.index[x] = IF \E i \in at + 1 .. Len(s) : s[i] = x
                                             THEN h.index[x] - 1 ELSE h.index[x]
  BY <1>1, HeapFields DEF TakenOut
<1>6. r.parent[c] = NoNode /\ \A n \in Nodes \ {p} : r.children[n] = h.children[n]
  BY <1>1, HeapFields DEF TakenOut
<1> HIDE DEF s, t
<1>7. \A i \in 1 .. Len(s) - 1 : \E j \in 1 .. Len(s) :
          t[i] = s[j] /\ j # at /\ j = IF i < at THEN i ELSE i + 1
  BY <1>2, <1>3, <1>4
<1>8. \A i \in 1 .. Len(s) - 1 : t[i] # c /\ r.parent[t[i]] = p /\ r.index[t[i]] = i - 1
  <2>1. TAKE i \in 1 .. Len(s) - 1
  <2>2. PICK j \in 1 .. Len(s) : t[i] = s[j] /\ j # at /\ j = IF i < at THEN i ELSE i + 1
    BY <1>7
  <2>3. s[j] # c /\ s[j] \in Nodes \ {c}
    BY <1>2, <1>3, <2>2
  <2>4. r.parent[s[j]] = p /\ h.index[s[j]] = j - 1
    BY <1>2, <1>5, <2>3
  <2>5. (\E k \in at + 1 .. Len(s) : s[k] = s[j]) <=> j > at
    <3>1. \A k \in at + 1 .. Len(s) : k \in 1 .. Len(s) /\ k > at
      BY <1>2, <1>3
    <3>2. \A k \in at + 1 .. Len(s) : s[k] = s[j] => k = j
      BY <1>2, <3>1
    <3>3. j > at => j \in at + 1 .. Len(s)
      BY <1>2, <1>3
    <3> QED BY <3>1, <3>2, <3>3
  <2>6. r.index[s[j]] = IF j > at THEN j - 1 - 1 ELSE j - 1
    BY <1>5, <2>3, <2>4, <2>5
  <2>7. r.index[s[j]] = i - 1
    BY <1>2, <1>3, <2>2, <2>6
  <2> QED BY <2>2, <2>3, <2>4, <2>7
<1>9. ToSet(t) \subseteq ToSet(s)
  <2>1. SUFFICES ASSUME NEW x \in ToSet(t) PROVE x \in ToSet(s)
    OBVIOUS
  <2>2. PICK i \in 1 .. Len(s) - 1 : t[i] = x
    BY <1>4 DEF ToSet
  <2>3. PICK j \in 1 .. Len(s) : t[i] = s[j]
    BY <1>7
  <2> QED BY <1>2, <2>2, <2>3
<1>10. \A n \in L : ToSet(r.children[n]) \subseteq ToSet(h.children[n])
  <2>1. TAKE n \in L
  <2>2. CASE n = p
    BY <1>9, <2>2 DEF s, t
  <2>3. CASE n # p
    BY <1>1, <1>6, <2>3
  <2> QED BY <2>2, <2>3
<1>11. Closed(r, L)
  BY <1>10 DEF Well, Closed
<1>12. Linked(r, L)
  <2>1. ASSUME NEW q \in L, NEW i \in DOMAIN r.children[q]
        PROVE  r.parent[r.children[q][i]] = q /\ r.index[r.children[q][i]] = i - 1
    <3>1. CASE q = p
      <4>1. i \in 1 .. Len(s) - 1
        BY <1>4, <2>1, <3>1 DEF t
      <4> QED BY <1>8, <3>1, <4>1 DEF t
    <3>2. CASE q # p
      <4> DEFINE u == h.children[q]
                 x == u[i]
      <4>1. r.children[q] = u /\ q \in Nodes
        BY <1>1, <1>6, <3>2
      <4>2. DOMAIN u = 1 .. Len(u) /\ \A j \in 1 .. Len(u) : u[j] \in Nodes /\ h.parent[u[j]] = q /\ h.index[u[j]] = j - 1
        BY ChildFacts DEF Family
      <4>3. i \in 1 .. Len(u)
        BY <2>1, <4>1, <4>2
      <4>4. x \in Nodes /\ h.parent[x] = q /\ h.index[x] = i - 1
        BY <4>2, <4>3
      <4> HIDE DEF x, u
      <4>5. x # c /\ ~\E k \in at + 1 .. Len(s) : s[k] = x
        <5>1. \A k \in at + 1 .. Len(s) : h.parent[s[k]] = p
          BY <1>2, <1>3
        <5> QED BY <1>3, <3>2, <4>4, <5>1
      <4>6. r.parent[x] = q /\ r.index[x] = i - 1
        BY <1>5, <4>4, <4>5
      <4> QED BY <4>1, <4>6 DEF x
    <3> QED BY <3>1, <3>2
  <2>2. ASSUME NEW x \in L, r.parent[x] # NoNode
        PROVE  r.parent[x] \in L /\ x \in ToSet(r.children[r.parent[x]])
    <3>1. x # c /\ x \in Nodes /\ r.parent[x] = h.parent[x]
      BY <1>1, <1>5, <1>6, <2>2
    <3>2. h.parent[x] \in L /\ x \in ToSet(h.children[h.parent[x]])
      BY <2>2, <3>1 DEF Well, Linked
    <3>3. CASE h.parent[x] # p
      BY <1>1, <1>6, <3>1, <3>2, <3>3
    <3>4. CASE h.parent[x] = p
      <4>1. PICK j \in 1 .. Len(s) : s[j] = x
        BY <1>2, <3>2, <3>4 DEF s
      <4>2. j # at
        BY <1>3, <3>1, <4>1
      <4>3. \E i \in 1 .. Len(s) - 1 : t[i] = x
        <5>1. CASE j < at
          <6>1. j \in 1 .. Len(s) - 1
            BY <1>2, <1>3, <5>1
          <6>2. t[j] = s[j]
            BY <1>4, <5>1, <6>1
          <6> QED BY <4>1, <6>1, <6>2
        <5>2. CASE j > at
          <6>1. j - 1 \in 1 .. Len(s) - 1 /\ ~(j - 1 < at) /\ j - 1 + 1 = j
            BY <1>2, <1>3, <5>2
          <6> QED BY <1>4, <4>1, <6>1
        <5> QED BY <1>3, <4>2, <5>1, <5>2
      <4>4. x \in ToSet(t)
        BY <1>4, <4>3 DEF ToSet
      <4> QED BY <3>1, <3>2, <3>4, <4>4 DEF t
    <3> QED BY <3>3, <3>4
  <2> QED BY <2>1, <2>2 DEF Linked
<1>13. Named(r, L)
  BY DEF Well, Named, TakenOut
<1>14. Grounded(r, L)
  BY <1>10, LinkLess DEF Well
<1> QED
  BY <1>1, <1>10, <1>11, <1>12, <1>13, <1>14 DEF Well

---------------------------------------------------------------------------
(* r is h, but that c, which had no parent, is the at-th child of p.       *)
PutIn(h, r, p, c, at) ==
    /\ r \in Heaps /\ r.name = h.name /\ r.id = h.id /\ r.nodes = h.nodes
    /\ h.parent[c] = NoNode /\ r.parent = [h.parent EXCEPT ![c] = p]
    /\ \A n \in Nodes \ {p} : r.children[n] = h.children[n]
    /\ at \in 1 .. Len(h.children[p]) + 1
    /\ Len(r.children[p]) = Len(h.children[p]) + 1
    /\ \A i \in 1 .. Len(h.children[p]) + 1 :
          r.children[p][i] = IF i < at THEN h.children[p][i]
                             ELSE IF i = at THEN c ELSE h.children[p][i - 1]
    /\ r.index[c] = at - 1
    /\ \A x \in Nodes \ {c} :
          r.index[x] = IF \E i \in at .. Len(h.children[p]) : h.children[p][i] = x
                       THEN h.index[x] + 1 ELSE h.index[x]

(* A node put in leaves the heap well, if the parent is not below it.      *)
LEMMA PutInIsWell ==
    ASSUME NEW h, NEW L, Well(h, L), NEW p \in L, NEW c \in L, p \notin Below(h, {c}),
           NEW r, NEW at, PutIn(h, r, p, c, at)
    PROVE  Well(r, L) /\ \A n \in L \ {p} : r.children[n] = h.children[n]
<1> DEFINE s == h.children[p]
           t == r.children[p]
<1>1. h \in Heaps /\ r \in Heaps /\ L \subseteq Nodes /\ p \in Nodes /\ c \in Nodes /\ p # NoNode
  BY NodesAreNumbers DEF Well, PutIn
<1>2. /\ s \in Seq(Nodes) /\ Len(s) \in Nat /\ ToSet(s) \subseteq L
      /\ \A i \in 1 .. Len(s) : /\ s[i] \in L /\ s[i] \in Nodes /\ s[i] \in ToSet(s)
                                /\ h.parent[s[i]] = p /\ h.index[s[i]] = i - 1
      /\ \A i, j \in 1 .. Len(s) : s[i] = s[j] => i = j
      /\ \A x \in ToSet(s) : \E i \in 1 .. Len(s) : s[i] = x
  BY ChildFacts DEF Family
<1>3. at \in 1 .. Len(s) + 1 /\ h.parent[c] = NoNode
  BY DEF PutIn
<1>4. /\ DOMAIN t = 1 .. Len(s) + 1
      /\ \A i \in 1 .. Len(s) + 1 :
            t[i] = IF i < at THEN s[i] ELSE IF i = at THEN c ELSE s[i - 1]
  <2>1. Len(t) = Len(s) + 1
        /\ \A i \in 1 .. Len(s) + 1 :
              t[i] = IF i < at THEN s[i] ELSE IF i = at THEN c ELSE s[i - 1]
    BY DEF PutIn
  <2>2. DOMAIN t = 1 .. Len(t)
    BY <1>1, Listed
  <2> QED BY <2>1, <2>2
<1>5. \A x \in Nodes \ {c} : /\ r.parent[x] = h.parent[x]
                             /\ r.index[x] = IF \E i \in at .. Len(s) : s[i] = x
                                             THEN h.index[x] + 1 ELSE h.index[x]
  BY <1>1, HeapFields DEF PutIn
<1>6. /\ r.parent[c] = p /\ r.index[c] = at - 1
      /\ \A n \in Nodes \ {p} : r.children[n] = h.children[n]
  BY <1>1, HeapFields DEF PutIn
<1> HIDE DEF s, t
<1>7. \A i \in 1 .. Len(s) + 1 : i # at =>
          \E j \in 1 .. Len(s) : t[i] = s[j] /\ j = IF i < at THEN i ELSE i - 1
  BY <1>2, <1>3, <1>4
<1>8. \A i \in 1 .. Len(s) + 1 : r.parent[t[i]] = p /\ r.index[t[i]] = i - 1
  <2>1. TAKE i \in 1 .. Len(s) + 1
  <2>2. CASE i = at
    BY <1>3, <1>4, <1>6, <2>2
  <2>3. CASE i # at
    <3>1. PICK j \in 1 .. Len(s) : t[i] = s[j] /\ j = IF i < at THEN i ELSE i - 1
      BY <1>7, <2>3
    <3>2. s[j] # c /\ s[j] \in Nodes \ {c}
      BY <1>1, <1>2, <1>3
    <3>3. r.parent[s[j]] = p /\ h.index[s[j]] = j - 1
      BY <1>2, <1>5, <3>2
    <3>4. (\E k \in at .. Len(s) : s[k] = s[j]) <=> j >= at
      <4>1. \A k \in at .. Len(s) : k \in 1 .. Len(s) /\ k >= at
        BY <1>2, <1>3
      <4>2. \A k \in at .. Len(s) : s[k] = s[j] => k = j
        BY <1>2, <4>1
      <4>3. j >= at => j \in at .. Len(s)
        BY <1>2, <1>3
      <4> QED BY <4>1, <4>2, <4>3
    <3>5. r.index[s[j]] = IF j >= at THEN j - 1 + 1 ELSE j - 1
      BY <1>5, <3>2, <3>3, <3>4
    <3>6. r.index[s[j]] = i - 1
      BY <1>2, <1>3, <2>3, <3>1, <3>5
    <3> QED BY <3>1, <3>3, <3>6
  <2> QED BY <2>2, <2>3
<1>9. ToSet(t) \subseteq ToSet(s) \cup {c}
  <2>1. \A x \in ToSet(t) : \E i \in 1 .. Len(s) + 1 : t[i] = x
    BY <1>4 DEF ToSet
  <2>2. t[at] = c
    BY <1>2, <1>3, <1>4
  <2> QED BY <1>2, <1>7, <2>1, <2>2
<1>10. \A n \in L \ {p} : r.children[n] = h.children[n]
  BY <1>1, <1>6
<1>11. Closed(r, L)
  <2>1. SUFFICES ASSUME NEW n \in L PROVE ToSet(r.children[n]) \subseteq L
    BY DEF Closed
  <2>2. CASE n = p
    BY <1>2, <1>9, <2>2 DEF t
  <2>3. CASE n # p
    BY <1>10, <2>3 DEF Well, Closed
  <2> QED BY <2>2, <2>3
<1>12. Linked(r, L)
  <2>1. ASSUME NEW q \in L, NEW i \in DOMAIN r.children[q]
        PROVE  r.parent[r.children[q][i]] = q /\ r.index[r.children[q][i]] = i - 1
    <3>1. CASE q = p
      <4>1. i \in 1 .. Len(s) + 1
        BY <1>4, <2>1, <3>1 DEF t
      <4> QED BY <1>8, <3>1, <4>1 DEF t
    <3>2. CASE q # p
      <4> DEFINE u == h.children[q]
                 x == u[i]
      <4>1. r.children[q] = u /\ q \in Nodes /\ q # NoNode
        BY <1>1, <1>6, <3>2, NodesAreNumbers
      <4>2. DOMAIN u = 1 .. Len(u) /\ \A j \in 1 .. Len(u) : u[j] \in Nodes /\ h.parent[u[j]] = q /\ h.index[u[j]] = j - 1
        BY ChildFacts DEF Family
      <4>3. i \in 1 .. Len(u)
        BY <2>1, <4>1, <4>2
      <4>4. x \in Nodes /\ h.parent[x] = q /\ h.index[x] = i - 1
        BY <4>2, <4>3
      <4> HIDE DEF x, u
      <4>5. x # c /\ ~\E k \in at .. Len(s) : s[k] = x
        <5>1. \A k \in at .. Len(s) : h.parent[s[k]] = p
          BY <1>2, <1>3
        <5> QED BY <1>3, <3>2, <4>1, <4>4, <5>1
      <4>6. r.parent[x] = q /\ r.index[x] = i - 1
        BY <1>5, <4>4, <4>5
      <4> QED BY <4>1, <4>6 DEF x
    <3> QED BY <3>1, <3>2
  <2>2. ASSUME NEW x \in L, r.parent[x] # NoNode
        PROVE  r.parent[x] \in L /\ x \in ToSet(r.children[r.parent[x]])
    <3>1. CASE x = c
      <4>1. at \in DOMAIN t /\ t[at] = c
        BY <1>2, <1>3, <1>4
      <4>2. c \in ToSet(t)
        BY <4>1 DEF ToSet
      <4> QED BY <1>6, <3>1, <4>2 DEF t
    <3>2. CASE x # c
      <4>1. x \in Nodes /\ r.parent[x] = h.parent[x]
        BY <1>1, <1>5, <3>2
      <4>2. h.parent[x] \in L /\ x \in ToSet(h.children[h.parent[x]])
        BY <2>2, <4>1 DEF Well, Linked
      <4>3. CASE h.parent[x] # p
        BY <1>10, <4>1, <4>2, <4>3
      <4>4. CASE h.parent[x] = p
        <5>1. PICK j \in 1 .. Len(s) : s[j] = x
          BY <1>2, <4>2, <4>4 DEF s
        <5>2. \E i \in 1 .. Len(s) + 1 : t[i] = x
          <6>1. CASE j < at
            BY <1>2, <1>3, <1>4, <5>1, <6>1
          <6>2. CASE j >= at
            <7>1. j + 1 \in 1 .. Len(s) + 1 /\ ~(j + 1 < at) /\ j + 1 # at /\ j + 1 - 1 = j
              BY <1>2, <1>3, <6>2
            <7> QED BY <1>4, <5>1, <7>1
          <6> QED BY <1>3, <6>1, <6>2
        <5>3. x \in ToSet(t)
          BY <1>4, <5>2 DEF ToSet
        <5> QED BY <4>1, <4>2, <4>4, <5>3 DEF t
      <4> QED BY <4>3, <4>4
    <3> QED BY <3>1, <3>2
  <2> QED BY <2>1, <2>2 DEF Linked
<1>13. Named(r, L)
  BY DEF Well, Named, PutIn
<1>14. Grounded(r, L)
  <2>1. Reach(h, {c}, Below(h, {c}))
    BY WellReach
  <2>2. Grounded(h, L)
    BY DEF Well
  <2>3. ToSet(r.children[p]) \subseteq ToSet(h.children[p]) \cup {c}
    BY <1>9 DEF s, t
  <2>4. \A n \in L \ {p} : ToSet(r.children[n]) \subseteq ToSet(h.children[n])
    <3>1. TAKE n \in L \ {p}
    <3>2. r.children[n] = h.children[n]
      BY <1>10
    <3> QED BY <3>2
  <2>5. p \notin Below(h, {c})
    OBVIOUS
  <2> HIDE DEF s, t
  <2> QED BY ONLY <2>1, <2>2, <2>3, <2>4, <2>5, LinkAdded
<1> QED
  BY <1>1, <1>10, <1>11, <1>12, <1>13, <1>14 DEF Well

(* add_child_before does that, at the place of the existing child.         *)
LEMMA AddedBeforeFields ==
    ASSUME NEW h, NEW L, Well(h, L), NEW existing \in L, h.parent[existing] # NoNode,
           NEW c \in L, h.parent[c] = NoNode, NEW p, p = h.parent[existing]
    PROVE  PutIn(h, AddedBefore(h, p, c, existing), p, c, h.index[existing] + 1)
<1> DEFINE s == h.children[p]
           at == h.index[existing] + 1
           moved == {s[i] : i \in at .. Len(s)}
           t == InsertAt(s, at, c)
           index1 == [n \in Nodes |-> CASE n = c -> at - 1
                                        [] n \in moved -> h.index[n] + 1
                                        [] OTHER -> h.index[n]]
           r == AddedBefore(h, p, c, existing)
<1>1. h \in Heaps /\ L \subseteq Nodes /\ p \in L /\ p \in Nodes /\ c \in Nodes /\ existing \in ToSet(s)
  BY NodesAreNumbers DEF Well, Linked
<1>2. /\ s \in Seq(Nodes) /\ Len(s) \in Nat
      /\ \A i \in 1 .. Len(s) : s[i] \in Nodes /\ h.index[s[i]] = i - 1
      /\ \A i \in 1 .. Len(s) : h.parent[s[i]] = p
      /\ \A x \in ToSet(s) : \E i \in 1 .. Len(s) : s[i] = x
  <2>1. Family(h, L, p, s)
    BY <1>1, ChildFacts
  <2> HIDE DEF s
  <2> QED BY <2>1 DEF Family
<1>3. at \in 1 .. Len(s)
  <2>1. PICK i \in 1 .. Len(s) : s[i] = existing
    BY <1>1, <1>2
  <2>2. h.index[existing] = i - 1
    BY <1>2, <2>1
  <2> QED BY <1>2, <2>2
<1>4. r = [h EXCEPT !.parent = [h.parent EXCEPT ![c] = p],
                    !.children = [h.children EXCEPT ![p] = t], !.index = index1]
  BY DEF AddedBefore
<1> HIDE DEF r, s, at
<1>5. /\ t \in Seq(Nodes) /\ Len(t) = Len(s) + 1
      /\ \A i \in 1 .. Len(s) + 1 : t[i] = IF i < at THEN s[i] ELSE IF i = at THEN c ELSE s[i - 1]
  <2>1. PICK u : u = t
    OBVIOUS
  <2>2. at \in 1 .. Len(s) + 1
    BY <1>2, <1>3
  <2>a. u = InsertAt(s, at, c) /\ s \in Seq(Nodes) /\ c \in Nodes
    BY <1>1, <1>2, <2>1
  <2>3. u \in Seq(Nodes) /\ Len(u) = Len(s) + 1
        /\ \A i \in 1 .. Len(s) + 1 : u[i] = IF i < at THEN s[i] ELSE IF i = at THEN c ELSE s[i - 1]
    <3>1. Longer(Nodes, s, at, c, u)
      BY <2>a, <2>2, PutInAt
    <3> QED BY <3>1 DEF Longer
  <2> QED BY <2>1, <2>3
<1> HIDE DEF t
<1>6. index1 \in [Nodes -> Int]
  <2>1. (\A n \in Nodes : h.index[n] \in Int) /\ at - 1 \in Int
    BY <1>1, <1>3, HeapFields
  <2> HIDE DEF moved
  <2>2. \A n \in Nodes : index1[n] = CASE n = c -> at - 1
                                        [] n \in moved -> h.index[n] + 1
                                        [] OTHER -> h.index[n]
    OBVIOUS
  <2>3. \A n \in Nodes : index1[n] \in Int
    BY <2>1, <2>2
  <2> QED BY <2>3
<1>7. index1[c] = at - 1 /\ \A x \in Nodes \ {c} :
          index1[x] = IF \E i \in at .. Len(s) : s[i] = x THEN h.index[x] + 1 ELSE h.index[x]
  <2>0. index1[c] = at - 1
    <3>1. c \notin moved
      <4>1. \A i \in at .. Len(s) : h.parent[s[i]] = p /\ p # NoNode
        BY <1>1, <1>2, <1>3, NodesAreNumbers
      <4> QED BY <4>1
    <3> HIDE DEF moved
    <3> QED BY <1>1, <3>1
  <2>1. ASSUME NEW x \in Nodes \ {c}
        PROVE  index1[x] = IF \E i \in at .. Len(s) : s[i] = x THEN h.index[x] + 1 ELSE h.index[x]
    <3>2. index1[x] = IF x \in moved THEN h.index[x] + 1 ELSE h.index[x]
      <4> HIDE DEF moved
      <4> QED OBVIOUS
    <3>3. x \in moved <=> \E i \in at .. Len(s) : s[i] = x
      OBVIOUS
    <3> HIDE DEF moved, index1
    <3> QED BY <3>2, <3>3
  <2> QED BY <2>0, <2>1
<1> HIDE DEF index1
<1> DEFINE children1 == [h.children EXCEPT ![p] = t]
           parent1 == [h.parent EXCEPT ![c] = p]
<1>8. children1 \in [Nodes -> Seq(Nodes)] /\ parent1 \in [Nodes -> Nodes \cup {NoNode}]
  BY <1>1, <1>5, HeapFields
<1>9. r = [name |-> h.name, children |-> children1, parent |-> parent1, index |-> index1,
           id |-> h.id, nodes |-> h.nodes]
  BY <1>1, <1>4 DEF Heaps
<1>10. r \in Heaps
  <2> HIDE DEF children1, parent1
  <2> QED BY ONLY <1>1, <1>6, <1>8, <1>9, HeapWith
<1>11. r.children[p] = t /\ \A n \in Nodes \ {p} : r.children[n] = h.children[n]
  BY <1>1, <1>9, HeapFields
<1>12. r.name = h.name /\ r.id = h.id /\ r.nodes = h.nodes /\ r.parent = parent1 /\ r.index = index1
  BY <1>9
<1>13. at \in 1 .. Len(s) + 1
  BY <1>2, <1>3
<1>14. PutIn(h, r, p, c, at)
  BY <1>5, <1>7, <1>10, <1>11, <1>12, <1>13 DEF PutIn, s
<1> QED
  BY <1>14 DEF r, at

(* add_child, of a node without a parent.                                  *)
LEMMA AddedFields ==
    ASSUME NEW h, NEW L, Well(h, L), NEW p \in L, NEW c \in L, h.parent[c] = NoNode
    PROVE  PutIn(h, Added(h, p, c), p, c, Len(h.children[p]) + 1)
<1> DEFINE s == h.children[p]
           t == Append(s, c)
           r == Added(h, p, c)
           children1 == [h.children EXCEPT ![p] = t]
           parent1 == [h.parent EXCEPT ![c] = p]
           index1 == [h.index EXCEPT ![c] = Len(s)]
<1>1. h \in Heaps /\ L \subseteq Nodes /\ p \in Nodes /\ p # NoNode /\ c \in Nodes
  BY NodesAreNumbers DEF Well
<1>2. s \in Seq(Nodes) /\ Len(s) \in Nat
  BY <1>1, Listed
<1>3. r = [h EXCEPT !.parent[c] = p, !.index[c] = Len(h.children[p]), !.children[p] = Append(@, c)]
  BY <1>1 DEF Added
<1>4. r = [h EXCEPT !.parent = parent1, !.index = index1, !.children = children1]
  BY <1>3
<1> HIDE DEF r, s
<1>5. /\ t \in Seq(Nodes) /\ Len(t) = Len(s) + 1
      /\ \A i \in 1 .. Len(s) + 1 : t[i] = IF i <= Len(s) THEN s[i] ELSE c
  BY <1>1, <1>2, AppendProperties
<1> HIDE DEF t
<1>6. \A i \in 1 .. Len(s) + 1 :
          t[i] = IF i < Len(s) + 1 THEN s[i] ELSE IF i = Len(s) + 1 THEN c ELSE s[i - 1]
  BY <1>2, <1>5
<1>7. children1 \in [Nodes -> Seq(Nodes)] /\ parent1 \in [Nodes -> Nodes \cup {NoNode}]
      /\ index1 \in [Nodes -> Int]
  BY <1>1, <1>2, <1>5, HeapFields
<1>8. r = [name |-> h.name, children |-> children1, parent |-> parent1, index |-> index1,
           id |-> h.id, nodes |-> h.nodes]
  BY <1>1, <1>4 DEF Heaps
<1>9. r \in Heaps
  <2> HIDE DEF children1, parent1, index1
  <2> QED BY ONLY <1>1, <1>7, <1>8, HeapWith
<1>10. r.children[p] = t /\ \A n \in Nodes \ {p} : r.children[n] = h.children[n]
  BY <1>1, <1>8, HeapFields
<1>11. r.name = h.name /\ r.id = h.id /\ r.nodes = h.nodes /\ r.parent = parent1
  BY <1>8
<1>12. r.index[c] = Len(s) + 1 - 1 /\ \A x \in Nodes \ {c} : r.index[x] = h.index[x]
  BY <1>1, <1>2, <1>8, HeapFields
<1>13. Len(s) + 1 \in 1 .. Len(s) + 1 /\ ~\E i \in Len(s) + 1 .. Len(s) : TRUE
  BY <1>2
<1>14. PutIn(h, r, p, c, Len(s) + 1)
  BY <1>5, <1>6, <1>9, <1>10, <1>11, <1>12, <1>13 DEF PutIn, s
<1> QED
  BY <1>14 DEF r, s

---------------------------------------------------------------------------
(* Where there are fewer links, less is below.                             *)
LEMMA BelowFewer ==
    ASSUME NEW h, NEW L, Well(h, L), NEW g, Well(g, L), NEW n \in L,
           \A m \in Below(h, {n}) : ToSet(g.children[m]) \subseteq ToSet(h.children[m])
    PROVE  Below(g, {n}) \subseteq Below(h, {n})
<1>1. Reach(h, {n}, Below(h, {n})) /\ Reach(g, {n}, Below(g, {n}))
  BY WellReach
<1>2. \A m \in Below(h, {n}) : ToSet(g.children[m]) \subseteq Below(h, {n})
  BY <1>1 DEF Reach
<1>3. {n} \subseteq Below(h, {n})
  BY <1>1 DEF Reach
<1> QED
  BY <1>1, <1>2, <1>3, Fewer

(* add_child of any node that p is not below.                              *)
LEMMA AddedIsWell ==
    ASSUME NEW h, NEW L, Well(h, L), NEW p \in L, NEW c \in L, p \notin Below(h, {c})
    PROVE  Well(Added(h, p, c), L)
<1>1. h \in Heaps /\ L \subseteq Nodes /\ c \in Nodes /\ p # NoNode
  BY NodesAreNumbers DEF Well
<1>2. CASE h.parent[c] = NoNode
  BY <1>2, AddedFields, PutInIsWell
<1>3. CASE h.parent[c] = p
  <2>1. Added(h, p, c) = h
    BY <1>3 DEF Added
  <2> QED BY <2>1
<1>4. CASE h.parent[c] \notin {NoNode, p}
  <2> DEFINE q == h.parent[c]
             g == Removed(h, c)
  <2>1. q \in L
    BY <1>4 DEF Well, Linked
  <2>2. PICK at : TakenOut(h, g, q, c, at)
    BY <1>4, RemovedFields
  <2>3. Well(g, L) /\ \A n \in L : ToSet(g.children[n]) \subseteq ToSet(h.children[n])
    BY <2>1, <2>2, RemovedIsWell
  <2>4. g.parent[c] = NoNode
    BY <1>1, <2>2, HeapFields DEF TakenOut
  <2>5. Added(h, p, c) = Added(g, p, c)
    BY <1>1, <1>4, <2>4 DEF Added
  <2> HIDE DEF g
  <2>6. Below(h, {c}) \subseteq L
    BY WellReach
  <2>7. Below(g, {c}) \subseteq Below(h, {c})
    BY <2>3, <2>6, BelowFewer
  <2>8. p \notin Below(g, {c})
    BY <2>7
  <2>9. PICK r : r = Added(g, p, c)
    OBVIOUS
  <2>10. PICK i : PutIn(g, r, p, c, i)
    BY <2>3, <2>4, <2>9, AddedFields
  <2>11. Well(r, L)
    BY <2>3, <2>8, <2>10, PutInIsWell
  <2> QED BY <2>5, <2>9, <2>11
<1> QED
  BY <1>2, <1>3, <1>4

(* node_new: one more node, with a name and an id that were not in use.    *)
LEMMA NewIsWell ==
    ASSUME NEW h, NEW L, Well(h, L), Blank(h, L), NEW n \in Nodes \ L, NEW i \in Ids,
           h.nodes[i] = NoNode,
           NEW r, r = [h EXCEPT !.name[n] = n, !.id[n] = i, !.nodes[i] = n]
    PROVE  Well(r, L \cup {n})
<1> DEFINE M == L \cup {n}
<1>1. h \in Heaps /\ L \subseteq Nodes /\ n \in Nodes /\ n # NoNode /\ i # NoId /\ NoNode \notin L
  BY NodesAreNumbers DEF Well
<1>2. h.children[n] = <<>> /\ h.parent[n] = NoNode /\ h.id[n] = NoId
  BY DEF Blank
<1> DEFINE name1 == [h.name EXCEPT ![n] = n]
           id1 == [h.id EXCEPT ![n] = i]
           nodes1 == [h.nodes EXCEPT ![i] = n]
<1>3. name1 \in [Nodes -> Nodes \cup {NoNode}] /\ id1 \in [Nodes -> Ids \cup {NoId}]
      /\ nodes1 \in [Ids -> Nodes \cup {NoNode}]
  BY <1>1, HeapFields
<1>4. r = [name |-> name1, children |-> h.children, parent |-> h.parent, index |-> h.index,
           id |-> id1, nodes |-> nodes1]
  BY <1>1 DEF Heaps
<1>5. r \in Heaps
  <2>1. h.children \in [Nodes -> Seq(Nodes)] /\ h.parent \in [Nodes -> Nodes \cup {NoNode}]
        /\ h.index \in [Nodes -> Int]
    BY <1>1, HeapFields
  <2> HIDE DEF name1, id1, nodes1
  <2> QED BY <1>3, <1>4, <2>1 DEF Heaps
<1>6. r.children = h.children /\ r.parent = h.parent /\ r.index = h.index
  BY <1>4
<1>7. /\ r.name[n] = n /\ r.id[n] = i /\ r.nodes[i] = n
      /\ \A m \in Nodes \ {n} : r.name[m] = h.name[m] /\ r.id[m] = h.id[m]
      /\ \A j \in Ids \ {i} : r.nodes[j] = h.nodes[j]
  BY <1>1, <1>4, HeapFields
<1>8. ToSet(h.children[n]) = {} /\ DOMAIN h.children[n] = {}
  BY <1>2, EmptySequence
<1>9. Closed(r, M)
  BY <1>6, <1>8 DEF Well, Closed
<1>10. Linked(r, M)
  BY <1>1, <1>2, <1>6, <1>8 DEF Well, Linked
<1>11. Named(r, M)
  <2>1. ASSUME NEW m \in M PROVE r.name[m] # NoNode /\ r.id[m] # NoId /\ r.nodes[r.id[m]] = m
    <3>1. CASE m = n
      BY <1>1, <1>7, <3>1
    <3>2. CASE m # n
      <4>1. m \in L /\ m \in Nodes \ {n} /\ m # NoNode
        BY <1>1, <3>2
      <4>2. h.name[m] # NoNode /\ h.id[m] # NoId /\ h.nodes[h.id[m]] = m
        BY <4>1 DEF Well, Named
      <4>3. h.id[m] \in Ids /\ h.id[m] # i
        BY <1>1, <4>1, <4>2, HeapFields
      <4> QED BY <1>7, <4>1, <4>2, <4>3
    <3> QED BY <3>1, <3>2
  <2>2. ASSUME NEW j \in Ids, r.nodes[j] # NoNode PROVE r.nodes[j] \in M /\ r.id[r.nodes[j]] = j
    <3>1. CASE j = i
      BY <1>7, <3>1
    <3>2. CASE j # i
      <4>1. r.nodes[j] = h.nodes[j]
        BY <1>7, <3>2
      <4>2. h.nodes[j] \in L /\ h.id[h.nodes[j]] = j
        BY <2>2, <4>1 DEF Well, Named
      <4>3. h.nodes[j] \in Nodes \ {n}
        BY <1>1, <4>2
      <4> QED BY <1>7, <4>1, <4>2, <4>3
    <3> QED BY <3>1, <3>2
  <2> QED BY <2>1, <2>2 DEF Named
<1>12. Grounded(r, M)
  <2>1. SUFFICES ASSUME NEW T \in SUBSET M, T # {}
                 PROVE  \E m \in T : ToSet(r.children[m]) \cap T = {}
    BY DEF Grounded
  <2>2. CASE n \in T
    BY <1>6, <1>8, <2>2
  <2>3. CASE n \notin T
    <3>1. T \in SUBSET L
      BY <2>3
    <3>2. PICK m \in T : ToSet(h.children[m]) \cap T = {}
      BY <2>1, <3>1 DEF Well, Grounded
    <3> QED BY <1>6, <3>2
  <2> QED BY <2>2, <2>3
<1> QED
  BY <1>1, <1>5, <1>9, <1>10, <1>11, <1>12 DEF Well

(* request_id_change, to an id that is not in use.                         *)
IdChanged(h, L, n, from, to, r) ==
    /\ Well(r, L) /\ r.children = h.children /\ r.parent = h.parent /\ r.name = h.name
    /\ r.id = [h.id EXCEPT ![n] = to]
    /\ r.nodes[from] = NoNode
    /\ \A j \in Ids \ {from, to} : r.nodes[j] = h.nodes[j]

(* request_id_change does that, to an id that is free.                     *)
LEMMA ChangedIdIsWell ==
    ASSUME NEW h, NEW L, Well(h, L), NEW n \in L, NEW from, from = h.id[n],
           NEW to \in Ids, h.nodes[to] = NoNode, NEW r, r = ChangedId(h, n, from, to)
    PROVE  IdChanged(h, L, n, from, to, r)
<1>1. h \in Heaps /\ L \subseteq Nodes /\ n \in Nodes /\ n # NoNode /\ to # NoId
  BY NodesAreNumbers DEF Well
<1>2. from # NoId /\ h.nodes[from] = n
  BY DEF Well, Named
<1>3. from \in Ids /\ from # to
  BY <1>1, <1>2, HeapFields
<1> DEFINE nodes1 == [i \in Ids |-> CASE i = from -> NoNode
                                      [] i = to -> h.nodes[from]
                                      [] OTHER -> h.nodes[i]]
           id1 == [h.id EXCEPT ![n] = to]
<1>4. \A i \in Ids : nodes1[i] = IF i = from THEN NoNode ELSE IF i = to THEN n ELSE h.nodes[i]
  <2>1. TAKE i \in Ids
  <2>2. nodes1[i] = CASE i = from -> NoNode
                      [] i = to -> h.nodes[from]
                      [] OTHER -> h.nodes[i]
    OBVIOUS
  <2> HIDE DEF nodes1
  <2> QED BY <1>2, <1>3, <2>2
<1>5. DOMAIN nodes1 = Ids /\ nodes1 = [i \in Ids |-> nodes1[i]]
  OBVIOUS
<1>6. r = [h EXCEPT !.id[n] = to, !.nodes = nodes1]
  BY DEF ChangedId
<1> HIDE DEF nodes1
<1>7. nodes1 \in [Ids -> Nodes \cup {NoNode}] /\ id1 \in [Nodes -> Ids \cup {NoId}]
  <2>1. \A i \in Ids : nodes1[i] \in Nodes \cup {NoNode}
    BY <1>1, <1>4, HeapFields
  <2>2. nodes1 \in [Ids -> Nodes \cup {NoNode}]
    BY <1>5, <2>1
  <2>3. id1 \in [Nodes -> Ids \cup {NoId}]
    BY <1>1, HeapFields
  <2> QED BY <2>2, <2>3
<1>8. r = [name |-> h.name, children |-> h.children, parent |-> h.parent, index |-> h.index,
           id |-> id1, nodes |-> nodes1]
  BY <1>1, <1>6 DEF Heaps
<1>9. r \in Heaps
  <2>1. h.children \in [Nodes -> Seq(Nodes)] /\ h.parent \in [Nodes -> Nodes \cup {NoNode}]
        /\ h.index \in [Nodes -> Int] /\ h.name \in [Nodes -> Nodes \cup {NoNode}]
    BY <1>1, HeapFields
  <2> HIDE DEF id1
  <2> QED BY <1>7, <1>8, <2>1 DEF Heaps
<1>10. /\ r.children = h.children /\ r.parent = h.parent /\ r.name = h.name
       /\ r.index = h.index /\ r.id = id1 /\ r.nodes = nodes1
  BY <1>8
<1>11. r.id[n] = to /\ \A m \in Nodes \ {n} : r.id[m] = h.id[m]
  BY <1>1, <1>10, HeapFields
<1>12. Named(r, L)
  <2>1. ASSUME NEW m \in L PROVE r.name[m] # NoNode /\ r.id[m] # NoId /\ r.nodes[r.id[m]] = m
    <3>1. h.name[m] # NoNode /\ h.id[m] # NoId /\ h.nodes[h.id[m]] = m /\ m \in Nodes /\ m # NoNode
      BY <1>1, NodesAreNumbers DEF Well, Named
    <3>2. CASE m = n
      BY <1>1, <1>3, <1>4, <1>10, <1>11, <3>1, <3>2
    <3>3. CASE m # n
      <4>1. h.id[m] \in Ids /\ h.id[m] # from /\ h.id[m] # to
        BY <1>1, <1>2, <3>1, <3>3, HeapFields
      <4> QED BY <1>4, <1>10, <1>11, <3>1, <3>3, <4>1
    <3> QED BY <3>2, <3>3
  <2>2. ASSUME NEW i \in Ids, r.nodes[i] # NoNode PROVE r.nodes[i] \in L /\ r.id[r.nodes[i]] = i
    <3>1. i # from
      BY <1>4, <1>10, <2>2
    <3>2. CASE i = to
      BY <1>3, <1>4, <1>10, <1>11, <3>2
    <3>3. CASE i # to
      <4>1. r.nodes[i] = h.nodes[i]
        BY <1>4, <1>10, <3>1, <3>3
      <4>2. h.nodes[i] \in L /\ h.id[h.nodes[i]] = i
        BY <2>2, <4>1 DEF Well, Named
      <4>3. h.nodes[i] \in Nodes \ {n}
        BY <1>1, <3>1, <4>2
      <4> QED BY <1>11, <4>1, <4>2, <4>3
    <3> QED BY <3>2, <3>3
  <2> QED BY <2>1, <2>2 DEF Named
<1>13. Closed(r, L) /\ Linked(r, L) /\ Grounded(r, L)
  BY <1>10 DEF Well, Closed, Linked, Grounded
<1>14. r.nodes[from] = NoNode /\ \A j \in Ids \ {from, to} : r.nodes[j] = h.nodes[j]
  BY <1>3, <1>4, <1>10
<1> QED
  BY <1>1, <1>9, <1>10, <1>12, <1>13, <1>14 DEF Well, IdChanged

---------------------------------------------------------------------------
(* r is h, but that new, which had no parent, takes the place of c at p.   *)
InPlaceOf(h, r, p, c, new, at) ==
    /\ r \in Heaps /\ r.name = h.name /\ r.id = h.id /\ r.nodes = h.nodes
    /\ r.parent = [h.parent EXCEPT ![new] = p, ![c] = NoNode]
    /\ \A n \in Nodes \ {p} : r.children[n] = h.children[n]
    /\ at \in 1 .. Len(h.children[p]) /\ h.children[p][at] = c
    /\ r.children[p] = [h.children[p] EXCEPT ![at] = new]
    /\ r.index[new] = at - 1 /\ \A x \in Nodes \ {new} : r.index[x] = h.index[x]

(* The heap stays well.                                                    *)
LEMMA InPlaceIsWell ==
    ASSUME NEW h, NEW L, Well(h, L), NEW p \in L, NEW c \in L, NEW new \in L,
           h.parent[new] = NoNode, c \notin Below(h, {new}), NEW r, NEW at,
           InPlaceOf(h, r, p, c, new, at)
    PROVE  Well(r, L)
<1> DEFINE s == h.children[p]
           t == r.children[p]
<1>1. h \in Heaps /\ r \in Heaps /\ L \subseteq Nodes /\ p \in Nodes /\ c \in Nodes
      /\ new \in Nodes /\ p # NoNode
  BY NodesAreNumbers DEF Well, InPlaceOf
<1>2. /\ s \in Seq(Nodes) /\ Len(s) \in Nat /\ ToSet(s) \subseteq L /\ DOMAIN s = 1 .. Len(s)
      /\ \A i \in 1 .. Len(s) : /\ s[i] \in L /\ s[i] \in Nodes /\ s[i] \in ToSet(s)
                                /\ h.parent[s[i]] = p /\ h.index[s[i]] = i - 1
      /\ \A i, j \in 1 .. Len(s) : s[i] = s[j] => i = j
      /\ \A x \in ToSet(s) : \E i \in 1 .. Len(s) : s[i] = x
  BY ChildFacts DEF Family
<1>3. at \in 1 .. Len(s) /\ s[at] = c /\ t = [s EXCEPT ![at] = new]
  BY DEF InPlaceOf
<1>4. c # new /\ h.parent[c] = p
  BY <1>1, <1>2, <1>3
<1>5. DOMAIN t = 1 .. Len(s) /\ t[at] = new /\ \A i \in 1 .. Len(s) : i # at => t[i] = s[i]
  <2> HIDE DEF s, t
  <2> QED BY <1>2, <1>3
<1>6. /\ r.parent[new] = p /\ r.parent[c] = NoNode
      /\ \A x \in Nodes \ {new, c} : r.parent[x] = h.parent[x]
      /\ r.index[new] = at - 1 /\ \A x \in Nodes \ {new} : r.index[x] = h.index[x]
      /\ \A n \in Nodes \ {p} : r.children[n] = h.children[n]
  BY <1>1, <1>4, HeapFields DEF InPlaceOf
<1> HIDE DEF s, t
<1>7. \A i \in 1 .. Len(s) : r.parent[t[i]] = p /\ r.index[t[i]] = i - 1
  <2>1. TAKE i \in 1 .. Len(s)
  <2>2. CASE i = at
    BY <1>5, <1>6, <2>2
  <2>3. CASE i # at
    <3>1. t[i] = s[i] /\ s[i] # c /\ s[i] # new /\ s[i] \in Nodes
      BY <1>1, <1>2, <1>3, <1>5, <2>3
    <3> QED BY <1>2, <1>6, <3>1
  <2> QED BY <2>2, <2>3
<1>8. ToSet(t) \subseteq ToSet(s) \cup {new}
  <2>1. \A x \in ToSet(t) : \E i \in 1 .. Len(s) : t[i] = x
    BY <1>5 DEF ToSet
  <2> QED BY <1>2, <1>5, <2>1
<1>9. \A n \in L \ {p} : r.children[n] = h.children[n]
  BY <1>1, <1>6
<1>10. Closed(r, L)
  <2>1. SUFFICES ASSUME NEW n \in L PROVE ToSet(r.children[n]) \subseteq L
    BY DEF Closed
  <2>2. CASE n = p
    BY <1>2, <1>8, <2>2 DEF t
  <2>3. CASE n # p
    BY <1>9, <2>3 DEF Well, Closed
  <2> QED BY <2>2, <2>3
<1>11. Linked(r, L)
  <2>1. ASSUME NEW q \in L, NEW i \in DOMAIN r.children[q]
        PROVE  r.parent[r.children[q][i]] = q /\ r.index[r.children[q][i]] = i - 1
    <3>1. CASE q = p
      <4>1. i \in 1 .. Len(s)
        BY <1>5, <2>1, <3>1 DEF t
      <4> QED BY <1>7, <3>1, <4>1 DEF t
    <3>2. CASE q # p
      <4> DEFINE u == h.children[q]
                 x == u[i]
      <4>1. r.children[q] = u /\ q \in Nodes /\ q # NoNode
        BY <1>1, <1>6, <3>2, NodesAreNumbers
      <4>2. DOMAIN u = 1 .. Len(u) /\ \A j \in 1 .. Len(u) : u[j] \in Nodes /\ h.parent[u[j]] = q /\ h.index[u[j]] = j - 1
        BY ChildFacts DEF Family
      <4>3. i \in 1 .. Len(u)
        BY <2>1, <4>1, <4>2
      <4>4. x \in Nodes /\ h.parent[x] = q /\ h.index[x] = i - 1
        BY <4>2, <4>3
      <4> HIDE DEF x, u
      <4>5. x # c /\ x # new
        BY <1>4, <3>2, <4>1, <4>4
      <4>6. r.parent[x] = q /\ r.index[x] = i - 1
        BY <1>6, <4>4, <4>5
      <4> QED BY <4>1, <4>6 DEF x
    <3> QED BY <3>1, <3>2
  <2>2. ASSUME NEW x \in L, r.parent[x] # NoNode
        PROVE  r.parent[x] \in L /\ x \in ToSet(r.children[r.parent[x]])
    <3>1. CASE x = new
      <4>1. at \in DOMAIN t /\ t[at] = new
        BY <1>3, <1>5
      <4>2. new \in ToSet(t)
        BY <4>1 DEF ToSet
      <4> QED BY <1>6, <3>1, <4>2 DEF t
    <3>2. CASE x # new
      <4>1. x # c /\ x \in Nodes /\ r.parent[x] = h.parent[x]
        BY <1>1, <1>6, <2>2, <3>2
      <4>2. h.parent[x] \in L /\ x \in ToSet(h.children[h.parent[x]])
        BY <2>2, <4>1 DEF Well, Linked
      <4>3. CASE h.parent[x] # p
        BY <1>9, <4>1, <4>2, <4>3
      <4>4. CASE h.parent[x] = p
        <5>1. PICK j \in 1 .. Len(s) : s[j] = x
          BY <1>2, <4>2, <4>4 DEF s
        <5>2. j # at /\ t[j] = x
          BY <1>3, <1>5, <4>1, <5>1
        <5>3. x \in ToSet(t)
          BY <1>5, <5>2 DEF ToSet
        <5> QED BY <4>1, <4>2, <4>4, <5>3 DEF t
      <4> QED BY <4>3, <4>4
    <3> QED BY <3>1, <3>2
  <2> QED BY <2>1, <2>2 DEF Linked
<1>12. Named(r, L)
  BY DEF Well, Named, InPlaceOf
<1>13. Grounded(r, L)
  <2>1. Reach(h, {new}, Below(h, {new}))
    BY WellReach
  <2>2. Grounded(h, L)
    BY DEF Well
  <2>3. ToSet(r.children[p]) \subseteq ToSet(h.children[p]) \cup {new}
    BY <1>8 DEF s, t
  <2>4. \A n \in L \ {p} : ToSet(r.children[n]) \subseteq ToSet(h.children[n])
    <3>1. TAKE n \in L \ {p}
    <3>2. r.children[n] = h.children[n]
      BY <1>9
    <3> QED BY <3>2
  <2>5. p \notin Below(h, {new})
    <3>1. c \in ToSet(h.children[p])
      BY <1>2, <1>3 DEF s
    <3> QED BY <2>1, <3>1 DEF Reach
  <2> QED BY ONLY <2>1, <2>2, <2>3, <2>4, <2>5, LinkAdded
<1> QED
  BY <1>1, <1>10, <1>11, <1>12, <1>13 DEF Well

---------------------------------------------------------------------------
(* p_take_children: after i of the kids of c have moved to new.            *)
Taking(w, L, p, c, new, kids, i, g) ==
    /\ Well(g, L) /\ g.id = w.id /\ g.name = w.name
    /\ g.parent[new] = p /\ p \notin Below(g, {c})
    /\ \A n \in L \ {c, new} : g.children[n] = w.children[n]
    /\ Len(g.children[c]) = Len(kids) - i
    /\ \A j \in 1 .. Len(kids) - i : g.children[c][j] = kids[i + j]

(* One kid more: taken from the old child, added to the new.               *)
LEMMA TakingStep ==
    ASSUME NEW L, NEW p \in L, NEW c \in L \ {p}, NEW new \in L \ {p, c},
           NEW kids, Len(kids) \in Nat, NEW w, NEW i \in 1 .. Len(kids),
           NEW f, Taking(w, L, p, c, new, kids, i - 1, f),
           NEW g, g = Added(Removed(f, kids[i]), new, kids[i])
    PROVE  Taking(w, L, p, c, new, kids, i, g)
<1> DEFINE k == kids[i]
           r == Removed(f, k)
<1>1. Well(f, L) /\ f.parent[new] = p /\ p \notin Below(f, {c}) /\ f.id = w.id /\ f.name = w.name
  BY DEF Taking
<1>2. /\ Len(f.children[c]) = Len(kids) - (i - 1)
      /\ \A j \in 1 .. Len(kids) - (i - 1) : f.children[c][j] = kids[i - 1 + j]
  BY DEF Taking
<1>3. /\ \A j \in 1 .. Len(f.children[c]) : /\ f.children[c][j] \in L /\ f.parent[f.children[c][j]] = c
                                            /\ f.children[c][j] \in ToSet(f.children[c])
      /\ \A j, l \in 1 .. Len(f.children[c]) : f.children[c][j] = f.children[c][l] => j = l
  <2>1. Family(f, L, c, f.children[c])
    BY <1>1, ChildFacts
  <2> QED BY <2>1 DEF Family
<1>4. k \in L /\ f.parent[k] = c /\ k \in ToSet(f.children[c]) /\ f.children[c][1] = k
  <2>1. 1 \in 1 .. Len(kids) - (i - 1) /\ i - 1 + 1 = i
    OBVIOUS
  <2>2. f.children[c][1] = k /\ 1 \in 1 .. Len(f.children[c])
    BY <1>2, <2>1
  <2> QED BY <1>3, <2>2
<1>5. c # NoNode /\ f \in Heaps /\ L \subseteq Nodes /\ k # new /\ k \in Nodes /\ new \in Nodes /\ c \in Nodes
  BY <1>1, <1>4, NodesAreNumbers DEF Well
<1>6. PICK at : TakenOut(f, r, c, k, at)
  <2> HIDE DEF k, r
  <2> QED BY <1>1, <1>4, <1>5, RemovedFields DEF r
<1> HIDE DEF k, r
<1>7. at = 1
  <2>1. at \in 1 .. Len(f.children[c]) /\ f.children[c][at] = k
    BY <1>6 DEF TakenOut
  <2>2. 1 \in 1 .. Len(f.children[c])
    BY <1>2
  <2> QED BY <1>3, <1>4, <2>1, <2>2
<1>8. /\ Well(r, L) /\ \A n \in L : ToSet(r.children[n]) \subseteq ToSet(f.children[n])
  BY <1>1, <1>4, <1>6, RemovedIsWell
<1>9. /\ r.parent[k] = NoNode /\ r.parent[new] = p /\ r.id = f.id /\ r.name = f.name
      /\ \A n \in Nodes \ {c} : r.children[n] = f.children[n]
  <2>1. r.parent = [f.parent EXCEPT ![k] = NoNode]
    BY <1>6 DEF TakenOut
  <2>2. r.id = f.id /\ r.name = f.name /\ \A n \in Nodes \ {c} : r.children[n] = f.children[n]
    BY <1>6 DEF TakenOut
  <2>3. DOMAIN f.parent = Nodes
    BY <1>5, HeapFields
  <2>4. r.parent[k] = NoNode /\ r.parent[new] = p
    BY <1>1, <1>5, <2>1, <2>3
  <2> QED BY <2>2, <2>4
<1>10. Below(f, {c}) \subseteq L /\ Reach(f, {c}, Below(f, {c}))
  BY <1>1, WellReach
<1>11. Below(r, {k}) \subseteq Below(f, {c})
  <2>1. Reach(r, {k}, Below(r, {k}))
    BY <1>4, <1>8, WellReach
  <2>2. {k} \subseteq Below(f, {c})
    BY <1>4, <1>10 DEF Reach
  <2>3. \A m \in Below(f, {c}) : ToSet(r.children[m]) \subseteq Below(f, {c})
    BY <1>8, <1>10 DEF Reach
  <2>4. Reach(f, {c}, Below(f, {c}))
    BY <1>10
  <2> DEFINE A == Below(f, {c})
             B == Below(r, {k})
  <2>5. \A m \in A \cap B : ToSet(r.children[m]) \subseteq A
    BY <2>3
  <2> HIDE DEF A, B
  <2> QED BY <2>1, <2>2, <2>5 DEF Reach, A, B
<1>12. new \notin Below(r, {k})
  <2>1. SUFFICES ASSUME new \in Below(r, {k}) PROVE FALSE
    OBVIOUS
  <2>2. r.parent[new] \in Below(r, {k})
    BY <1>4, <1>5, <1>8, <2>1, BelowHasParent
  <2> QED BY <1>1, <1>9, <1>11, <2>2
<1> DEFINE to == Len(r.children[new]) + 1
<1>13. PutIn(r, g, new, k, to)
  <2>1. PutIn(r, Added(r, new, k), new, k, Len(r.children[new]) + 1)
    BY <1>4, <1>8, <1>9, AddedFields
  <2> QED BY <2>1 DEF r, k
<1> HIDE DEF to
<1>14. Well(g, L) /\ \A n \in L \ {new} : g.children[n] = r.children[n]
  BY <1>4, <1>8, <1>12, <1>13, PutInIsWell
<1>15. g.id = w.id /\ g.name = w.name
  BY <1>1, <1>9, <1>13 DEF PutIn
<1>16. g.parent[new] = p
  <2>1. g.parent = [r.parent EXCEPT ![k] = new]
    BY <1>13 DEF PutIn
  <2>2. r.parent \in [Nodes -> Nodes \cup {NoNode}]
    BY <1>8, HeapFields DEF Well
  <2> QED BY <1>5, <1>9, <2>1, <2>2
<1>17. p \notin Below(g, {c})
  <2>1. new \notin Below(f, {c})
    <3>1. SUFFICES ASSUME new \in Below(f, {c}) PROVE FALSE
      OBVIOUS
    <3>2. f.parent[new] \in Below(f, {c})
      BY <1>1, <3>1, BelowHasParent
    <3> QED BY <1>1, <3>2
  <2>2. \A m \in Below(f, {c}) : ToSet(g.children[m]) \subseteq ToSet(f.children[m])
    <3>1. TAKE m \in Below(f, {c})
    <3>2. m \in L \ {new}
      BY <1>10, <2>1
    <3>3. g.children[m] = r.children[m]
      BY <1>14, <3>2
    <3> QED BY <1>8, <3>2, <3>3
  <2>3. Below(g, {c}) \subseteq Below(f, {c})
    <3>1. Well(f, L) /\ Well(g, L) /\ c \in L
      BY <1>1, <1>14
    <3> QED BY ONLY <2>2, <3>1, BelowFewer
  <2> QED BY <1>1, <2>3
<1>18. \A n \in L \ {c, new} : g.children[n] = w.children[n]
  <2>1. TAKE n \in L \ {c, new}
  <2>2. g.children[n] = r.children[n] /\ r.children[n] = f.children[n]
    BY <1>5, <1>9, <1>14
  <2>3. f.children[n] = w.children[n]
    BY DEF Taking
  <2> QED BY <2>2, <2>3
<1>19. g.children[c] = r.children[c]
  BY <1>14
<1>20. Len(r.children[c]) = Len(kids) - i
  <2>1. Len(r.children[c]) = Len(f.children[c]) - 1
    BY <1>6 DEF TakenOut
  <2> QED BY <1>2, <2>1
<1>21. ASSUME NEW j \in 1 .. Len(kids) - i PROVE r.children[c][j] = kids[i + j]
  <2>1. j \in 1 .. Len(f.children[c]) - 1 /\ ~(j < 1) /\ j + 1 \in 1 .. Len(kids) - (i - 1)
        /\ i - 1 + (j + 1) = i + j
    BY <1>2
  <2>2. r.children[c][j] = f.children[c][j + 1]
    BY <1>6, <1>7, <2>1 DEF TakenOut
  <2>3. f.children[c][j + 1] = kids[i - 1 + (j + 1)]
    BY <1>2, <2>1
  <2> QED BY <2>1, <2>2, <2>3
<1> QED
  BY <1>14, <1>15, <1>16, <1>17, <1>18, <1>19, <1>20, <1>21 DEF Taking

---------------------------------------------------------------------------
(* replace_child: new is where c was, with the id of c.                    *)
ReplacedBy(h, r, L, p, c, new, at) ==
    /\ Well(r, L) /\ c # p /\ c # new /\ p # new
    /\ at \in 1 .. Len(h.children[p]) /\ h.children[p][at] = c
    /\ r.children[p] = [h.children[p] EXCEPT ![at] = new]
    /\ r.id[new] = h.id[c] /\ \A n \in L \ {c, new} : r.id[n] = h.id[n]
    /\ \A n \in L \ {p, c, new} : r.children[n] = h.children[n]

(* replace_child does that, with or without p_take_children, if the new    *)
(* child had no parent.                                                    *)
LEMMA ReplacedFacts ==
    ASSUME NEW h, NEW L, Well(h, L), NEW c \in L, NEW p, p = h.parent[c], p # NoNode,
           NEW new \in L, h.parent[new] = NoNode, c \notin Below(h, {new}),
           NEW take \in BOOLEAN, NEW fresh \in Ids, h.nodes[fresh] = NoNode,
           NEW r, r = Replaced(h, p, c, new, take, fresh)
    PROVE  \E at : ReplacedBy(h, r, L, p, c, new, at)
<1> DEFINE s == h.children[p]
           at == SelectInSeq(s, LAMBDA n : n = c)
           linked == [h EXCEPT !.children[p][at] = new, !.index[new] = h.index[c],
                               !.parent = [@ EXCEPT ![new] = p, ![c] = NoNode]]
           swapped == SwappedIds(linked, c, new, fresh)
           kids == swapped.children[c]
           Trace(f) == f = [i \in 0 .. Len(kids) |->
               IF i = 0 THEN swapped ELSE Added(Removed(f[i - 1], kids[i]), new, kids[i])]
<1>0. r = IF take THEN (CHOOSE f : Trace(f))[Len(kids)] ELSE swapped
  BY DEF Replaced
<1>1. h \in Heaps /\ L \subseteq Nodes /\ p \in L /\ p \in Nodes /\ c \in Nodes /\ new \in Nodes
      /\ c \in ToSet(s)
  BY DEF Well, Linked
<1>2. /\ s \in Seq(Nodes) /\ Len(s) \in Nat /\ DOMAIN s = 1 .. Len(s)
      /\ \A i \in 1 .. Len(s) : s[i] \in Nodes /\ h.index[s[i]] = i - 1
  <2>1. Family(h, L, p, s)
    BY <1>1, ChildFacts
  <2> HIDE DEF s
  <2> QED BY <2>1 DEF Family
<1>3. at \in 1 .. Len(s) /\ s[at] = c
  <2>1. PICK k : k = at /\ k = Place(s, c)
    BY DEF Place
  <2>2. \/ k \in 1 .. Len(s) /\ s[k] = c /\ \A i \in 1 .. k - 1 : s[i] # c
        \/ k = 0 /\ c \notin ToSet(s)
    <3> HIDE DEF s
    <3> QED BY <1>2, <2>1, FoundAt
  <2> QED BY <1>1, <2>1, <2>2
<1>4. /\ Reach(h, {c}, Below(h, {c})) /\ Reach(h, {new}, Below(h, {new}))
      /\ Below(h, {c}) \subseteq L /\ Below(h, {new}) \subseteq L
  BY WellReach
<1>5. p \notin Below(h, {c})
  BY <1>1, NotBelowChild
<1>6. c # p /\ c # new /\ p # new
  BY <1>1, <1>4, <1>5 DEF Reach
<1> DEFINE t == [s EXCEPT ![at] = new]
           children1 == [h.children EXCEPT ![p] = t]
           parent1 == [h.parent EXCEPT ![new] = p, ![c] = NoNode]
           index1 == [h.index EXCEPT ![new] = h.index[c]]
<1>7. linked = [h EXCEPT !.children = children1, !.index = index1, !.parent = parent1]
  OBVIOUS
<1>8. h.index[c] = at - 1
  BY <1>2, <1>3
<1> HIDE DEF linked, s, at
<1>9. t \in Seq(Nodes)
  <2>1. t \in [1 .. Len(s) -> Nodes]
    BY <1>1, <1>2, <1>3
  <2> QED BY <1>2, <2>1
<1> HIDE DEF t
<1>10. children1 \in [Nodes -> Seq(Nodes)] /\ parent1 \in [Nodes -> Nodes \cup {NoNode}]
       /\ index1 \in [Nodes -> Int]
  <2>1. h.children \in [Nodes -> Seq(Nodes)] /\ h.parent \in [Nodes -> Nodes \cup {NoNode}]
        /\ h.index \in [Nodes -> Int]
    BY <1>1, HeapFields
  <2> QED BY <1>1, <1>9, <2>1
<1>11. linked = [name |-> h.name, children |-> children1, parent |-> parent1, index |-> index1,
                 id |-> h.id, nodes |-> h.nodes]
  BY <1>1, <1>7 DEF Heaps
<1>12. linked \in Heaps
  <2> HIDE DEF children1, parent1, index1
  <2> QED BY ONLY <1>1, <1>10, <1>11, HeapWith
<1>13. /\ linked.name = h.name /\ linked.id = h.id /\ linked.nodes = h.nodes
       /\ linked.parent = parent1 /\ linked.children = children1 /\ linked.index = index1
  BY <1>11
<1>14. InPlaceOf(h, linked, p, c, new, at)
  <2>1. linked.children[p] = t /\ \A n \in Nodes \ {p} : linked.children[n] = h.children[n]
    BY <1>1, <1>13, HeapFields
  <2>2. linked.index[new] = at - 1 /\ \A x \in Nodes \ {new} : linked.index[x] = h.index[x]
    BY <1>1, <1>8, <1>13, HeapFields
  <2> QED BY <1>3, <1>12, <1>13, <2>1, <2>2 DEF InPlaceOf, s, t
<1>15. Well(linked, L)
  BY <1>1, <1>14, InPlaceIsWell
<1> HIDE DEF swapped, children1, parent1, index1
<1>16. /\ linked.parent[new] = p
       /\ linked.children[p] = t /\ \A n \in Nodes \ {p} : linked.children[n] = h.children[n]
  BY <1>1, <1>6, <1>13, HeapFields DEF parent1, children1
<1> DEFINE d == ChangedId(linked, c, linked.id[c], fresh)
           old == h.id[c]
<1>17. swapped = ChangedId(d, new, linked.id[new], linked.id[c])
  BY DEF swapped, SwappedIds
<1>18. old \in Ids /\ h.nodes[old] = c /\ old # fresh
  <2>1. old # NoId /\ h.nodes[old] = c
    BY DEF Well, Named
  <2>2. old \in Ids
    BY <1>1, <2>1, HeapFields
  <2> QED BY <1>1, <2>1, <2>2, NodesAreNumbers
<1>19. /\ Well(d, L) /\ d.children = linked.children /\ d.parent = linked.parent
       /\ d.name = linked.name /\ d.id = [linked.id EXCEPT ![c] = fresh]
       /\ d.nodes[old] = NoNode
  <2>1. PICK e : e = d
    OBVIOUS
  <2>2. linked.nodes[fresh] = NoNode /\ old = linked.id[c] /\ e = ChangedId(linked, c, old, fresh)
    BY <1>13, <2>1
  <2> HIDE DEF d, old
  <2>3. IdChanged(linked, L, c, old, fresh, e)
    BY <1>15, <2>2, ChangedIdIsWell
  <2> QED BY <2>1, <2>3 DEF IdChanged
<1> HIDE DEF d, old
<1>20. /\ Well(swapped, L) /\ swapped.children = linked.children
       /\ swapped.parent = linked.parent /\ swapped.id = [d.id EXCEPT ![new] = old]
  <2>1. d.id[new] = linked.id[new] /\ old = linked.id[c]
    <3>1. linked.id \in [Nodes -> Ids \cup {NoId}] /\ old = h.id[c]
      BY <1>1, <1>13, HeapFields DEF old
    <3> QED BY <1>1, <1>6, <1>13, <1>19, <3>1
  <2>2. swapped = ChangedId(d, new, d.id[new], old)
    BY <1>17, <2>1
  <2>3. IdChanged(d, L, new, d.id[new], old, swapped)
    BY <1>18, <1>19, <2>2, ChangedIdIsWell
  <2> QED BY <1>19, <2>3 DEF IdChanged
<1>21. swapped.id[new] = h.id[c] /\ \A n \in L \ {c, new} : swapped.id[n] = h.id[n]
  <2>1. h.id \in [Nodes -> Ids \cup {NoId}] /\ d.id = [h.id EXCEPT ![c] = fresh]
    BY <1>1, <1>13, <1>19, HeapFields
  <2>2. d.id \in [Nodes -> Ids \cup {NoId}]
    BY <1>19, HeapFields DEF Well
  <2> QED BY <1>1, <1>20, <2>1, <2>2 DEF old
<1>22. ASSUME NEW g, Well(g, L), g.id = swapped.id,
              \A n \in L \ {c, new} : g.children[n] = swapped.children[n]
       PROVE  ReplacedBy(h, g, L, p, c, new, at)
  <2>1. g.children[p] = t /\ \A n \in L \ {p, c, new} : g.children[n] = h.children[n]
    BY <1>1, <1>6, <1>16, <1>20, <1>22
  <2> QED BY <1>3, <1>6, <1>21, <1>22, <2>1 DEF ReplacedBy, s, t
<1>23. CASE ~take
  <2>1. r = swapped
    BY <1>0, <1>23
  <2> QED BY <1>20, <1>22, <2>1
<1>24. CASE take
  <2>1. Len(kids) \in Nat /\ DOMAIN kids = 1 .. Len(kids)
    <3>1. Family(swapped, L, c, kids)
      BY <1>20, ChildFacts
    <3> QED BY <3>1 DEF Family
  <2>2. Taking(swapped, L, p, c, new, kids, 0, swapped)
    <3>1. p \notin Below(swapped, {c})
      <4>1. \A m \in Below(h, {c}) : ToSet(swapped.children[m]) \subseteq ToSet(h.children[m])
        <5>1. TAKE m \in Below(h, {c})
        <5>2. m \in Nodes \ {p}
          BY <1>1, <1>4, <1>5
        <5> QED BY <1>16, <1>20, <5>2
      <4>2. Below(swapped, {c}) \subseteq Below(h, {c})
        BY <1>20, <4>1, BelowFewer
      <4> QED BY <1>5, <4>2
    <3>2. Len(swapped.children[c]) = Len(kids) - 0
          /\ \A j \in 1 .. Len(kids) - 0 : swapped.children[c][j] = kids[0 + j]
      BY <2>1
    <3> QED BY <1>16, <1>20, <3>1, <3>2 DEF Taking
  <2> DEFINE n == Len(kids)
             step(x, i) == Added(Removed(x, kids[i]), new, kids[i])
             F == [x \in (1 .. n) \X Heaps |-> step(x[2], x[1])]
             Good(f, i) == Taking(swapped, L, p, c, new, kids, i, f[i])
  <2>3. ASSUME NEW f, f[0] = swapped,
               \A i \in 1 .. n : f[i - 1] \in Heaps => f[i] = step(f[i - 1], i)
        PROVE  \A i \in 0 .. n : Good(f, i)
    <3> DEFINE I == {i \in 0 .. n : ~Good(f, i)}
    <3>1. /\ I \in SUBSET Nat /\ (\A i \in I : i \in 0 .. n /\ ~Good(f, i))
          /\ \A i \in 0 .. n : i \notin I => Good(f, i)
      BY <2>1
    <3>2. Good(f, 0)
      BY <2>2, <2>3
    <3> HIDE DEF I, Good, kids
    <3>3. SUFFICES ASSUME I # {} PROVE FALSE
      BY <3>1
    <3>4. PICK i \in I : \A k \in I : i <= k
      BY <3>1, <3>3, LeastOf
    <3>5. i # 0
      BY <3>1, <3>2
    <3>6. i \in 1 .. n /\ i - 1 \in 0 .. n /\ ~(i <= i - 1)
      BY <2>1, <3>1, <3>5
    <3>7. Good(f, i - 1)
      BY <3>1, <3>4, <3>6
    <3>8. Taking(swapped, L, p, c, new, kids, i - 1, f[i - 1])
      BY <3>7 DEF Good
    <3>9. f[i] = step(f[i - 1], i)
      BY <2>3, <3>6, <3>8 DEF Taking, Well
    <3>10. Taking(swapped, L, p, c, new, kids, i, f[i])
      BY <1>1, <1>6, <2>1, <3>6, <3>8, <3>9, TakingStep
    <3> QED BY <3>1, <3>10 DEF Good
  <2>4. PICK f : f = [i \in 0 .. n |-> IF i = 0 THEN swapped ELSE F[<<i, f[i - 1]>>]]
    <3> HIDE DEF F, kids
    <3>1. \E f : Iteration(f, n, swapped, F)
      BY <2>1, Iterated
    <3> QED BY <3>1 DEF Iteration
  <2>5. \A i \in 1 .. n : \A x \in Heaps : F[<<i, x>>] = step(x, i)
    OBVIOUS
  <2> HIDE DEF F, step, kids, Good
  <2>6. f[0] = swapped /\ \A i \in 1 .. n : f[i - 1] \in Heaps => f[i] = step(f[i - 1], i)
    <3>1. 0 \in 0 .. n /\ \A i \in 1 .. n : i \in 0 .. n /\ i # 0
      BY <2>1
    <3> QED BY <2>4, <2>5, <3>1
  <2>7. \A i \in 0 .. n : Good(f, i)
    BY <2>3, <2>6
  <2>8. Trace(f)
    <3>1. \A i \in 0 .. n : f[i] = IF i = 0 THEN swapped ELSE step(f[i - 1], i)
      <4>1. TAKE i \in 0 .. n
      <4>2. CASE i = 0
        BY <2>6, <4>2
      <4>3. CASE i # 0
        <5>1. i \in 1 .. n /\ i - 1 \in 0 .. n
          BY <2>1, <4>3
        <5>2. f[i - 1] \in Heaps
          BY <2>7, <5>1 DEF Good, Taking, Well
        <5> QED BY <2>6, <4>3, <5>1, <5>2
      <4> QED BY <4>2, <4>3
    <3>2. DOMAIN f = 0 .. n
      BY <2>4
    <3>3. f = [i \in DOMAIN f |-> f[i]]
      BY <2>4
    <3> QED BY <3>1, <3>2, <3>3 DEF step
  <2> DEFINE W == CHOOSE g : Trace(g)
  <2>9. Trace(W)
    BY <2>8
  <2> HIDE DEF W
  <2>10. r = W[n]
    BY <1>0, <1>24 DEF W
  <2>11. W[0] = swapped /\ \A i \in 1 .. n : W[i - 1] \in Heaps => W[i] = step(W[i - 1], i)
    <3>1. 0 \in 0 .. n /\ \A i \in 1 .. n : i \in 0 .. n /\ i # 0
      BY <2>1
    <3> QED BY <2>9, <3>1 DEF step
  <2>12. Taking(swapped, L, p, c, new, kids, n, r)
    <3>1. Good(W, n)
      BY <2>1, <2>3, <2>11
    <3> QED BY <2>10, <3>1 DEF Good
  <2> QED BY <1>22, <2>12 DEF Taking
<1> QED
  BY <1>23, <1>24

---------------------------------------------------------------------------
(* Siblings have nothing in common below them.                             *)
LEMMA SiblingsApart ==
    ASSUME NEW h, NEW L, Well(h, L), NEW p \in L, NEW c \in L, NEW d \in L, c # d,
           h.parent[c] = p, h.parent[d] = p
    PROVE  Below(h, {c}) \cap Below(h, {d}) = {}
<1> DEFINE A == Below(h, {c})
           B == Below(h, {d})
<1>1. /\ Reach(h, {c}, A) /\ Reach(h, {d}, B) /\ A \subseteq L /\ B \subseteq L
  BY WellReach
<1>2. c \in ToSet(h.children[p]) /\ d \in ToSet(h.children[p])
  <2>1. Family(h, L, p, h.children[p])
    BY ChildFacts
  <2> QED BY <2>1 DEF Family
<1>3. p \notin A /\ p \notin B
  BY <1>2, NotBelowChild
<1>4. c \notin B
  <2>1. SUFFICES ASSUME c \in B PROVE FALSE
    OBVIOUS
  <2>2. h.parent[c] \in B
    BY <2>1, BelowHasParent
  <2> QED BY <1>3, <2>2
<1> DEFINE D == A \ B
<1>5. \A m \in D : ToSet(h.children[m]) \subseteq D
  <2>1. SUFFICES ASSUME NEW m \in D, NEW y \in ToSet(h.children[m]) PROVE y \in D
    OBVIOUS
  <2>2. m \in L /\ y \in A /\ h.parent[y] = m
    <3>1. m \in L /\ y \in A
      BY <1>1, <2>1 DEF Reach
    <3>2. Family(h, L, m, h.children[m])
      BY <3>1, ChildFacts
    <3>3. PICK i \in 1 .. Len(h.children[m]) : h.children[m][i] = y
      BY <2>1, <3>2 DEF Family
    <3>4. h.parent[h.children[m][i]] = m
      BY <3>2 DEF Family
    <3> QED BY <3>1, <3>3, <3>4
  <2>3. SUFFICES ASSUME y \in B PROVE FALSE
    BY <2>2
  <2>4. CASE y = d
    BY <1>3, <2>1, <2>2, <2>4
  <2>5. CASE y # d
    <3>1. h.parent[y] \in B
      BY <2>3, <2>5, BelowHasParent
    <3> QED BY <2>1, <2>2, <3>1
  <2> QED BY <2>4, <2>5
<1>6. c \in D
  BY <1>1, <1>4 DEF Reach
<1> HIDE DEF A, B
<1>7. A \subseteq D
  <2>1. {c} \subseteq D /\ \A m \in D \cap A : ToSet(h.children[m]) \subseteq D
    BY <1>5, <1>6
  <2> HIDE DEF D
  <2> QED BY <1>1, <2>1 DEF Reach
<1> QED
  BY <1>7 DEF A, B

(* The nodes of a walk of k levels from m: each after its parent, and all  *)
(* that are below m if these are no more than k.                           *)
Walked(h, m, s, k) ==
    /\ s \in Seq(Nodes) /\ ToSet(s) \subseteq Below(h, {m})
    /\ \A i, j \in 1 .. Len(s) : s[i] = s[j] => i = j
    /\ k > 0 => Len(s) >= 1
    /\ Len(s) >= 1 => s[1] = m
    /\ \A i \in 2 .. Len(s) : \E j \in 1 .. i - 1 : s[j] = h.parent[s[i]]
    /\ Cardinality(Below(h, {m})) <= k => Below(h, {m}) \subseteq ToSet(s)

Rows == [Nodes -> Seq(Nodes)]

WalkOn(h, m, row) == <<m>> \o FlattenSeq([i \in DOMAIN h.children[m] |-> row[h.children[m][i]]])

IsWalk(m, ss, n, flat, s) ==
    /\ s \in Seq(Nodes) /\ Flattened(Nodes, ss, n, flat) /\ Len(s) = Len(flat) + 1
    /\ s[1] = m /\ \A i \in 1 .. Len(flat) : s[i + 1] = flat[i]

(* What WalkOn gives is such a walk.                                       *)
LEMMA WalkIsSeq ==
    ASSUME NEW h \in Heaps, NEW m \in Nodes, NEW row \in Rows, NEW n, n = Len(h.children[m]),
           NEW ss, ss = [i \in DOMAIN h.children[m] |-> row[h.children[m][i]]],
           NEW s, s = WalkOn(h, m, row)
    PROVE  IsWalk(m, ss, n, FlattenSeq(ss), s)
<1>1. n \in Nat /\ DOMAIN h.children[m] = 1 .. n /\ \A i \in 1 .. n : h.children[m][i] \in Nodes
  BY HeapFields
<1>2. ss \in Seq(Seq(Nodes)) /\ Len(ss) = n
  <2>1. ss \in [1 .. n -> Seq(Nodes)]
    BY <1>1 DEF Rows
  <2> QED BY <1>1, <2>1
<1>3. Flattened(Nodes, ss, n, FlattenSeq(ss))
  <2>1. Flattened(Nodes, ss, Len(ss), FlattenSeq(ss))
    BY <1>2, FlattenFacts
  <2> QED BY <1>2, <2>1
<1> DEFINE flat == FlattenSeq(ss)
<1>4. flat \in Seq(Nodes)
  BY <1>3 DEF Flattened
<1>5. s = <<m>> \o flat
  BY DEF WalkOn
<1> HIDE DEF flat
<1>6. <<m>> \in Seq(Nodes) /\ Len(<<m>>) = 1 /\ <<m>>[1] = m /\ Len(flat) \in Nat
  BY <1>4
<1>7. /\ s \in Seq(Nodes) /\ Len(s) = 1 + Len(flat)
      /\ \A i \in 1 .. 1 + Len(flat) : s[i] = IF i <= 1 THEN <<m>>[i] ELSE flat[i - 1]
  BY <1>4, <1>5, <1>6, ConcatProperties
<1>8. s[1] = m
  <2>1. 1 \in 1 .. 1 + Len(flat) /\ 1 <= 1
    BY <1>6
  <2> QED BY <1>6, <1>7, <2>1
<1>9. \A i \in 1 .. Len(flat) : s[i + 1] = flat[i]
  <2>1. TAKE i \in 1 .. Len(flat)
  <2>2. i + 1 \in 1 .. 1 + Len(flat) /\ ~(i + 1 <= 1) /\ i + 1 - 1 = i
    BY <1>6
  <2> QED BY <1>7, <2>2
<1>10. Flattened(Nodes, ss, n, flat)
  BY <1>3 DEF flat
<1>11. IsWalk(m, ss, n, flat, s)
  BY <1>6, <1>7, <1>8, <1>9, <1>10 DEF IsWalk
<1> QED
  BY <1>11 DEF flat

(* There are no more than MaxNodes nodes.                                  *)
LEMMA NodesFinite ==
    ASSUME NEW A, A \subseteq Nodes
    PROVE  IsFiniteSet(A) /\ Cardinality(A) \in Nat /\ Cardinality(A) <= MaxNodes
<1>1. MaxNodes \in Nat /\ 1 \in Int
  BY BoundAssumption
<1>2. IsFiniteSet(1 .. MaxNodes) /\ Cardinality(1 .. MaxNodes) = IF 1 > MaxNodes THEN 0 ELSE MaxNodes - 1 + 1
  BY <1>1, FS_Interval
<1>3. IsFiniteSet(Nodes) /\ Cardinality(Nodes) = MaxNodes
  BY <1>1, <1>2 DEF Nodes
<1>4. A \in SUBSET Nodes
  OBVIOUS
<1> QED
  BY ONLY <1>3, <1>4, FS_Subset, FS_CardinalityType

(* A level more: from walks of the children to the walk of their parent.   *)
LEMMA WalkStep ==
    ASSUME NEW h, NEW L, Well(h, L), NEW m \in L, NEW k \in Nat, NEW row \in Rows,
           \A c \in L : Walked(h, c, row[c], k), NEW s, s = WalkOn(h, m, row)
    PROVE  Walked(h, m, s, k + 1)
<1> DEFINE kids == h.children[m]
           n == Len(kids)
           ss == [i \in DOMAIN kids |-> row[kids[i]]]
           flat == FlattenSeq(ss)
<1>1. h \in Heaps /\ L \subseteq Nodes /\ m \in Nodes
  BY DEF Well
<1>2. /\ n \in Nat /\ DOMAIN kids = 1 .. n /\ ToSet(kids) \subseteq L
      /\ \A i \in 1 .. n : kids[i] \in L /\ h.parent[kids[i]] = m /\ kids[i] \in ToSet(kids)
      /\ \A i, j \in 1 .. n : kids[i] = kids[j] => i = j
      /\ \A x \in ToSet(kids) : \E i \in 1 .. n : kids[i] = x
  <2>1. Family(h, L, m, kids)
    BY ChildFacts
  <2> HIDE DEF kids
  <2> QED BY <2>1 DEF Family
<1>3. /\ s \in Seq(Nodes) /\ Flattened(Nodes, ss, n, flat) /\ Len(s) = Len(flat) + 1
      /\ s[1] = m /\ \A i \in 1 .. Len(flat) : s[i + 1] = flat[i]
  <2>1. IsWalk(m, ss, n, FlattenSeq(ss), s)
    BY <1>1, WalkIsSeq
  <2> QED BY <2>1 DEF IsWalk
<1>4. flat \in Seq(Nodes) /\ Len(flat) \in Nat
  <2>1. Flattened(Nodes, ss, n, flat)
    BY <1>3
  <2> HIDE DEF flat, ss, n
  <2>2. flat \in Seq(Nodes)
    BY <2>1 DEF Flattened
  <2> QED BY <2>2
<1>5. PICK sec, off : Places(ss, n, flat, sec, off)
  BY <1>3 DEF Flattened
<1>6. \A i \in 1 .. n : ss[i] = row[kids[i]] /\ Walked(h, kids[i], ss[i], k)
  BY <1>2
<1> HIDE DEF flat, ss
<1>7. /\ \A i \in 1 .. Len(flat) : sec[i] \in 1 .. n /\ off[i] \in 1 .. Len(ss[sec[i]]) /\ flat[i] = ss[sec[i]][off[i]]
      /\ \A i, j \in 1 .. Len(flat) : i < j => sec[i] < sec[j] \/ (sec[i] = sec[j] /\ off[i] < off[j])
      /\ \A a \in 1 .. n : \A l \in 1 .. Len(ss[a]) : \E i \in 1 .. Len(flat) : sec[i] = a /\ off[i] = l
  BY <1>5 DEF Places
<1> DEFINE B(c) == Below(h, {c})
<1>8. \A c \in L : Reach(h, {c}, B(c)) /\ B(c) \subseteq L /\ c \in B(c)
  <2>1. TAKE c \in L
  <2>2. Reach(h, {c}, B(c)) /\ B(c) \subseteq L
    BY WellReach
  <2> QED BY <2>2 DEF Reach
<1>9. \A i \in 1 .. n : B(kids[i]) \subseteq B(m) /\ m \notin B(kids[i])
  <2> TAKE i \in 1 .. n
  <2>1. kids[i] \in ToSet(h.children[m]) /\ kids[i] \in L
    BY <1>2
  <2>2. m \notin B(kids[i])
    BY <2>1, NotBelowChild
  <2>3. kids[i] \in B(m)
    <3>1. Reach(h, {m}, B(m)) /\ m \in B(m)
      BY <1>8
    <3> HIDE DEF B
    <3> QED BY <2>1, <3>1 DEF Reach
  <2>4. Reach(h, {kids[i]}, B(kids[i])) /\ Reach(h, {m}, B(m))
    BY <1>2, <1>8
  <2> HIDE DEF B
  <2> QED BY <2>2, <2>3, <2>4 DEF Reach
<1> HIDE DEF kids, n
<1>10. \A i \in 1 .. Len(flat) : flat[i] \in B(kids[sec[i]]) /\ flat[i] # m
  <2>1. TAKE i \in 1 .. Len(flat)
  <2>2. sec[i] \in 1 .. n /\ off[i] \in 1 .. Len(ss[sec[i]]) /\ flat[i] = ss[sec[i]][off[i]]
    BY <1>7
  <2>3. ss[sec[i]] \in Seq(Nodes) /\ ToSet(ss[sec[i]]) \subseteq B(kids[sec[i]])
    BY <1>6, <2>2 DEF Walked
  <2>4. flat[i] \in ToSet(ss[sec[i]])
    BY <2>2, <2>3, SeqFacts
  <2> QED BY <1>9, <2>2, <2>3, <2>4
<1>11. ToSet(s) \subseteq B(m)
  <2>1. SUFFICES ASSUME NEW x \in ToSet(s) PROVE x \in B(m)
    OBVIOUS
  <2>2. PICK i \in 1 .. Len(s) : s[i] = x
    BY <1>3, <2>1, SeqFacts
  <2>3. CASE i = 1
    BY <1>3, <1>8, <2>2, <2>3
  <2>4. CASE i # 1
    <3>1. i - 1 \in 1 .. Len(flat) /\ i - 1 + 1 = i
      BY <1>3, <1>4, <2>2, <2>4
    <3>2. x = flat[i - 1] /\ sec[i - 1] \in 1 .. n
      BY <1>3, <1>7, <2>2, <3>1
    <3> QED BY <1>9, <1>10, <3>1, <3>2
  <2> QED BY <2>3, <2>4
<1>12. \A i, j \in 1 .. Len(flat) : flat[i] = flat[j] => i = j
  <2>1. SUFFICES ASSUME NEW i \in 1 .. Len(flat), NEW j \in 1 .. Len(flat), flat[i] = flat[j], i < j
                 PROVE  FALSE
    BY <1>4
  <2>2. /\ sec[i] \in 1 .. n /\ off[i] \in 1 .. Len(ss[sec[i]]) /\ flat[i] = ss[sec[i]][off[i]]
        /\ sec[j] \in 1 .. n /\ off[j] \in 1 .. Len(ss[sec[j]]) /\ flat[j] = ss[sec[j]][off[j]]
    BY <1>7
  <2>3. CASE sec[i] # sec[j]
    <3>1. kids[sec[i]] # kids[sec[j]] /\ kids[sec[i]] \in L /\ kids[sec[j]] \in L
          /\ h.parent[kids[sec[i]]] = m /\ h.parent[kids[sec[j]]] = m
      BY <1>2, <2>2, <2>3 DEF kids, n
    <3>2. B(kids[sec[i]]) \cap B(kids[sec[j]]) = {}
      BY <3>1, SiblingsApart
    <3> QED BY <1>10, <2>1, <3>2
  <2>4. CASE sec[i] = sec[j]
    <3>1. off[i] = off[j]
      <4>1. \A a, b \in 1 .. Len(ss[sec[i]]) : ss[sec[i]][a] = ss[sec[i]][b] => a = b
        BY <1>6, <2>2 DEF Walked
      <4> QED BY <2>1, <2>2, <2>4, <4>1
    <3>2. sec[i] < sec[j] \/ off[i] < off[j]
      BY <1>7, <2>1
    <3>3. ss[sec[i]] \in Seq(Nodes)
      BY <1>6, <2>2 DEF Walked
    <3>4. off[i] \in Int /\ sec[i] \in Int
      BY <2>2
    <3> QED BY <2>4, <3>1, <3>2, <3>4
  <2> QED BY <2>3, <2>4
<1>13. \A i, j \in 1 .. Len(s) : s[i] = s[j] => i = j
  <2>1. TAKE i, j \in 1 .. Len(s)
  <2>2. HAVE s[i] = s[j]
  <2>3. \A l \in 1 .. Len(s) : l # 1 => l - 1 \in 1 .. Len(flat) /\ s[l] = flat[l - 1] /\ s[l] # m
    <3>1. TAKE l \in 1 .. Len(s)
    <3>2. HAVE l # 1
    <3>3. l - 1 \in 1 .. Len(flat) /\ l - 1 + 1 = l
      BY <1>3, <1>4, <3>2
    <3> QED BY <1>3, <1>10, <3>3
  <2>4. CASE i = 1 \/ j = 1
    BY <1>3, <2>2, <2>3, <2>4
  <2>5. CASE i # 1 /\ j # 1
    <3>1. i - 1 = j - 1
      BY <1>12, <2>2, <2>3, <2>5
    <3> QED BY <1>3, <1>4, <3>1
  <2> QED BY <2>4, <2>5
<1>14. \A i \in 2 .. Len(s) : \E j \in 1 .. i - 1 : s[j] = h.parent[s[i]]
  <2>1. TAKE i \in 2 .. Len(s)
  <2> DEFINE t == i - 1
  <2>2. t \in 1 .. Len(flat) /\ t + 1 = i
    BY <1>3, <1>4
  <2>3. s[i] = flat[t]
    BY <1>3, <2>2
  <2>4. sec[t] \in 1 .. n /\ off[t] \in 1 .. Len(ss[sec[t]]) /\ flat[t] = ss[sec[t]][off[t]]
    BY <1>7, <2>2
  <2> HIDE DEF t
  <2>5. Walked(h, kids[sec[t]], ss[sec[t]], k)
    BY <1>6, <2>4
  <2>6. CASE off[t] = 1
    <3>1. s[i] = kids[sec[t]]
      <4>1. Len(ss[sec[t]]) >= 1
        <5>1. Len(ss[sec[t]]) \in Nat
          BY <2>5 DEF Walked
        <5> QED BY <2>4, <2>6, <5>1
      <4> QED BY <2>3, <2>4, <2>5, <2>6, <4>1 DEF Walked
    <3>2. h.parent[s[i]] = m
      <4>1. PICK a : a = sec[t]
        OBVIOUS
      <4>2. a \in 1 .. Len(kids)
        BY <2>4, <4>1 DEF kids, n
      <4>3. h.parent[kids[a]] = m
        BY <1>2, <4>2
      <4> QED BY <3>1, <4>1, <4>3
    <3>3. 1 \in 1 .. i - 1
      OBVIOUS
    <3> QED BY <1>3, <3>2, <3>3
  <2>7. CASE off[t] # 1
    <3>1. off[t] \in 2 .. Len(ss[sec[t]])
      BY <2>4, <2>7
    <3>2. PICK l \in 1 .. off[t] - 1 : ss[sec[t]][l] = h.parent[ss[sec[t]][off[t]]]
      BY <2>5, <3>1 DEF Walked
    <3>3. l \in 1 .. Len(ss[sec[t]]) /\ l < off[t]
      BY <3>1
    <3>4. PICK u \in 1 .. Len(flat) : sec[u] = sec[t] /\ off[u] = l
      BY <1>7, <2>4, <3>3
    <3>5. u < t
      <4>1. ~(t < u)
        <5>1. SUFFICES ASSUME t < u PROVE FALSE
          OBVIOUS
        <5>2. sec[t] < sec[u] \/ off[t] < off[u]
          BY <1>7, <2>2, <5>1
        <5>3. sec[t] \in Int /\ off[t] \in Int /\ l \in Int
          BY <2>4, <3>3
        <5> QED BY <3>3, <3>4, <5>2, <5>3
      <4>2. t # u
        BY <3>1, <3>3, <3>4
      <4> QED BY <1>4, <2>2, <4>1, <4>2
    <3>6. flat[u] = ss[sec[t]][l]
      BY <1>7, <3>4
    <3>7. u + 1 \in 1 .. i - 1 /\ s[u + 1] = flat[u]
      <4>1. s[u + 1] = flat[u]
        BY <1>3
      <4>2. u + 1 \in 1 .. i - 1
        BY <1>4, <2>2, <3>5
      <4> QED BY <4>1, <4>2
    <3> QED BY <2>3, <2>4, <3>2, <3>6, <3>7
  <2> QED BY <2>6, <2>7
<1>15. ASSUME Cardinality(B(m)) <= k + 1, NEW x \in B(m) PROVE x \in ToSet(s)
  <2>1. CASE x = m
    <3>1. 1 \in 1 .. Len(s)
      BY <1>3, <1>4
    <3> QED BY <1>3, <2>1, <3>1, SeqFacts
  <2>2. CASE x # m
    <3>1. PICK c \in ToSet(kids) : c \in L /\ x \in B(c)
      BY <1>15, <2>2, BelowChild DEF kids
    <3>2. PICK a \in 1 .. n : kids[a] = c
      BY <1>2, <3>1 DEF kids, n
    <3>3. Cardinality(B(c)) <= k
      <4>1. B(c) \subseteq B(m) /\ m \in B(m) /\ m \notin B(c) /\ B(m) \subseteq Nodes
        BY <1>1, <1>8, <1>9, <3>2
      <4>2. IsFiniteSet(B(m)) /\ Cardinality(B(m)) \in Nat /\ IsFiniteSet(B(c)) /\ Cardinality(B(c)) \in Nat
        <5>1. B(c) \subseteq Nodes
          BY <4>1
        <5> QED BY <4>1, <5>1, NodesFinite
      <4> DEFINE E == B(c) \cup {m}
                 G == B(m)
                 C == B(c)
      <4>3. E \in SUBSET G
        BY <4>1
      <4>4. Cardinality(E) = Cardinality(C) + 1
        <5>1. E = C \cup {m} /\ m \notin C /\ IsFiniteSet(C)
          BY <4>1, <4>2
        <5> HIDE DEF E, C
        <5> QED BY ONLY <5>1, FS_AddElement
      <4>5. Cardinality(E) <= Cardinality(G)
        <5>1. IsFiniteSet(G)
          BY <4>2
        <5> HIDE DEF E, G
        <5> QED BY ONLY <4>3, <5>1, FS_Subset
      <4>6. Cardinality(C) \in Nat /\ Cardinality(G) \in Nat /\ Cardinality(G) <= k + 1
        BY <1>15, <4>2
      <4> HIDE DEF E, G, C
      <4>7. Cardinality(C) <= k
        BY <4>4, <4>5, <4>6
      <4> QED BY <4>7 DEF C
    <3>4. x \in ToSet(ss[a]) /\ ss[a] \in Seq(Nodes)
      BY <1>6, <3>1, <3>2, <3>3 DEF Walked
    <3>5. PICK l \in 1 .. Len(ss[a]) : ss[a][l] = x
      BY <3>4, SeqFacts
    <3>6. PICK i \in 1 .. Len(flat) : sec[i] = a /\ off[i] = l
      BY <1>7, <3>2, <3>5
    <3>7. s[i + 1] = x /\ i + 1 \in 1 .. Len(s)
      <4>1. flat[i] = ss[sec[i]][off[i]]
        BY <1>7
      <4>2. s[i + 1] = flat[i]
        BY <1>3
      <4>3. i + 1 \in 1 .. Len(s)
        BY <1>3, <1>4
      <4> QED BY <3>5, <3>6, <4>1, <4>2, <4>3
    <3> QED BY <1>3, <3>7, SeqFacts
  <2> QED BY <2>1, <2>2
<1>16. Len(s) >= 1
  BY <1>3, <1>4
<1> QED
  BY <1>3, <1>11, <1>13, <1>14, <1>15, <1>16 DEF Walked

---------------------------------------------------------------------------
(* The subtree of n: its root first, each node after its parent, once.     *)
Subtree(h, n, s) ==
    /\ s \in Seq(Nodes) /\ ToSet(s) = Below(h, {n}) /\ Len(s) >= 1 /\ s[1] = n
    /\ \A i, j \in 1 .. Len(s) : s[i] = s[j] => i = j
    /\ \A i \in 2 .. Len(s) : \E j \in 1 .. i - 1 : s[j] = h.parent[s[i]]

(* A row of walks, from one of a level less.                               *)
LEMMA WalkIsRow ==
    ASSUME NEW h \in Heaps, NEW row \in Rows
    PROVE  [m \in Nodes |-> WalkOn(h, m, row)] \in Rows
<1>1. SUFFICES ASSUME NEW m \in Nodes PROVE WalkOn(h, m, row) \in Seq(Nodes)
  BY DEF Rows
<1> DEFINE ss == [i \in DOMAIN h.children[m] |-> row[h.children[m][i]]]
<1>2. IsWalk(m, ss, Len(h.children[m]), FlattenSeq(ss), WalkOn(h, m, row))
  BY <1>1, WalkIsSeq
<1> QED
  BY <1>2 DEF IsWalk

(* The walk the subtree is the last row of.                                *)
WalkTrace(h, W) ==
    /\ W[0] = [m \in Nodes |-> <<>>]
    /\ \A k \in 0 .. MaxNodes : W[k] \in Rows
    /\ \A k \in 1 .. MaxNodes : W[k] = [m \in Nodes |-> WalkOn(h, m, W[k - 1])]
    /\ \A n \in Nodes : Preorder(h, n) = W[MaxNodes][n]

(* There is such a walk for every heap.                                    *)
LEMMA PreorderWalk ==
    ASSUME NEW h \in Heaps
    PROVE  \E W : WalkTrace(h, W)
<1> DEFINE M == MaxNodes
           none == [m \in Nodes |-> <<>>]
           step(row) == [m \in Nodes |-> WalkOn(h, m, row)]
           Trace(f) == f = [k \in 0 .. M |-> IF k = 0 THEN none ELSE step(f[k - 1])]
<1>0. M \in Nat
  BY BoundAssumption
<1>1. \A n \in Nodes : Preorder(h, n) = (CHOOSE f : Trace(f))[M][n]
  BY DEF Preorder, WalkOn
<1>2. none \in Rows
  BY DEF Rows
<1>3. \A row \in Rows : step(row) \in Rows
  BY WalkIsRow
<1> HIDE DEF none, step, M
<1>4. ASSUME NEW f, f[0] = none, \A k \in 1 .. M : f[k - 1] \in Rows => f[k] = step(f[k - 1])
      PROVE  \A k \in 0 .. M : f[k] \in Rows
  <2> DEFINE I == {k \in 0 .. M : f[k] \notin Rows}
  <2>1. SUFFICES ASSUME I # {} PROVE FALSE
    OBVIOUS
  <2>2. I \in SUBSET Nat
    BY <1>0
  <2>3. PICK k \in I : \A l \in I : k <= l
    BY <2>1, <2>2, LeastOf
  <2>4. k # 0
    BY <1>2, <1>4, <2>3
  <2>5. k \in 1 .. M /\ k - 1 \in 0 .. M /\ ~(k <= k - 1)
    BY <1>0, <2>3, <2>4
  <2>6. f[k - 1] \in Rows
    BY <2>3, <2>5
  <2>7. f[k] \in Rows
    BY <1>3, <1>4, <2>5, <2>6
  <2> QED BY <2>3, <2>7
<1>5. \E f : Trace(f)
  <2> DEFINE F == [x \in (1 .. M) \X Rows |-> step(x[2])]
  <2>1. PICK f : f = [k \in 0 .. M |-> IF k = 0 THEN none ELSE F[<<k, f[k - 1]>>]]
    <3> HIDE DEF F
    <3>1. \E f : Iteration(f, M, none, F)
      BY <1>0, Iterated
    <3> QED BY <3>1 DEF Iteration
  <2>2. \A k \in 1 .. M : \A x \in Rows : F[<<k, x>>] = step(x)
    OBVIOUS
  <2> HIDE DEF F
  <2>3. f[0] = none /\ \A k \in 1 .. M : f[k - 1] \in Rows => f[k] = step(f[k - 1])
    <3>1. 0 \in 0 .. M /\ \A k \in 1 .. M : k \in 0 .. M /\ k # 0
      BY <1>0
    <3> QED BY <2>1, <2>2, <3>1
  <2>4. \A k \in 0 .. M : f[k] \in Rows
    BY <1>4, <2>3
  <2>5. \A k \in 0 .. M : f[k] = IF k = 0 THEN none ELSE step(f[k - 1])
    <3>1. TAKE k \in 0 .. M
    <3>2. CASE k = 0
      BY <2>3, <3>2
    <3>3. CASE k # 0
      <4>1. k \in 1 .. M /\ k - 1 \in 0 .. M
        BY <1>0, <3>3
      <4> QED BY <2>3, <2>4, <3>3, <4>1
    <3> QED BY <3>2, <3>3
  <2>6. DOMAIN f = 0 .. M /\ f = [k \in DOMAIN f |-> f[k]]
    BY <2>1
  <2>7. Trace(f)
    BY <2>5, <2>6
  <2> HIDE DEF Trace
  <2> QED BY <2>7
<1> DEFINE W == CHOOSE f : Trace(f)
<1>6. Trace(W)
  BY <1>5
<1> HIDE DEF W
<1>7. W[0] = none /\ \A k \in 1 .. M : W[k] = step(W[k - 1])
  <2>1. 0 \in 0 .. M /\ \A k \in 1 .. M : k \in 0 .. M /\ k # 0
    BY <1>0
  <2> QED BY <1>6, <2>1
<1>8. \A k \in 0 .. M : W[k] \in Rows
  BY <1>4, <1>7
<1>9. \A n \in Nodes : Preorder(h, n) = W[M][n]
  BY <1>1 DEF W
<1> QED
  BY <1>7, <1>8, <1>9 DEF WalkTrace, none, step, M

(* Preorder lists the subtree: all that is below n, each node once and     *)
(* after its parent.                                                       *)
LEMMA PreorderFacts ==
    ASSUME NEW h, NEW L, Well(h, L), NEW n \in L
    PROVE  Subtree(h, n, Preorder(h, n))
<1> DEFINE M == MaxNodes
           none == [m \in Nodes |-> <<>>]
           step(row) == [m \in Nodes |-> WalkOn(h, m, row)]
<1>0. M \in Nat /\ n \in Nodes /\ h \in Heaps
  BY BoundAssumption DEF Well
<1>1. PICK W : WalkTrace(h, W)
  BY <1>0, PreorderWalk
<1>2. /\ W[0] = none /\ \A k \in 0 .. M : W[k] \in Rows
      /\ \A k \in 1 .. M : W[k] = step(W[k - 1])
      /\ Preorder(h, n) = W[M][n]
  BY <1>0, <1>1 DEF WalkTrace
<1> HIDE DEF none, step, M
<1>3. \A k \in 0 .. M : \A m \in L : Walked(h, m, W[k][m], k)
  <2> DEFINE Good(k) == \A m \in L : Walked(h, m, W[k][m], k)
             I == {k \in 0 .. M : ~Good(k)}
  <2>1. /\ I \in SUBSET Nat /\ (\A k \in I : k \in 0 .. M /\ ~Good(k))
        /\ \A k \in 0 .. M : k \notin I => Good(k)
    BY <1>0
  <2>2. Good(0)
    <3>1. SUFFICES ASSUME NEW m \in L PROVE Walked(h, m, <<>>, 0)
      <4>1. \A m \in L : W[0][m] = <<>>
        BY <1>2 DEF none, Well
      <4> QED BY <1>2, <3>1, <4>1
    <3>2. <<>> \in Seq(Nodes) /\ Len(<<>>) = 0 /\ ToSet(<<>>) = {}
      BY EmptySequence
    <3>3. ~(Cardinality(Below(h, {m})) <= 0)
      <4>1. m \in Below(h, {m}) /\ Below(h, {m}) \subseteq Nodes
        BY WellReach DEF Reach
      <4>2. IsFiniteSet(Below(h, {m})) /\ Cardinality(Below(h, {m})) \in Nat
        BY <4>1, NodesFinite
      <4>3. Cardinality(Below(h, {m})) # 0
        BY <4>1, <4>2, FS_EmptySet
      <4> QED BY <4>2, <4>3
    <3> QED BY <3>2, <3>3 DEF Walked
  <2> HIDE DEF I, Good
  <2>3. SUFFICES ASSUME I # {} PROVE FALSE
    BY <2>1 DEF Good
  <2>4. PICK k \in I : \A l \in I : k <= l
    BY <2>1, <2>3, LeastOf
  <2>5. k # 0
    BY <2>1, <2>2
  <2>6. k \in 1 .. M /\ k - 1 \in 0 .. M /\ ~(k <= k - 1) /\ k - 1 \in Nat /\ k - 1 + 1 = k
    BY <1>0, <2>1, <2>5
  <2>7. W[k - 1] \in Rows /\ \A m \in L : Walked(h, m, W[k - 1][m], k - 1)
    BY <1>2, <2>1, <2>4, <2>6 DEF Good
  <2>8. W[k] = step(W[k - 1]) /\ W[k] \in Rows
    BY <1>2, <2>6
  <2>9. \A m \in L : Walked(h, m, W[k][m], k)
    <3>1. TAKE m \in L
    <3>2. W[k][m] = WalkOn(h, m, W[k - 1])
      BY <2>8 DEF step, Well
    <3>3. Walked(h, m, W[k][m], k - 1 + 1)
      <4>1. PICK s : s = W[k][m]
        OBVIOUS
      <4>2. PICK row : row = W[k - 1]
        OBVIOUS
      <4>3. Walked(h, m, s, k - 1 + 1)
        BY <2>6, <2>7, <3>2, <4>1, <4>2, WalkStep
      <4> QED BY <4>1, <4>3
    <3> QED BY <2>6, <3>3
  <2> QED BY <2>1, <2>9 DEF Good
<1>4. Walked(h, n, W[M][n], M)
  <2>1. M \in 0 .. M
    BY <1>0
  <2> QED BY <1>3, <2>1
<1>5. M > 0
  BY <1>0 DEF M, Nodes
<1>6. Cardinality(Below(h, {n})) <= M
  <2>1. Below(h, {n}) \subseteq Nodes
    BY WellReach DEF Reach
  <2> QED BY <2>1, NodesFinite DEF M
<1> QED
  BY <1>2, <1>4, <1>5, <1>6 DEF Walked, Subtree

(* Where the children are the same, so is the subtree.                     *)
LEMMA SamePreorder ==
    ASSUME NEW h \in Heaps, NEW g \in Heaps, NEW L, L \subseteq Nodes,
           \A m \in L : g.children[m] = h.children[m] /\ ToSet(h.children[m]) \subseteq L,
           NEW n \in L
    PROVE  Preorder(g, n) = Preorder(h, n)
<1>1. PICK V : WalkTrace(h, V)
  BY PreorderWalk
<1>2. PICK W : WalkTrace(g, W)
  BY PreorderWalk
<1> DEFINE I == {k \in 0 .. MaxNodes : \E m \in L : V[k][m] # W[k][m]}
<1>3. I \in SUBSET Nat /\ MaxNodes \in Nat
  BY BoundAssumption
<1>4. ASSUME I # {} PROVE FALSE
  <2>1. PICK k \in I : \A l \in I : k <= l
    BY <1>3, <1>4, LeastOf
  <2>2. PICK m \in L : V[k][m] # W[k][m]
    BY <2>1
  <2>3. k # 0
    BY <1>1, <1>2, <2>2 DEF WalkTrace
  <2>4. k \in 1 .. MaxNodes /\ k - 1 \in 0 .. MaxNodes /\ ~(k <= k - 1)
    BY <1>3, <2>1, <2>3
  <2>5. \A x \in L : V[k - 1][x] = W[k - 1][x]
    BY <2>1, <2>4
  <2>6. V[k][m] = WalkOn(h, m, V[k - 1]) /\ W[k][m] = WalkOn(g, m, W[k - 1])
    <3>1. V[k] = [x \in Nodes |-> WalkOn(h, x, V[k - 1])]
      BY <1>1, <2>4 DEF WalkTrace
    <3>2. W[k] = [x \in Nodes |-> WalkOn(g, x, W[k - 1])]
      BY <1>2, <2>4 DEF WalkTrace
    <3>3. m \in Nodes
      OBVIOUS
    <3>4. V[k][m] = WalkOn(h, m, V[k - 1])
      BY ONLY <3>1, <3>3
    <3>5. W[k][m] = WalkOn(g, m, W[k - 1])
      BY ONLY <3>2, <3>3
    <3> QED BY <3>4, <3>5
  <2>7. PICK s : s = h.children[m]
    OBVIOUS
  <2>8. s = g.children[m] /\ \A i \in DOMAIN s : s[i] \in L
    BY <2>7 DEF ToSet
  <2>9. [i \in DOMAIN s |-> V[k - 1][s[i]]] = [i \in DOMAIN s |-> W[k - 1][s[i]]]
    BY <2>5, <2>8
  <2>10. WalkOn(h, m, V[k - 1]) = <<m>> \o FlattenSeq([i \in DOMAIN s |-> V[k - 1][s[i]]])
    BY <2>7 DEF WalkOn
  <2>11. WalkOn(g, m, W[k - 1]) = <<m>> \o FlattenSeq([i \in DOMAIN s |-> W[k - 1][s[i]]])
    BY <2>8 DEF WalkOn
  <2> QED BY <2>2, <2>6, <2>9, <2>10, <2>11
<1>5. V[MaxNodes][n] = W[MaxNodes][n]
  <2>1. MaxNodes \in 0 .. MaxNodes
    BY <1>3
  <2> QED BY <1>4, <2>1
<1> QED
  BY <1>1, <1>2, <1>5 DEF WalkTrace

---------------------------------------------------------------------------
(* There are ids enough for what is made: k of them, of no node and of no  *)
(* section of the file.                                                    *)
IdsInUse == {id[n] : n \in Live} \cup {file[i].id : i \in DOMAIN file}

(* The ids in use are no more than the nodes and the sections.             *)
LEMMA UseIsBounded ==
    ASSUME Live \subseteq Nodes, FileInv
    PROVE  /\ IsFiniteSet(IdsInUse) /\ Cardinality(IdsInUse) \in Nat
           /\ Cardinality(IdsInUse) <= Cardinality(Live) + Len(file)
           /\ Len(file) \in Nat
<1> DEFINE A == {id[n] : n \in Live}
           D == 1 .. Len(file)
           B == {file[i].id : i \in D}
           f == [i \in D |-> file[i].id]
<1>1. Len(file) \in Nat /\ DOMAIN file = D
  BY DEF FileInv
<1>2. IsFiniteSet(Live) /\ Cardinality(Live) \in Nat
  BY NodesFinite
<1>3. IsFiniteSet(A) /\ Cardinality(A) <= Cardinality(Live)
  <2> DEFINE g == [n \in Live |-> id[n]]
  <2>1. A = {g[n] : n \in Live} /\ g = [n \in Live |-> g[n]]
    OBVIOUS
  <2> HIDE DEF A, g
  <2> QED BY <1>2, <2>1, ImageFacts
<1>4. IsFiniteSet(D) /\ Cardinality(D) = Len(file)
  <2>1. 1 \in Int /\ Len(file) \in Int
    BY <1>1
  <2>2. IsFiniteSet(D) /\ Cardinality(D) = IF 1 > Len(file) THEN 0 ELSE Len(file) - 1 + 1
    BY <2>1, FS_Interval
  <2> QED BY <1>1, <2>2
<1>5. IsFiniteSet(B) /\ Cardinality(B) <= Cardinality(D)
  <2>1. B = {f[i] : i \in D} /\ f = [i \in D |-> f[i]]
    OBVIOUS
  <2> HIDE DEF f, D, B
  <2> QED BY <1>4, <2>1, ImageFacts
<1>6. IdsInUse = A \cup B
  BY <1>1 DEF IdsInUse
<1>7. Cardinality(A) \in Nat /\ Cardinality(B) \in Nat
  <2> HIDE DEF A, B
  <2> QED BY <1>3, <1>5, FS_CardinalityType
<1> HIDE DEF A, B
<1>8. IsFiniteSet(A \cup B) /\ Cardinality(A \cup B) <= Cardinality(A) + Cardinality(B)
  <2>1. IsFiniteSet(A) /\ IsFiniteSet(B)
    BY <1>3, <1>5
  <2>2. IsFiniteSet(A \cup B)
        /\ Cardinality(A \cup B) = Cardinality(A) + Cardinality(B) - Cardinality(A \cap B)
    BY ONLY <2>1, FS_Union
  <2>3. Cardinality(A \cap B) \in Nat
    <3>1. IsFiniteSet(A \cap B)
      <4>1. A \cap B \in SUBSET A
        OBVIOUS
      <4> QED BY ONLY <2>1, <4>1, FS_Subset
    <3> QED BY ONLY <3>1, FS_CardinalityType
  <2> QED BY <1>7, <2>2, <2>3
<1>9. Cardinality(A \cup B) \in Nat
  BY ONLY <1>8, FS_CardinalityType
<1> QED
  BY <1>1, <1>2, <1>3, <1>4, <1>5, <1>6, <1>7, <1>8, <1>9

Unused(s, k) ==
    /\ Rising(s, k, Ids) /\ \A i \in 1 .. k : s[i] \in Ids \ IdsInUse

(* So FreshIds finds as many as there are nodes to make.                   *)
LEMMA FreshFacts ==
    ASSUME Live \subseteq Nodes, FileInv, NEW k \in Nat,
           k <= Cardinality(Nodes \ Live) \/ k = 1
    PROVE  Unused(FreshIds(k), k)
<1> DEFINE S == Ids \ IdsInUse
           N == 2 * MaxNodes + 1
<1>1. MaxNodes \in Nat
  BY BoundAssumption
<1>2. IsFiniteSet(Ids) /\ Cardinality(Ids) = N
  <2>1. 1 \in Int /\ N \in Int
    BY <1>1
  <2> HIDE DEF N
  <2>2. IsFiniteSet(1 .. N) /\ Cardinality(1 .. N) = IF 1 > N THEN 0 ELSE N - 1 + 1
    BY <2>1, FS_Interval
  <2>3. ~(1 > N) /\ Ids = 1 .. N
    BY <1>1 DEF N, Ids
  <2> QED BY <2>1, <2>2, <2>3
<1>3. /\ IsFiniteSet(IdsInUse) /\ Cardinality(IdsInUse) \in Nat
      /\ Cardinality(IdsInUse) <= Cardinality(Live) + Len(file) /\ Len(file) \in Nat
  BY UseIsBounded
<1>4. Len(file) <= MaxNodes
  BY DEF FileInv
<1>5. Cardinality(Live) + Cardinality(Nodes \ Live) = MaxNodes /\ Cardinality(Live) \in Nat
      /\ Cardinality(Nodes \ Live) \in Nat
  <2> DEFINE D == Nodes \ Live
  <2>1. IsFiniteSet(Live) /\ IsFiniteSet(D) /\ Live \cap D = {} /\ Live \cup D = Nodes
    <3>1. D \subseteq Nodes
      OBVIOUS
    <3> QED BY <3>1, NodesFinite
  <2>2. Cardinality(Live) \in Nat /\ Cardinality(D) \in Nat
    BY ONLY <2>1, FS_CardinalityType
  <2> HIDE DEF D
  <2>3. Cardinality(Live \cup D) = Cardinality(Live) + Cardinality(D) - Cardinality(Live \cap D)
    BY ONLY <2>1, FS_Union
  <2>4. Cardinality({}) = 0
    BY ONLY FS_EmptySet
  <2>5. Cardinality(Nodes) = MaxNodes
    <3>1. 1 \in Int /\ MaxNodes \in Int
      BY <1>1
    <3>2. Cardinality(1 .. MaxNodes) = IF 1 > MaxNodes THEN 0 ELSE MaxNodes - 1 + 1
      BY <3>1, FS_Interval
    <3> QED BY <1>1, <3>2 DEF Nodes
  <2>6. Cardinality(Live \cup D) = MaxNodes /\ Cardinality(Live \cap D) = 0
    BY <2>1, <2>4, <2>5
  <2>7. Cardinality(Live) + Cardinality(D) = MaxNodes
    BY <2>2, <2>3, <2>6
  <2> QED BY <2>2, <2>7 DEF D
<1>6. Cardinality(S) \in Nat /\ Cardinality(S) + Cardinality(IdsInUse) >= N /\ IsFiniteSet(S)
  <2>1. IsFiniteSet(S)
    <3>1. S \in SUBSET Ids
      OBVIOUS
    <3> HIDE DEF S
    <3> QED BY ONLY <1>2, <3>1, FS_Subset
  <2>2. IsFiniteSet(S \cup IdsInUse)
        /\ Cardinality(S \cup IdsInUse) = Cardinality(S) + Cardinality(IdsInUse) - Cardinality(S \cap IdsInUse)
    <3>1. IsFiniteSet(IdsInUse)
      BY <1>3
    <3> HIDE DEF S
    <3> QED BY ONLY <2>1, <3>1, FS_Union
  <2>3. S \cap IdsInUse = {} /\ Ids \in SUBSET (S \cup IdsInUse)
    OBVIOUS
  <2>4. Cardinality({}) = 0
    BY ONLY FS_EmptySet
  <2>5. Cardinality(Ids) <= Cardinality(S \cup IdsInUse)
    <3> HIDE DEF S
    <3> QED BY ONLY <2>2, <2>3, FS_Subset
  <2>6. Cardinality(S) \in Nat
    <3> HIDE DEF S
    <3> QED BY ONLY <2>1, FS_CardinalityType
  <2> HIDE DEF S, N
  <2>7. Cardinality(S \cap IdsInUse) = 0
    BY <2>3, <2>4
  <2> DEFINE a == Cardinality(S)
             b == Cardinality(IdsInUse)
             c == Cardinality(S \cup IdsInUse)
  <2>8. N <= c /\ c = a + b - 0 /\ a \in Nat /\ b \in Nat
    BY <1>2, <1>3, <2>2, <2>5, <2>6, <2>7
  <2>9. N \in Nat
    BY <1>1 DEF N
  <2> HIDE DEF a, b, c, N
  <2>10. a + b >= N
    BY <2>8, <2>9
  <2> QED BY <2>1, <2>6, <2>10 DEF a, b
<1>7. k \in 0 .. Cardinality(S)
  <2> DEFINE s == Cardinality(S)
             u == Cardinality(IdsInUse)
             a == Cardinality(Live)
             b == Cardinality(Nodes \ Live)
             l == Len(file)
  <2>1. s + u >= 2 * MaxNodes + 1 /\ u <= a + l /\ l <= MaxNodes /\ a + b = MaxNodes
        /\ s \in Nat /\ u \in Nat /\ a \in Nat /\ b \in Nat /\ l \in Nat
    BY <1>3, <1>4, <1>5, <1>6
  <2>2. k <= b \/ k = 1
    OBVIOUS
  <2> HIDE DEF s, u, a, b, l
  <2>3. s >= b + 1
    BY <1>1, <2>1
  <2>4. k <= s
    BY <2>1, <2>2, <2>3
  <2> QED BY <2>1, <2>4 DEF s
<1>8. Rising(Lowest(S, k), k, S)
  <2>1. S \subseteq Nat
    BY <1>1 DEF Ids
  <2> HIDE DEF S
  <2> QED BY <1>6, <1>7, <2>1, LowestFacts
<1>9. FreshIds(k) = Lowest(S, k)
  BY DEF FreshIds, IdsInUse
<1>10. Rising(FreshIds(k), k, S)
  BY <1>8, <1>9
<1>11. S \subseteq Ids
  OBVIOUS
<1> HIDE DEF S
<1>12. Rising(FreshIds(k), k, Ids)
  <2>1. FreshIds(k) \in Seq(S)
    BY <1>10 DEF Rising
  <2>2. FreshIds(k) \in Seq(Ids)
    BY <1>11, <2>1
  <2> QED BY <1>10, <1>11, <2>2 DEF Rising
<1> QED
  BY <1>10, <1>12 DEF Unused, Rising, S

(* FreeNodes lists nodes that are not alive.                               *)
LEMMA FreeFacts ==
    ASSUME Live \subseteq Nodes, NEW k \in 0 .. Cardinality(Nodes \ Live)
    PROVE  Rising(FreeNodes(k), k, Nodes \ Live)
<1> DEFINE S == Nodes \ Live
<1>1. IsFiniteSet(S) /\ S \subseteq Nat
  <2>1. S \subseteq Nodes
    OBVIOUS
  <2> QED BY <2>1, NodesFinite, NodesAreNumbers
<1> HIDE DEF S
<1>2. k \in 0 .. Cardinality(S)
  BY DEF S
<1>3. Rising(Lowest(S, k), k, S)
  BY <1>1, <1>2, LowestFacts
<1> QED
  BY <1>3 DEF FreeNodes, S

(* An id that is not in use is not in the database.                        *)
LEMMA UnusedIsFree ==
    ASSUME HeapInv, NEW i \in Ids \ IdsInUse
    PROVE  nodes[i] = NoNode
<1>1. Named(Heap, Live) /\ Heap.nodes = nodes /\ Heap.id = id
  BY DEF HeapInv, Well, Heap
<1> QED
  BY <1>1 DEF Named, IdsInUse

---------------------------------------------------------------------------
(* r is h with copies of the nodes ns at the nodes to.                     *)
CopyOf(h, r, ns, to, ids) ==
    /\ r \in Heaps
    /\ \A m \in Nodes \ ToSet(to) :
          /\ r.name[m] = h.name[m] /\ r.children[m] = h.children[m] /\ r.parent[m] = h.parent[m]
          /\ r.index[m] = h.index[m] /\ r.id[m] = h.id[m]
    /\ \A i \in 1 .. Len(ns) :
          /\ r.name[to[i]] = h.name[ns[i]] /\ r.id[to[i]] = ids[i] /\ r.nodes[ids[i]] = to[i]
          /\ Len(r.children[to[i]]) = Len(h.children[ns[i]])
          /\ \A j \in 1 .. Len(h.children[ns[i]]) : \E l \in 1 .. Len(ns) :
                ns[l] = h.children[ns[i]][j] /\ r.children[to[i]][j] = to[l]
    /\ r.parent[to[1]] = NoNode
    /\ \A i \in 2 .. Len(ns) :
          /\ r.index[to[i]] = h.index[ns[i]]
          /\ \E l \in 1 .. Len(ns) : ns[l] = h.parent[ns[i]] /\ r.parent[to[i]] = to[l]
    /\ \A j \in Ids \ ToSet(ids) : r.nodes[j] = h.nodes[j]

(* The nodes ns, all below the first, and as many to copy them to.         *)
Copying(h, L, ns, to, ids) ==
    /\ Well(h, L) /\ ns # <<>> /\ ns[1] \in L /\ Subtree(h, ns[1], ns)
    /\ Rising(to, Len(ns), Nodes \ L) /\ Rising(ids, Len(ns), Ids)
    /\ \A i \in 1 .. Len(ns) : h.nodes[ids[i]] = NoNode

(* Copied does that: the links among the copies are those among the        *)
(* originals.                                                              *)
LEMMA CopiedFields ==
    ASSUME NEW h, NEW L, NEW ns, NEW to, NEW ids, Copying(h, L, ns, to, ids),
           NEW r, r = Copied(h, ns, to, ids)
    PROVE  CopyOf(h, r, ns, to, ids)
<1> DEFINE k == Len(ns)
           new == ToSet(to)
           copy(n) == IF n \in ToSet(ns) THEN to[Place(ns, n)] ELSE NoNode
           original(n) == ns[Place(to, n)]
           name1 == [n \in Nodes |-> IF n \in new THEN h.name[original(n)] ELSE h.name[n]]
           children1 == [n \in Nodes |->
             IF n \in new THEN [i \in DOMAIN h.children[original(n)] |-> copy(h.children[original(n)][i])]
             ELSE h.children[n]]
           parent1 == [n \in Nodes |->
             IF n \notin new THEN h.parent[n]
             ELSE IF original(n) = ns[1] THEN NoNode ELSE copy(h.parent[original(n)])]
           index1 == [n \in Nodes |->
             IF n \notin new THEN h.index[n]
             ELSE IF original(n) = ns[1] THEN 0 ELSE h.index[original(n)]]
           id1 == [n \in Nodes |->
             IF n \in new THEN ids[Place(to, n)] ELSE h.id[n]]
           nodes1 == [i \in Ids |->
             IF i \in ToSet(ids) THEN to[Place(ids, i)] ELSE h.nodes[i]]
<1>1. r = [name |-> name1, children |-> children1, parent |-> parent1, index |-> index1,
           id |-> id1, nodes |-> nodes1]
  BY DEF Copied, Place
<1>2. h \in Heaps /\ L \subseteq Nodes /\ Well(h, L) /\ Subtree(h, ns[1], ns) /\ ns[1] \in L
  BY DEF Copying, Well
<1>3. /\ ns \in Seq(Nodes) /\ k \in Nat /\ k >= 1 /\ DOMAIN ns = 1 .. k
      /\ \A i, j \in 1 .. k : ns[i] = ns[j] => i = j
      /\ \A i \in 2 .. k : \E j \in 1 .. i - 1 : ns[j] = h.parent[ns[i]]
      /\ ToSet(ns) = Below(h, {ns[1]})
  BY <1>2 DEF Subtree
<1>4. ToSet(ns) \subseteq L /\ \A i \in 1 .. k : ns[i] \in L /\ ns[i] \in Nodes /\ ns[i] \in ToSet(ns)
  <2>1. ToSet(ns) \subseteq L
    BY <1>2, <1>3, WellReach
  <2>2. \A i \in 1 .. k : ns[i] \in ToSet(ns)
    BY <1>3, SeqFacts
  <2> QED BY <1>2, <2>1, <2>2
<1>5. /\ to \in Seq(Nodes \ L) /\ Len(to) = k /\ new \subseteq Nodes \ L
      /\ \A i, j \in 1 .. Len(to) : to[i] = to[j] => i = j
  <2>1. PICK S : S = Nodes \ L
    OBVIOUS
  <2>2. Rising(to, k, S) /\ S \subseteq Nat /\ k \in Nat
    BY <1>3, <2>1, NodesAreNumbers DEF Copying
  <2> HIDE DEF k
  <2>3. /\ to \in Seq(S) /\ Len(to) = k /\ ToSet(to) \subseteq S
        /\ \A i, j \in 1 .. Len(to) : to[i] = to[j] => i = j
    BY ONLY <2>2, RisingFacts
  <2> QED BY <2>1, <2>3
<1>6. /\ ids \in Seq(Ids) /\ Len(ids) = k /\ ToSet(ids) \subseteq Ids
      /\ \A i, j \in 1 .. Len(ids) : ids[i] = ids[j] => i = j
  <2>1. PICK S : S = Ids
    OBVIOUS
  <2>2. Rising(ids, k, S) /\ S \subseteq Nat /\ k \in Nat
    BY <1>3, <2>1, NodesAreNumbers DEF Copying
  <2> HIDE DEF k
  <2>3. /\ ids \in Seq(S) /\ Len(ids) = k /\ ToSet(ids) \subseteq S
        /\ \A i, j \in 1 .. Len(ids) : ids[i] = ids[j] => i = j
    BY ONLY <2>2, RisingFacts
  <2> QED BY <2>1, <2>3
<1>7. /\ \A i \in 1 .. k : Place(ns, ns[i]) = i
      /\ \A x \in ToSet(ns) : Place(ns, x) \in 1 .. k /\ ns[Place(ns, x)] = x
  BY <1>3, PlaceOf
<1>8. /\ \A i \in 1 .. k : Place(to, to[i]) = i /\ to[i] \in new /\ to[i] \in Nodes
      /\ \A x \in new : Place(to, x) \in 1 .. k /\ to[Place(to, x)] = x
  <2>1. \A i \in 1 .. k : Place(to, to[i]) = i
    BY <1>5, PlaceOf
  <2>2. \A x \in new : Place(to, x) \in 1 .. k /\ to[Place(to, x)] = x
    BY <1>5, PlaceOf
  <2>3. \A i \in 1 .. k : to[i] \in new
    BY <1>5, SeqFacts
  <2> QED BY <1>5, <2>1, <2>2, <2>3
<1>9. /\ \A i \in 1 .. k : Place(ids, ids[i]) = i /\ ids[i] \in ToSet(ids) /\ ids[i] \in Ids
      /\ \A x \in ToSet(ids) : Place(ids, x) \in 1 .. k /\ ids[Place(ids, x)] = x
  <2>1. \A i \in 1 .. k : Place(ids, ids[i]) = i
    BY <1>6, PlaceOf
  <2>2. \A x \in ToSet(ids) : Place(ids, x) \in 1 .. k /\ ids[Place(ids, x)] = x
    BY <1>6, PlaceOf
  <2>3. \A i \in 1 .. k : ids[i] \in ToSet(ids)
    BY <1>6, SeqFacts
  <2> QED BY <1>6, <2>1, <2>2, <2>3
<1>10. \A n \in new : original(n) \in ToSet(ns) /\ original(n) \in Nodes
  BY <1>4, <1>8
<1>11. \A n \in ToSet(ns) : copy(n) \in Nodes
  BY <1>7, <1>8
<1>12. \A n \in ToSet(ns) : \A j \in DOMAIN h.children[n] : h.children[n][j] \in ToSet(ns)
  <2>1. Reach(h, {ns[1]}, ToSet(ns))
    BY <1>2, <1>3, WellReach
  <2>2. SUFFICES ASSUME NEW n \in ToSet(ns), NEW j \in DOMAIN h.children[n]
                 PROVE  h.children[n][j] \in ToSet(h.children[n])
    BY <2>1 DEF Reach
  <2> QED BY DEF ToSet
<1>13. \A n \in ToSet(ns) : n # ns[1] => h.parent[n] \in ToSet(ns)
  <2>1. TAKE n \in ToSet(ns)
  <2>2. HAVE n # ns[1]
  <2>3. h.parent[n] \in Below(h, {ns[1]})
    BY <1>2, <1>3, <2>2, BelowHasParent
  <2> QED BY <1>3, <2>3
<1> HIDE DEF k, new, copy, original
<1>14. name1 \in [Nodes -> Nodes \cup {NoNode}]
  BY <1>2, <1>10, HeapFields
<1>15. children1 \in [Nodes -> Seq(Nodes)]
  <2>1. SUFFICES ASSUME NEW n \in Nodes PROVE children1[n] \in Seq(Nodes)
    OBVIOUS
  <2>2. CASE n \notin new
    BY <1>2, <2>1, <2>2, HeapFields
  <2>3. CASE n \in new
    <3> DEFINE s == h.children[original(n)]
    <3>1. s \in Seq(Nodes) /\ Len(s) \in Nat /\ DOMAIN s = 1 .. Len(s)
      BY <1>2, <1>10, <2>3, HeapFields
    <3>2. children1[n] = [i \in 1 .. Len(s) |-> copy(s[i])]
      BY <2>1, <2>3, <3>1
    <3>3. \A i \in 1 .. Len(s) : copy(s[i]) \in Nodes
      BY <1>10, <1>11, <1>12, <2>3, <3>1
    <3> HIDE DEF s, children1
    <3> QED BY <3>1, <3>2, <3>3
  <2> QED BY <2>2, <2>3
<1>16. parent1 \in [Nodes -> Nodes \cup {NoNode}]
  <2>1. \A n \in Nodes : n \in new /\ original(n) # ns[1] => copy(h.parent[original(n)]) \in Nodes
    BY <1>10, <1>11, <1>13
  <2>2. h.parent \in [Nodes -> Nodes \cup {NoNode}]
    BY <1>2, HeapFields
  <2> QED BY <2>1, <2>2
<1>17. index1 \in [Nodes -> Int]
  BY <1>2, <1>10, HeapFields
<1>18. id1 \in [Nodes -> Ids \cup {NoId}]
  <2>1. \A n \in new : ids[Place(to, n)] \in Ids
    BY <1>8, <1>9
  <2> QED BY <1>2, <2>1, HeapFields
<1>19. nodes1 \in [Ids -> Nodes \cup {NoNode}]
  <2>1. \A i \in ToSet(ids) : to[Place(ids, i)] \in Nodes
    BY <1>8, <1>9
  <2> QED BY <1>2, <2>1, HeapFields
<1>20. r \in Heaps
  <2> HIDE DEF name1, children1, parent1, index1, id1, nodes1
  <2> QED BY <1>1, <1>14, <1>15, <1>16, <1>17, <1>18, <1>19 DEF Heaps
<1>21. /\ r.name = name1 /\ r.children = children1 /\ r.parent = parent1
       /\ r.index = index1 /\ r.id = id1 /\ r.nodes = nodes1
  <2> HIDE DEF name1, children1, parent1, index1, id1, nodes1
  <2> QED BY <1>1
<1>22. \A m \in Nodes \ new :
          /\ r.name[m] = h.name[m] /\ r.children[m] = h.children[m] /\ r.parent[m] = h.parent[m]
          /\ r.index[m] = h.index[m] /\ r.id[m] = h.id[m]
  BY <1>21
<1>23. \A i \in 1 .. k : original(to[i]) = ns[i] /\ to[i] \in new /\ to[i] \in Nodes
  BY <1>8 DEF original
<1>24. ASSUME NEW i \in 1 .. k
       PROVE  /\ r.name[to[i]] = h.name[ns[i]] /\ r.id[to[i]] = ids[i] /\ r.nodes[ids[i]] = to[i]
              /\ Len(r.children[to[i]]) = Len(h.children[ns[i]])
              /\ \A j \in 1 .. Len(h.children[ns[i]]) : \E l \in 1 .. k :
                    ns[l] = h.children[ns[i]][j] /\ r.children[to[i]][j] = to[l]
  <2>1. r.name[to[i]] = h.name[ns[i]]
    BY <1>21, <1>23
  <2>2. r.id[to[i]] = ids[i] /\ r.nodes[ids[i]] = to[i]
    BY <1>8, <1>9, <1>21, <1>23
  <2> DEFINE s == h.children[ns[i]]
             t == r.children[to[i]]
  <2>3. s \in Seq(Nodes) /\ Len(s) \in Nat /\ DOMAIN s = 1 .. Len(s)
    BY <1>2, <1>4, HeapFields DEF k
  <2>4. t = [j \in 1 .. Len(s) |-> copy(s[j])]
    <3>1. t = [j \in DOMAIN h.children[original(to[i])] |-> copy(h.children[original(to[i])][j])]
      BY <1>21, <1>23
    <3>2. h.children[original(to[i])] = s
      BY <1>23
    <3> HIDE DEF s, t
    <3> QED BY <2>3, <3>1, <3>2
  <2>5. t \in Seq(Nodes)
    BY <1>20, <1>23, HeapFields
  <2>6. \A j \in 1 .. Len(s) : s[j] \in ToSet(ns)
    BY <1>4, <1>12, <2>3 DEF k
  <2> HIDE DEF s, t
  <2>7. Len(t) = Len(s)
    BY <2>3, <2>4
  <2>8. \A j \in 1 .. Len(s) : \E l \in 1 .. k : ns[l] = s[j] /\ t[j] = to[l]
    <3>1. TAKE j \in 1 .. Len(s)
    <3>2. t[j] = to[Place(ns, s[j])] /\ Place(ns, s[j]) \in 1 .. k /\ ns[Place(ns, s[j])] = s[j]
      BY <1>7, <2>4, <2>6 DEF copy, k
    <3> QED BY <3>2
  <2> QED BY <2>1, <2>2, <2>7, <2>8 DEF s, t
<1>25. r.parent[to[1]] = NoNode
  <2>1. 1 \in 1 .. k
    BY <1>3 DEF k
  <2> QED BY <1>21, <1>23, <2>1
<1>26. ASSUME NEW i \in 2 .. k
       PROVE  /\ r.index[to[i]] = h.index[ns[i]]
              /\ \E l \in 1 .. k : ns[l] = h.parent[ns[i]] /\ r.parent[to[i]] = to[l]
  <2>1. i \in 1 .. k /\ i # 1 /\ 1 \in 1 .. k
    BY <1>3 DEF k
  <2>2. ns[i] # ns[1] /\ ns[i] \in ToSet(ns)
    BY <1>3, <1>4, <2>1 DEF k
  <2>3. r.index[to[i]] = h.index[ns[i]]
    BY <1>21, <1>23, <2>1, <2>2
  <2>4. r.parent[to[i]] = copy(h.parent[ns[i]])
    BY <1>21, <1>23, <2>1, <2>2
  <2>5. h.parent[ns[i]] \in ToSet(ns)
    BY <1>13, <2>2
  <2> DEFINE l == Place(ns, h.parent[ns[i]])
  <2>6. r.parent[to[i]] = to[l] /\ l \in 1 .. k /\ ns[l] = h.parent[ns[i]]
    BY <1>7, <2>4, <2>5 DEF copy, k
  <2> QED BY <2>3, <2>6
<1>27. \A j \in Ids \ ToSet(ids) : r.nodes[j] = h.nodes[j]
  BY <1>21
<1> QED
  BY <1>20, <1>22, <1>24, <1>25, <1>26, <1>27 DEF CopyOf, new, k

---------------------------------------------------------------------------
(* Trees planted beside the nodes L: k new nodes, to[i] under to[up[i]],   *)
(* which comes before it, or a root where up[i] is 0.                      *)
Elsewhere(h, r, new) ==
    \A m \in Nodes \ new :
        /\ r.name[m] = h.name[m] /\ r.children[m] = h.children[m] /\ r.parent[m] = h.parent[m]
        /\ r.index[m] = h.index[m] /\ r.id[m] = h.id[m]

Ups(k, up) == \A i \in 1 .. k : up[i] \in 0 .. i - 1

Hung(r, to, k, up) ==
    \A i \in 1 .. k :
        /\ r.parent[to[i]] = IF up[i] = 0 THEN NoNode ELSE to[up[i]]
        /\ up[i] # 0 => to[i] \in ToSet(r.children[to[up[i]]])

Branches(r, to, k, up) ==
    \A i \in 1 .. k : \A j \in DOMAIN r.children[to[i]] : \E l \in 1 .. k :
        r.children[to[i]][j] = to[l] /\ up[l] = i /\ r.index[to[l]] = j - 1

Labelled(h, r, to, k) ==
    /\ \A i \in 1 .. k : /\ r.name[to[i]] # NoNode /\ r.id[to[i]] \in Ids
                         /\ r.nodes[r.id[to[i]]] = to[i] /\ h.nodes[r.id[to[i]]] = NoNode
    /\ \A j \in Ids : \/ r.nodes[j] = h.nodes[j]
                      \/ \E i \in 1 .. k : r.nodes[j] = to[i] /\ r.id[to[i]] = j

Planted(h, L, r, to, k, up) ==
    /\ Well(h, L) /\ r \in Heaps /\ k \in Nat /\ Rising(to, k, Nodes \ L)
    /\ Elsewhere(h, r, ToSet(to)) /\ Ups(k, up) /\ Hung(r, to, k, up)
    /\ Branches(r, to, k, up) /\ Labelled(h, r, to, k)

(* Trees planted leave the heap well. A part of it with no node of before  *)
(* is grounded at the last of the new nodes in it: what hangs under one    *)
(* comes after it.                                                         *)
LEMMA PlantedIsWell ==
    ASSUME NEW h, NEW L, NEW r, NEW to, NEW k, NEW up, Planted(h, L, r, to, k, up)
    PROVE  Well(r, L \cup ToSet(to))
<1> DEFINE new == ToSet(to)
           M == L \cup new
<1>1. /\ Well(h, L) /\ r \in Heaps /\ k \in Nat /\ Rising(to, k, Nodes \ L)
      /\ Elsewhere(h, r, new) /\ Ups(k, up) /\ Hung(r, to, k, up)
      /\ Branches(r, to, k, up) /\ Labelled(h, r, to, k)
  BY DEF Planted
<1>2. h \in Heaps /\ L \subseteq Nodes /\ Closed(h, L) /\ Linked(h, L) /\ Named(h, L) /\ Grounded(h, L)
  BY <1>1 DEF Well
<1>3. /\ to \in Seq(Nodes \ L) /\ Len(to) = k /\ new \subseteq Nodes \ L
      /\ \A i, j \in 1 .. Len(to) : to[i] = to[j] => i = j
  <2>1. Nodes \ L \subseteq Nat
    BY NodesAreNumbers
  <2> QED BY <1>1, <2>1, RisingFacts
<1>4. /\ \A i \in 1 .. k : to[i] \in new /\ to[i] \in Nodes /\ to[i] \notin L
      /\ \A n \in new : \E i \in 1 .. k : to[i] = n
      /\ \A i, j \in 1 .. k : to[i] = to[j] => i = j
  <2>1. \A i \in 1 .. k : to[i] \in new
    BY <1>3, SeqFacts
  <2>2. \A n \in new : \E i \in 1 .. k : to[i] = n
    BY <1>3, SeqFacts
  <2> QED BY <1>3, <2>1, <2>2
<1>5. M \subseteq Nodes /\ NoNode \notin M /\ NoNode \notin Nodes /\ NoId \notin Ids
  BY <1>2, <1>3, NodesAreNumbers
<1>6. \A m \in L : /\ m \in Nodes /\ m \notin new
                   /\ r.name[m] = h.name[m] /\ r.children[m] = h.children[m]
                   /\ r.parent[m] = h.parent[m] /\ r.index[m] = h.index[m] /\ r.id[m] = h.id[m]
  BY <1>1, <1>2, <1>3 DEF Elsewhere
<1>7. \A n \in M : r.children[n] \in Seq(Nodes) /\ DOMAIN r.children[n] = 1 .. Len(r.children[n])
  BY <1>1, <1>5, Listed
<1>8. \A i \in 1 .. k : \A x \in ToSet(r.children[to[i]]) : \E l \in 1 .. k :
          x = to[l] /\ up[l] = i
  <2>1. TAKE i \in 1 .. k
  <2>2. TAKE x \in ToSet(r.children[to[i]])
  <2>3. PICK j \in DOMAIN r.children[to[i]] : r.children[to[i]][j] = x
    BY <2>2 DEF ToSet
  <2> QED BY <1>1, <2>3 DEF Branches
<1> HIDE DEF new
<1>9. Closed(r, M)
  <2>1. SUFFICES ASSUME NEW n \in M PROVE ToSet(r.children[n]) \subseteq M
    BY DEF Closed
  <2>2. CASE n \in L
    BY <1>2, <1>6, <2>2 DEF Closed
  <2>3. CASE n \in new
    BY <1>4, <1>8, <2>3
  <2> QED BY <2>1, <2>2, <2>3
<1>10. Linked(r, M)
  <2>1. ASSUME NEW p \in M, NEW i \in DOMAIN r.children[p]
        PROVE  r.parent[r.children[p][i]] = p /\ r.index[r.children[p][i]] = i - 1
    <3>1. CASE p \in L
      <4>1. h.children[p] = r.children[p] /\ i \in DOMAIN h.children[p]
        BY <1>6, <2>1, <3>1
      <4>2. h.children[p][i] \in L
        <5>1. h.children[p][i] \in ToSet(h.children[p])
          BY <4>1 DEF ToSet
        <5> QED BY <1>2, <3>1, <5>1 DEF Closed
      <4>3. h.parent[h.children[p][i]] = p /\ h.index[h.children[p][i]] = i - 1
        BY <1>2, <3>1, <4>1 DEF Linked
      <4> QED BY <1>6, <4>1, <4>2, <4>3
    <3>2. CASE p \in new
      <4>1. PICK m \in 1 .. k : to[m] = p
        BY <1>4, <3>2
      <4>2. PICK l \in 1 .. k : r.children[p][i] = to[l] /\ up[l] = m /\ r.index[to[l]] = i - 1
        BY <1>1, <2>1, <4>1 DEF Branches
      <4>3. r.parent[to[l]] = to[m]
        <5>1. m # 0
          BY <1>1, <4>1
        <5> QED BY <1>1, <4>2, <5>1 DEF Hung
      <4> QED BY <4>1, <4>2, <4>3
    <3> QED BY <2>1, <3>1, <3>2
  <2>2. ASSUME NEW c \in M, r.parent[c] # NoNode
        PROVE  r.parent[c] \in M /\ c \in ToSet(r.children[r.parent[c]])
    <3>1. CASE c \in L
      <4>1. h.parent[c] \in L /\ c \in ToSet(h.children[h.parent[c]])
        BY <1>2, <1>6, <2>2, <3>1 DEF Linked
      <4> QED BY <1>6, <3>1, <4>1
    <3>2. CASE c \in new
      <4>1. PICK i \in 1 .. k : to[i] = c
        BY <1>4, <3>2
      <4>2. up[i] # 0 /\ r.parent[c] = to[up[i]] /\ c \in ToSet(r.children[to[up[i]]])
        BY <1>1, <2>2, <4>1 DEF Hung
      <4>3. up[i] \in 1 .. k
        BY <1>1, <4>2 DEF Ups
      <4> QED BY <1>4, <4>2, <4>3
    <3> QED BY <2>2, <3>1, <3>2
  <2> QED BY <2>1, <2>2 DEF Linked
<1>11. Named(r, M)
  <2>1. ASSUME NEW n \in M PROVE r.name[n] # NoNode /\ r.id[n] # NoId /\ r.nodes[r.id[n]] = n
    <3>1. CASE n \in L
      <4>1. r.name[n] # NoNode /\ r.id[n] # NoId /\ h.nodes[r.id[n]] = n
        BY <1>2, <1>6, <3>1 DEF Named
      <4>2. r.id[n] \in Ids
        <5>1. h.id[n] \in Ids \cup {NoId}
          BY <1>2, <3>1, HeapFields
        <5> QED BY <1>6, <3>1, <4>1, <5>1
      <4>3. r.nodes[r.id[n]] = h.nodes[r.id[n]]
        <5>1. SUFFICES ASSUME NEW i \in 1 .. k, r.id[to[i]] = r.id[n] PROVE FALSE
          BY <1>1, <4>2 DEF Labelled
        <5>2. h.nodes[r.id[n]] = NoNode
          BY <1>1, <5>1 DEF Labelled
        <5> QED BY <1>5, <3>1, <4>1, <5>2
      <4> QED BY <4>1, <4>3
    <3>2. CASE n \in new
      <4>1. PICK i \in 1 .. k : to[i] = n
        BY <1>4, <3>2
      <4>2. r.name[n] # NoNode /\ r.id[n] \in Ids /\ r.nodes[r.id[n]] = n
        BY <1>1, <4>1 DEF Labelled
      <4> QED BY <1>5, <4>2
    <3> QED BY <2>1, <3>1, <3>2
  <2>2. ASSUME NEW j \in Ids, r.nodes[j] # NoNode
        PROVE  r.nodes[j] \in M /\ r.id[r.nodes[j]] = j
    <3>1. CASE r.nodes[j] = h.nodes[j]
      <4>1. h.nodes[j] \in L /\ h.id[h.nodes[j]] = j
        BY <1>2, <2>2, <3>1 DEF Named
      <4> QED BY <1>6, <3>1, <4>1
    <3>2. CASE \E i \in 1 .. k : r.nodes[j] = to[i] /\ r.id[to[i]] = j
      BY <1>4, <3>2
    <3> QED BY <1>1, <2>2, <3>1, <3>2 DEF Labelled
  <2> QED BY <2>1, <2>2 DEF Named
<1>12. Grounded(r, M)
  <2>1. SUFFICES ASSUME NEW T \in SUBSET M, T # {}
                 PROVE  \E n \in T : ToSet(r.children[n]) \cap T = {}
    BY DEF Grounded
  <2>2. CASE T \cap L # {}
    <3>1. T \cap L \in SUBSET L
      OBVIOUS
    <3>2. PICK n \in T \cap L : ToSet(h.children[n]) \cap (T \cap L) = {}
      BY <1>2, <2>2, <3>1 DEF Grounded
    <3>3. r.children[n] = h.children[n] /\ ToSet(h.children[n]) \subseteq L
      BY <1>2, <1>6, <3>2 DEF Closed
    <3> QED BY <3>2, <3>3
  <2>3. CASE T \cap L = {}
    <3> DEFINE U == {j \in 0 .. k : \E i \in 1 .. k : to[i] \in T /\ j = k - i}
    <3>1. U \in SUBSET Nat
      BY <1>1
    <3>2. U # {}
      <4>1. PICK n \in T : n \in new
        BY <2>1, <2>3
      <4>2. PICK i \in 1 .. k : to[i] = n
        BY <1>4, <4>1
      <4>3. k - i \in 0 .. k
        BY <1>1
      <4> QED BY <4>1, <4>2, <4>3
    <3>3. PICK j \in U : \A x \in U : j <= x
      BY <3>1, <3>2, LeastOf
    <3>4. PICK i \in 1 .. k : to[i] \in T /\ j = k - i
      BY <3>3
    <3>5. ASSUME NEW x \in ToSet(r.children[to[i]]), x \in T PROVE FALSE
      <4>1. PICK l \in 1 .. k : x = to[l] /\ up[l] = i
        BY <1>8, <3>5
      <4>2. i < l
        BY <1>1, <4>1 DEF Ups
      <4>3. k - l \in U /\ k - l < j
        BY <1>1, <3>4, <3>5, <4>1, <4>2
      <4>4. j <= k - l
        BY <3>3, <4>3
      <4> QED BY <1>1, <3>4, <4>3, <4>4
    <3> QED BY <3>4, <3>5
  <2> QED BY <2>2, <2>3
<1> QED
  BY <1>1, <1>5, <1>9, <1>10, <1>11, <1>12 DEF Well, new

(* A copy is a tree planted.                                               *)
LEMMA CopyIsPlanted ==
    ASSUME NEW h, NEW L, NEW ns, NEW to, NEW ids, Copying(h, L, ns, to, ids),
           NEW r, CopyOf(h, r, ns, to, ids)
    PROVE  \E up : Planted(h, L, r, to, Len(ns), up)
<1> DEFINE k == Len(ns)
           up == [i \in 1 .. k |-> IF i = 1 THEN 0 ELSE Place(ns, h.parent[ns[i]])]
<1>1. /\ Well(h, L) /\ ns[1] \in L /\ Subtree(h, ns[1], ns) /\ Rising(to, k, Nodes \ L)
      /\ Rising(ids, k, Ids) /\ \A i \in 1 .. k : h.nodes[ids[i]] = NoNode
  BY DEF Copying
<1>2. /\ ns \in Seq(Nodes) /\ k \in Nat /\ k >= 1 /\ DOMAIN ns = 1 .. k
      /\ \A i, j \in 1 .. k : ns[i] = ns[j] => i = j
      /\ \A i \in 2 .. k : \E j \in 1 .. i - 1 : ns[j] = h.parent[ns[i]]
      /\ ToSet(ns) = Below(h, {ns[1]})
  BY <1>1 DEF Subtree
<1>3. h \in Heaps /\ L \subseteq Nodes /\ Linked(h, L) /\ Named(h, L) /\ Closed(h, L)
  BY <1>1 DEF Well
<1>4. \A i \in 1 .. k : ns[i] \in L /\ ns[i] \in Nodes /\ ns[i] \in ToSet(ns)
  <2>1. ToSet(ns) \subseteq L
    BY <1>1, <1>2, WellReach
  <2>2. \A i \in 1 .. k : ns[i] \in ToSet(ns)
    BY <1>2, SeqFacts
  <2> QED BY <1>3, <2>1, <2>2
<1>5. \A i \in 1 .. k : Place(ns, ns[i]) = i
  BY <1>2, PlaceOf
<1>6. up[1] = 0 /\ \A i \in 2 .. k : up[i] \in 1 .. i - 1 /\ ns[up[i]] = h.parent[ns[i]]
  <2>1. up[1] = 0
    BY <1>2
  <2>2. ASSUME NEW i \in 2 .. k PROVE up[i] \in 1 .. i - 1 /\ ns[up[i]] = h.parent[ns[i]]
    <3>1. PICK j \in 1 .. i - 1 : ns[j] = h.parent[ns[i]]
      BY <1>2
    <3>2. j \in 1 .. k /\ i \in 1 .. k /\ i # 1
      BY <1>2, <3>1
    <3>3. up[i] = j
      BY <1>5, <3>1, <3>2
    <3> QED BY <3>1, <3>3
  <2> QED BY <2>1, <2>2
<1> HIDE DEF up
<1>7. Ups(k, up)
  <2>1. SUFFICES ASSUME NEW i \in 1 .. k PROVE up[i] \in 0 .. i - 1
    BY DEF Ups
  <2> QED BY <1>2, <1>6
<1>8. r \in Heaps /\ Elsewhere(h, r, ToSet(to))
  BY DEF CopyOf, Elsewhere
<1>9. /\ r.parent[to[1]] = NoNode
      /\ \A i \in 2 .. k : /\ r.index[to[i]] = h.index[ns[i]]
                           /\ \E l \in 1 .. k : ns[l] = h.parent[ns[i]] /\ r.parent[to[i]] = to[l]
      /\ \A i \in 1 .. k : /\ r.name[to[i]] = h.name[ns[i]] /\ r.id[to[i]] = ids[i]
                           /\ r.nodes[ids[i]] = to[i]
                           /\ Len(r.children[to[i]]) = Len(h.children[ns[i]])
      /\ \A i \in 1 .. k : \A j \in 1 .. Len(h.children[ns[i]]) : \E l \in 1 .. k :
            ns[l] = h.children[ns[i]][j] /\ r.children[to[i]][j] = to[l]
      /\ \A j \in Ids \ ToSet(ids) : r.nodes[j] = h.nodes[j]
  BY DEF CopyOf
<1>10. \A i \in 1 .. k : to[i] \in Nodes
  BY <1>1 DEF Rising
<1>11. \A i \in 1 .. k : /\ DOMAIN r.children[to[i]] = 1 .. Len(r.children[to[i]])
                         /\ DOMAIN h.children[ns[i]] = 1 .. Len(h.children[ns[i]])
  <2>1. TAKE i \in 1 .. k
  <2> QED BY <1>3, <1>4, <1>8, <1>10, Listed
<1>12. Branches(r, to, k, up)
  <2>1. SUFFICES ASSUME NEW i \in 1 .. k, NEW j \in DOMAIN r.children[to[i]]
                 PROVE  \E l \in 1 .. k : /\ r.children[to[i]][j] = to[l] /\ up[l] = i
                                          /\ r.index[to[l]] = j - 1
    BY DEF Branches
  <2>2. j \in 1 .. Len(h.children[ns[i]]) /\ j \in DOMAIN h.children[ns[i]]
    BY <1>9, <1>11
  <2>3. PICK l \in 1 .. k : ns[l] = h.children[ns[i]][j] /\ r.children[to[i]][j] = to[l]
    BY <1>9, <2>2
  <2>4. h.parent[ns[l]] = ns[i] /\ h.index[ns[l]] = j - 1
    BY <1>3, <1>4, <2>2, <2>3 DEF Linked
  <2>5. l # 1
    <3>1. ns[l] \in ToSet(h.children[ns[i]])
      BY <2>2, <2>3 DEF ToSet
    <3>2. ns[i] \notin Below(h, {ns[l]})
      BY <1>1, <1>4, <3>1, NotBelowChild
    <3>3. ns[i] \in Below(h, {ns[1]})
      BY <1>2, <1>4
    <3>4. l = 1 => {ns[l]} = {ns[1]}
      OBVIOUS
    <3> QED BY <3>2, <3>3, <3>4
  <2>6. l \in 2 .. k
    BY <1>2, <2>5
  <2>7. up[l] \in 1 .. k /\ ns[up[l]] = ns[i]
    BY <1>2, <1>6, <2>4, <2>6
  <2>8. up[l] = i
    BY <1>2, <2>7
  <2> QED BY <1>9, <2>3, <2>4, <2>6, <2>8
<1>13. Hung(r, to, k, up)
  <2>1. SUFFICES ASSUME NEW i \in 1 .. k
                 PROVE  /\ r.parent[to[i]] = IF up[i] = 0 THEN NoNode ELSE to[up[i]]
                        /\ up[i] # 0 => to[i] \in ToSet(r.children[to[up[i]]])
    BY DEF Hung
  <2>2. CASE i = 1
    BY <1>6, <1>9, <2>2
  <2>3. CASE i # 1
    <3>1. i \in 2 .. k /\ up[i] \in 1 .. k /\ ns[up[i]] = h.parent[ns[i]] /\ up[i] # 0
      BY <1>2, <1>6, <2>3
    <3>2. PICK l \in 1 .. k : ns[l] = h.parent[ns[i]] /\ r.parent[to[i]] = to[l]
      BY <1>9, <3>1
    <3>3. l = up[i]
      BY <1>2, <3>1, <3>2
    <3>4. to[i] \in ToSet(r.children[to[up[i]]])
      <4>1. h.parent[ns[i]] # NoNode
        BY <1>4, <3>1, NodesAreNumbers
      <4>2. ns[i] \in ToSet(h.children[ns[up[i]]])
        BY <1>3, <1>4, <3>1, <4>1 DEF Linked
      <4>3. PICK j \in DOMAIN h.children[ns[up[i]]] : h.children[ns[up[i]]][j] = ns[i]
        BY <4>2 DEF ToSet
      <4>4. j \in 1 .. Len(h.children[ns[up[i]]])
        BY <1>11, <3>1, <4>3
      <4> DEFINE u == up[i]
      <4> HIDE DEF u
      <4>5. PICK m \in 1 .. k : ns[m] = h.children[ns[u]][j] /\ r.children[to[u]][j] = to[m]
        <5>1. u \in 1 .. k /\ j \in 1 .. Len(h.children[ns[u]])
          BY <3>1, <4>4 DEF u
        <5> QED BY <1>9, <5>1
      <4>6. ns[m] = ns[i]
        BY <4>3, <4>5 DEF u
      <4>7. m = i
        BY <1>2, <4>6
      <4>8. Len(r.children[to[u]]) = Len(h.children[ns[u]]) /\ u \in 1 .. k
        BY <1>9, <3>1 DEF u
      <4>9. j \in DOMAIN r.children[to[u]]
        BY <1>11, <4>4, <4>8 DEF u
      <4> QED BY <4>5, <4>7, <4>9 DEF ToSet, u
    <3> QED BY <3>1, <3>2, <3>3, <3>4
  <2> QED BY <2>2, <2>3
<1>14. Labelled(h, r, to, k)
  <2>1. /\ \A i \in 1 .. k : ids[i] \in Ids /\ \A j \in ToSet(ids) : \E l \in 1 .. k : ids[l] = j
    <3>1. ids \in Seq(Ids) /\ Len(ids) = k /\ \A i \in 1 .. k : ids[i] \in Ids
      BY <1>1 DEF Rising
    <3> QED BY <3>1, SeqFacts
  <2>2. \A i \in 1 .. k : h.name[ns[i]] # NoNode
    BY <1>3, <1>4 DEF Named
  <2>3. ASSUME NEW i \in 1 .. k
        PROVE  /\ r.name[to[i]] # NoNode /\ r.id[to[i]] \in Ids
               /\ r.nodes[r.id[to[i]]] = to[i] /\ h.nodes[r.id[to[i]]] = NoNode
    <3>1. r.id[to[i]] = ids[i] /\ r.name[to[i]] = h.name[ns[i]] /\ r.nodes[ids[i]] = to[i]
      BY <1>9
    <3> QED BY <1>1, <2>1, <2>2, <3>1
  <2>4. ASSUME NEW j \in Ids
        PROVE  \/ r.nodes[j] = h.nodes[j]
               \/ \E i \in 1 .. k : r.nodes[j] = to[i] /\ r.id[to[i]] = j
    <3>1. CASE j \in ToSet(ids)
      <4>1. 1 \in 1 .. k
        BY <1>2
      <4>2. PICK l \in 1 .. k : ids[l] = j
        BY <2>1, <3>1, <4>1
      <4> QED BY <1>9, <4>2
    <3>2. CASE j \notin ToSet(ids)
      BY <1>9, <3>2
    <3> QED BY <3>1, <3>2
  <2> QED BY <2>3, <2>4 DEF Labelled
<1> QED
  BY <1>1, <1>2, <1>7, <1>8, <1>12, <1>13, <1>14 DEF Planted

---------------------------------------------------------------------------
(* What is written of a tree is a tree: the sections have ids of their     *)
(* own, and a parent's comes before its children's.                        *)
Filed(f) ==
    /\ f \in Seq(Sections) /\ Len(f) <= MaxNodes
    /\ \A i, j \in DOMAIN f : f[i].id = f[j].id => i = j
    /\ \A i \in DOMAIN f : IF i = 1 THEN f[i].parent = NoId
                           ELSE \E j \in 1 .. i - 1 : f[j].id = f[i].parent

(* The sections of a subtree are that.                                     *)
LEMMA SectionsOfTree ==
    ASSUME HeapInv, NEW n \in Live, NEW ns, ns = Preorder(Heap, n),
           NEW f, f = [i \in DOMAIN ns |->
               [id |-> id[ns[i]], name |-> name[ns[i]],
                parent |-> IF i = 1 THEN NoId ELSE id[parent[ns[i]]]]]
    PROVE  Filed(f)
<1>1. Well(Heap, Live)
  BY DEF HeapInv
<1>2. Subtree(Heap, n, ns)
  BY <1>1, PreorderFacts
<1>3. /\ ns \in Seq(Nodes) /\ Len(ns) \in Nat /\ Len(ns) >= 1 /\ DOMAIN ns = 1 .. Len(ns)
      /\ \A i, j \in 1 .. Len(ns) : ns[i] = ns[j] => i = j
      /\ \A i \in 2 .. Len(ns) : \E j \in 1 .. i - 1 : ns[j] = parent[ns[i]]
      /\ ToSet(ns) = Below(Heap, {n})
  BY <1>2 DEF Subtree, Heap
<1>4. \A i \in 1 .. Len(ns) : ns[i] \in Live /\ ns[i] \in Nodes
  <2>1. ToSet(ns) \subseteq Live
    <3>1. {n} \subseteq Live
      OBVIOUS
    <3>2. Below(Heap, {n}) \subseteq Live
      BY <1>1, <3>1, WellReach
    <3> QED BY <1>3, <3>2
  <2>2. \A i \in 1 .. Len(ns) : ns[i] \in ToSet(ns) /\ ns[i] \in Nodes
    BY <1>3, SeqFacts
  <2> QED BY <2>1, <2>2
<1>5. \A m \in Live : id[m] \in Ids /\ name[m] \in Nodes /\ nodes[id[m]] = m
  <2>1. Named(Heap, Live) /\ Live \subseteq Nodes /\ Heap \in Heaps
    BY <1>1 DEF Well
  <2>2. name \in [Nodes -> Nodes \cup {NoNode}] /\ id \in [Nodes -> Ids \cup {NoId}]
    BY <2>1, HeapFields DEF Heap
  <2>3. \A m \in Live : name[m] # NoNode /\ id[m] # NoId /\ nodes[id[m]] = m
    BY <2>1 DEF Named, Heap
  <2> QED BY <2>1, <2>2, <2>3
<1>6. DOMAIN f = 1 .. Len(ns)
      /\ \A i \in 1 .. Len(ns) : f[i].id = id[ns[i]] /\ f[i].name = name[ns[i]]
            /\ f[i].parent = IF i = 1 THEN NoId ELSE id[parent[ns[i]]]
  BY <1>3
<1>7. ASSUME NEW i \in 1 .. Len(ns)
      PROVE  IF i = 1 THEN f[i].parent = NoId
             ELSE \E j \in 1 .. i - 1 : f[j].id = f[i].parent
  <2>1. CASE i = 1
    BY <1>6, <2>1
  <2>2. CASE i # 1
    <3>1. i \in 2 .. Len(ns)
      BY <1>3, <2>2
    <3>2. PICK j \in 1 .. i - 1 : ns[j] = parent[ns[i]]
      BY <1>3, <3>1
    <3>3. j \in 1 .. Len(ns)
      BY <1>3, <3>2
    <3>4. f[j].id = f[i].parent
      BY <1>6, <2>2, <3>2, <3>3
    <3> QED BY <2>2, <3>2, <3>4
  <2> QED BY <2>1, <2>2
<1>8. f \in Seq(Sections) /\ Len(f) = Len(ns)
  <2>1. ASSUME NEW i \in 1 .. Len(ns) PROVE f[i] \in Sections
    <3> DEFINE up == IF i = 1 THEN NoId ELSE id[parent[ns[i]]]
    <3>1. up \in Ids \cup {NoId}
      <4>1. CASE i = 1
        BY <4>1
      <4>2. CASE i # 1
        <5>1. i \in 2 .. Len(ns)
          BY <1>3, <4>2
        <5>2. PICK j \in 1 .. i - 1 : ns[j] = parent[ns[i]]
          BY <1>3, <5>1
        <5>3. parent[ns[i]] \in Live
          BY <1>3, <1>4, <5>2
        <5> QED BY <1>5, <4>2, <5>3
      <4> QED BY <4>1, <4>2
    <3>2. f[i] = [id |-> id[ns[i]], name |-> name[ns[i]], parent |-> up]
      BY <1>3
    <3>3. id[ns[i]] \in Ids /\ name[ns[i]] \in Nodes
      BY <1>4, <1>5
    <3> HIDE DEF up
    <3> QED BY <3>1, <3>2, <3>3 DEF Sections
  <2>2. f = [i \in 1 .. Len(ns) |-> f[i]]
    BY <1>3
  <2> QED BY <1>3, <2>1, <2>2
<1>9. Len(ns) <= MaxNodes
  <2>1. Cardinality(1 .. Len(ns)) = Len(ns) /\ IsFiniteSet(1 .. Len(ns))
    <3>1. IsFiniteSet(1 .. Len(ns))
      BY <1>3, FS_Interval
    <3>2. Cardinality(1 .. Len(ns)) = IF 1 > Len(ns) THEN 0 ELSE Len(ns) - 1 + 1
      BY <1>3, FS_Interval
    <3> QED BY <1>3, <3>1, <3>2
  <2>2. Cardinality(ToSet(ns)) = Len(ns)
    <3>1. ns \in Bijection(1 .. Len(ns), ToSet(ns))
      <4>1. ns \in [1 .. Len(ns) -> ToSet(ns)]
        BY <1>3, SeqFacts
      <4>2. \A y \in ToSet(ns) : \E i \in 1 .. Len(ns) : ns[i] = y
        BY <1>3, SeqFacts
      <4>3. \A i, j \in 1 .. Len(ns) : ns[i] = ns[j] => i = j
        BY <1>3
      <4> DEFINE D == 1 .. Len(ns)
                 T == ToSet(ns)
      <4> HIDE DEF D, T
      <4>4. ns \in [D -> T] /\ (\A y \in T : \E i \in D : ns[i] = y)
            /\ \A i, j \in D : ns[i] = ns[j] => i = j
        BY <4>1, <4>2, <4>3 DEF D, T
      <4>5. ns \in Bijection(D, T)
        BY ONLY <4>4 DEF Bijection, Injection, Surjection, IsInjective
      <4> QED BY <4>5 DEF D, T
    <3> DEFINE D == 1 .. Len(ns)
               T == ToSet(ns)
    <3>2. IsFiniteSet(D) /\ Cardinality(D) = Len(ns) /\ ns \in Bijection(D, T)
      BY <2>1, <3>1
    <3> HIDE DEF D, T
    <3>3. ExistsBijection(D, T)
      BY ONLY <3>2 DEF ExistsBijection
    <3>4. Cardinality(D) = Cardinality(T)
      BY ONLY <3>2, <3>3, FS_Bijection
    <3> QED BY <3>2, <3>4 DEF T
  <2>3. ToSet(ns) \subseteq Nodes
    BY <1>3, SeqFacts
  <2>4. Cardinality(ToSet(ns)) <= MaxNodes
    BY <2>3, NodesFinite
  <2> QED BY <2>2, <2>4
<1>10. ASSUME NEW i \in 1 .. Len(ns), NEW j \in 1 .. Len(ns), f[i].id = f[j].id PROVE i = j
  <2>1. ns[i] = ns[j]
    BY <1>4, <1>5, <1>6, <1>10
  <2> QED BY <1>3, <2>1
<1> HIDE DEF Sections
<1>11. \A i, j \in DOMAIN f : f[i].id = f[j].id => i = j
  BY <1>6, <1>10
<1>12. \A i \in DOMAIN f : IF i = 1 THEN f[i].parent = NoId
                          ELSE \E j \in 1 .. i - 1 : f[j].id = f[i].parent
  <2>1. TAKE i \in DOMAIN f
  <2>2. i \in 1 .. Len(ns)
    BY <1>6
  <2> QED BY <1>7, <2>2
<1> QED
  BY <1>8, <1>9, <1>11, <1>12 DEF Filed

(* So dump_node writes a file that holds a tree.                           *)
LEMMA DumpKeepsFile ==
    ASSUME HeapInv, NEW n \in Nodes, Dump(n)
    PROVE  FileInv'
<1> DEFINE ns == Preorder(Heap, n)
<1>1. n \in Live
  BY DEF Dump
<1>2. file' = [i \in DOMAIN ns |->
               [id |-> id[ns[i]], name |-> name[ns[i]],
                parent |-> IF i = 1 THEN NoId ELSE id[parent[ns[i]]]]]
  BY DEF Dump
<1> HIDE DEF ns
<1>3. PICK f : f = file'
  OBVIOUS
<1>4. PICK s : s = ns
  OBVIOUS
<1>5. Filed(f)
  <2>1. s = Preorder(Heap, n)
    BY <1>4 DEF ns
  <2>2. f = [i \in DOMAIN s |->
               [id |-> id[s[i]], name |-> name[s[i]],
                parent |-> IF i = 1 THEN NoId ELSE id[parent[s[i]]]]]
    BY <1>2, <1>3, <1>4
  <2> QED BY <1>1, <2>1, <2>2, SectionsOfTree
<1> QED
  BY <1>3, <1>5 DEF FileInv, Filed

---------------------------------------------------------------------------
(* The parts of a section: its own first, each later one under one before. *)
PartSet == [of : Ids \X Ids, name : Nodes,
            parent : (Ids \cup {NoId}) \X (Ids \cup {NoId})]

PartsFrom(s, q) ==
    /\ q \in Seq(PartSet) /\ Len(q) >= 1 /\ q[1].parent = <<s.parent, s.parent>>
    /\ \A i \in 1 .. Len(q) : q[i].of[1] = s.id
    /\ nodes[s.id] = NoNode => Len(q) = 1
    /\ \A i \in 2 .. Len(q) : \E j \in 1 .. i - 1 : q[j].of = q[i].parent

(* PartsOf gives that, for a section no node stands for and for one that   *)
(* lives.                                                                  *)
LEMMA PartsOfSection ==
    ASSUME HeapInv, NEW s \in Sections, NEW q, q = PartsOf(s)
    PROVE  PartsFrom(s, q)
<1>1. s.id \in Ids /\ s.name \in Nodes /\ s.parent \in Ids \cup {NoId}
  BY DEF Sections
<1>2. Well(Heap, Live) /\ Named(Heap, Live) /\ Live \subseteq Nodes /\ Heap \in Heaps
  BY DEF HeapInv, Well
<1>3. <<s.parent, s.parent>> \in (Ids \cup {NoId}) \X (Ids \cup {NoId})
      /\ <<s.id, s.id>> \in Ids \X Ids
  BY <1>1
<1>4. CASE nodes[s.id] = NoNode
  <2> DEFINE x == [of |-> <<s.id, s.id>>, name |-> s.name, parent |-> <<s.parent, s.parent>>]
  <2>1. q = <<x>>
    BY <1>4 DEF PartsOf, Existing
  <2>2. x \in PartSet /\ x.parent = <<s.parent, s.parent>> /\ x.of[1] = s.id
    BY <1>1, <1>3 DEF PartSet
  <2> HIDE DEF x
  <2>3. q \in Seq(PartSet) /\ Len(q) = 1 /\ q[1] = x
    BY <2>1, <2>2
  <2> QED BY <2>2, <2>3 DEF PartsFrom
<1>5. CASE nodes[s.id] # NoNode
  <2>1. PICK n : n = nodes[s.id]
    OBVIOUS
  <2>2. n \in Live
    BY <1>1, <1>2, <1>5, <2>1 DEF Named, Heap
  <2>3. PICK ns : ns = Preorder(Heap, n)
    OBVIOUS
  <2>4. Subtree(Heap, n, ns)
    BY <1>2, <2>2, <2>3, PreorderFacts
  <2>5. /\ ns \in Seq(Nodes) /\ Len(ns) \in Nat /\ Len(ns) >= 1 /\ DOMAIN ns = 1 .. Len(ns)
        /\ \A i \in 2 .. Len(ns) : \E j \in 1 .. i - 1 : ns[j] = parent[ns[i]]
        /\ ToSet(ns) = Below(Heap, {n})
    BY <2>4 DEF Subtree, Heap
  <2>6. \A i \in 1 .. Len(ns) : ns[i] \in Live
    <3>1. {n} \subseteq Live
      BY <2>2
    <3>2. Below(Heap, {n}) \subseteq Live
      BY <1>2, <3>1, WellReach
    <3>3. \A i \in 1 .. Len(ns) : ns[i] \in ToSet(ns)
      BY <2>5, SeqFacts
    <3> QED BY <2>5, <3>2, <3>3
  <2>7. \A m \in Live : id[m] \in Ids /\ name[m] \in Nodes
    <3>1. name \in [Nodes -> Nodes \cup {NoNode}] /\ id \in [Nodes -> Ids \cup {NoId}]
      BY <1>2, HeapFields DEF Heap
    <3>2. \A m \in Live : name[m] # NoNode /\ id[m] # NoId
      BY <1>2 DEF Named, Heap
    <3> QED BY <1>2, <3>1, <3>2
  <2> DEFINE up(i) == IF i = 1 THEN <<s.parent, s.parent>> ELSE <<s.id, id[parent[ns[i]]]>>
             x(i) == [of |-> <<s.id, id[ns[i]]>>, name |-> name[ns[i]], parent |-> up(i)]
  <2>8. q = [i \in 1 .. Len(ns) |-> x(i)]
    BY <1>5, <2>1, <2>3, <2>5 DEF PartsOf, Existing
  <2>9. \A i \in 2 .. Len(ns) : id[parent[ns[i]]] \in Ids
    <3>1. TAKE i \in 2 .. Len(ns)
    <3>2. PICK j \in 1 .. i - 1 : ns[j] = parent[ns[i]]
      BY <2>5
    <3>3. j \in 1 .. Len(ns)
      BY <2>5, <3>2
    <3> QED BY <2>6, <2>7, <3>2, <3>3
  <2>10. \A i \in 1 .. Len(ns) : up(i) \in (Ids \cup {NoId}) \X (Ids \cup {NoId})
    <3>1. TAKE i \in 1 .. Len(ns)
    <3>2. CASE i = 1
      BY <1>3, <3>2
    <3>3. CASE i # 1
      <4>1. i \in 2 .. Len(ns)
        BY <2>5, <3>3
      <4> QED BY <1>1, <2>9, <3>3, <4>1
    <3> QED BY <3>2, <3>3
  <2>11. \A i \in 1 .. Len(ns) : <<s.id, id[ns[i]]>> \in Ids \X Ids /\ name[ns[i]] \in Nodes
    BY <1>1, <2>6, <2>7
  <2>12. \A i \in 2 .. Len(ns) : \E j \in 1 .. i - 1 : <<s.id, id[ns[j]]>> = up(i)
    <3>1. TAKE i \in 2 .. Len(ns)
    <3>2. PICK j \in 1 .. i - 1 : ns[j] = parent[ns[i]]
      BY <2>5
    <3>3. i # 1
      OBVIOUS
    <3> QED BY <3>2, <3>3
  <2>13. up(1) = <<s.parent, s.parent>>
    OBVIOUS
  <2> HIDE DEF up
  <2>14. \A i \in 1 .. Len(ns) : x(i) \in PartSet
    BY <2>10, <2>11 DEF PartSet
  <2>15. \A i : x(i).of = <<s.id, id[ns[i]]>> /\ x(i).of[1] = s.id /\ x(i).parent = up(i)
    OBVIOUS
  <2> HIDE DEF x
  <2>16. q \in Seq(PartSet) /\ Len(q) = Len(ns) /\ \A i \in 1 .. Len(ns) : q[i] = x(i)
    BY <2>5, <2>8, <2>14
  <2>17. \A i \in 2 .. Len(q) : \E j \in 1 .. i - 1 : q[j].of = q[i].parent
    <3>1. TAKE i \in 2 .. Len(q)
    <3>2. PICK j \in 1 .. i - 1 : <<s.id, id[ns[j]]>> = up(i)
      BY <2>12, <2>16
    <3>3. j \in 1 .. Len(ns) /\ i \in 1 .. Len(ns)
      BY <2>5, <2>16, <3>2
    <3>4. q[j].of = <<s.id, id[ns[j]]>> /\ q[i].parent = up(i)
      BY <2>15, <2>16, <3>3
    <3> QED BY <3>2, <3>4
  <2>18. q[1].parent = <<s.parent, s.parent>> /\ \A i \in 1 .. Len(q) : q[i].of[1] = s.id
    BY <2>5, <2>13, <2>15, <2>16
  <2> QED BY <1>5, <2>5, <2>16, <2>17, <2>18 DEF PartsFrom
<1> QED
  BY <1>4, <1>5

(* The sections kept are those of the file, in its order.                  *)
KeptFrom(kept) ==
    /\ kept \in Seq(Sections)
    /\ \A i, j \in 1 .. Len(kept) : kept[i].id = kept[j].id => i = j
    /\ \A i, j \in 1 .. Len(kept) : kept[i].parent = kept[j].id => j < i
    /\ \A i \in 1 .. Len(kept) : kept[i].id \in IdsInUse

(* Kept gives that.                                                        *)
LEMMA KeptFacts ==
    ASSUME FileInv, NEW kept, kept = Kept
    PROVE  KeptFrom(kept)
<1>1. /\ file \in Seq(Sections) /\ Len(file) \in Nat /\ DOMAIN file = 1 .. Len(file)
      /\ \A i, j \in 1 .. Len(file) : file[i].id = file[j].id => i = j
      /\ \A i \in 1 .. Len(file) : IF i = 1 THEN file[i].parent = NoId
                                   ELSE \E j \in 1 .. i - 1 : file[j].id = file[i].parent
  <2>1. file \in Seq(Sections) /\ Len(file) \in Nat /\ DOMAIN file = 1 .. Len(file)
    BY DEF FileInv
  <2>2. \A i, j \in 1 .. Len(file) : file[i].id = file[j].id => i = j
    BY <2>1 DEF FileInv
  <2>3. \A i \in DOMAIN file : IF i = 1 THEN file[i].parent = NoId
                              ELSE \E j \in 1 .. i - 1 : file[j].id = file[i].parent
    BY DEF FileInv
  <2> QED BY <2>1, <2>2, <2>3
<1> DEFINE S == {i \in DOMAIN file : ~ \E t \in ToSet(file) : ChildOf(file[i], t) /\ Existing(t)}
<1>2. kept = Part(file, S) /\ S \subseteq 1 .. Len(file)
  BY <1>1 DEF Kept
<1> HIDE DEF S
<1>3. PICK l : /\ kept \in Seq(Sections) /\ DOMAIN kept = 1 .. Len(kept)
               /\ l \in [1 .. Len(kept) -> S]
               /\ \A i \in 1 .. Len(kept) : kept[i] = file[l[i]]
               /\ \A i, j \in 1 .. Len(kept) : i < j => l[i] < l[j]
  <2>1. file \in Seq(Sections)
    BY <1>1
  <2>2. PartOf(Sections, file, S, kept)
    BY <1>2, <2>1, PartFacts
  <2> QED BY <2>2 DEF PartOf
<1>4. \A i \in 1 .. Len(kept) : l[i] \in 1 .. Len(file)
  BY <1>2, <1>3
<1>5. Len(kept) \in Nat
  BY <1>3
<1>6. ASSUME NEW i \in 1 .. Len(kept), NEW j \in 1 .. Len(kept), l[i] <= l[j], i # j PROVE i < j
  BY <1>3, <1>4, <1>5, <1>6
<1>7. ASSUME NEW i \in 1 .. Len(kept), NEW j \in 1 .. Len(kept), kept[i].id = kept[j].id
      PROVE  i = j
  <2>1. l[i] = l[j]
    <3>1. kept[i] = file[l[i]] /\ kept[j] = file[l[j]] /\ l[i] \in 1 .. Len(file) /\ l[j] \in 1 .. Len(file)
      BY <1>3, <1>4
    <3>2. file[l[i]].id = file[l[j]].id
      BY <1>7, <3>1
    <3> QED BY <1>1, <3>1, <3>2
  <2> QED BY <1>3, <1>4, <1>5, <2>1
<1>8. ASSUME NEW i \in 1 .. Len(kept), NEW j \in 1 .. Len(kept), kept[i].parent = kept[j].id
      PROVE  j < i
  <2>1. file[l[i]].parent = file[l[j]].id /\ l[i] \in 1 .. Len(file) /\ l[j] \in 1 .. Len(file)
    BY <1>3, <1>4, <1>8
  <2>2. file[l[j]] \in Sections
    BY <1>1, <2>1, SeqFacts
  <2>3. file[l[j]].id # NoId
    BY <2>2, NodesAreNumbers DEF Sections
  <2>4. l[i] # 1
    BY <1>1, <2>1, <2>3
  <2>5. PICK m \in 1 .. l[i] - 1 : file[m].id = file[l[i]].parent
    BY <1>1, <2>1, <2>4
  <2>6. m = l[j]
    <3>1. m \in 1 .. Len(file)
      BY <1>1, <2>1, <2>5
    <3> QED BY <1>1, <2>1, <2>5, <3>1
  <2>7. l[j] < l[i]
    BY <2>1, <2>5, <2>6
  <2> QED BY <1>6, <2>1, <2>7
<1>9. \A i \in 1 .. Len(kept) : kept[i].id \in IdsInUse
  BY <1>1, <1>3, <1>4 DEF IdsInUse
<1> QED
  BY <1>3, <1>7, <1>8, <1>9 DEF KeptFrom

---------------------------------------------------------------------------
(* All the parts: the one a part hangs under is, if it is there, before    *)
(* it, and a section that no node stands for has only one.                 *)
FirstPart(parts, s, i) ==
    /\ parts[i].of[1] = s.id /\ parts[i].parent = <<s.parent, s.parent>>
    /\ \A j \in 1 .. i - 1 : parts[j].of[1] # s.id

PartsMade(kept, parts) ==
    /\ parts \in Seq(PartSet)
    /\ \A i, j \in 1 .. Len(parts) : parts[j].of = parts[i].parent =>
          \E l \in 1 .. i - 1 : parts[l].of = parts[i].parent
    /\ \A i, j \in 1 .. Len(parts) :
          nodes[parts[i].of[1]] = NoNode /\ parts[i].of[1] = parts[j].of[1] => i = j
    /\ \A i \in 1 .. Len(parts) : parts[i].of[1] \in Ids /\ parts[i].of[1] \in IdsInUse
    /\ \A i \in 1 .. Len(parts) : \E s \in ToSet(kept) : parts[i].of[1] = s.id
    /\ \A s \in ToSet(kept) : \E i \in 1 .. Len(parts) : FirstPart(parts, s, i)

(* Parts gives that.                                                       *)
LEMMA PartsFacts ==
    ASSUME HeapInv, NEW kept, KeptFrom(kept), NEW parts, parts = Parts(kept)
    PROVE  PartsMade(kept, parts)
<1>1. /\ kept \in Seq(Sections) /\ Len(kept) \in Nat /\ DOMAIN kept = 1 .. Len(kept)
      /\ \A i \in 1 .. Len(kept) : kept[i] \in Sections
      /\ \A i, j \in 1 .. Len(kept) : kept[i].id = kept[j].id => i = j
      /\ \A i, j \in 1 .. Len(kept) : kept[i].parent = kept[j].id => j < i
      /\ \A i \in 1 .. Len(kept) : kept[i].id \in IdsInUse
  BY DEF KeptFrom
<1>2. PICK ss : ss = [i \in DOMAIN kept |-> PartsOf(kept[i])]
  OBVIOUS
<1>3. \A i \in 1 .. Len(kept) : PartsFrom(kept[i], ss[i])
  BY <1>1, <1>2, PartsOfSection
<1>4. ss \in Seq(Seq(PartSet)) /\ Len(ss) = Len(kept)
  <2>1. \A i \in 1 .. Len(kept) : ss[i] \in Seq(PartSet)
    BY <1>3 DEF PartsFrom
  <2>2. ss = [i \in 1 .. Len(kept) |-> ss[i]]
    BY <1>1, <1>2
  <2> HIDE DEF PartSet
  <2> QED BY <1>1, <2>1, <2>2
<1>5. Flattened(PartSet, ss, Len(kept), parts)
  BY <1>2, <1>4, FlattenFacts DEF Parts
<1>6. PICK sec, off : Places(ss, Len(kept), parts, sec, off)
  BY <1>5 DEF Flattened
<1>7. parts \in Seq(PartSet) /\ Len(parts) \in Nat
  BY <1>5 DEF Flattened
<1>8. /\ \A i \in 1 .. Len(parts) : /\ sec[i] \in 1 .. Len(kept) /\ off[i] \in 1 .. Len(ss[sec[i]])
                                    /\ parts[i] = ss[sec[i]][off[i]]
      /\ \A i, j \in 1 .. Len(parts) :
            i < j => sec[i] < sec[j] \/ (sec[i] = sec[j] /\ off[i] < off[j])
      /\ \A k \in 1 .. Len(kept) : \A l \in 1 .. Len(ss[k]) :
            \E i \in 1 .. Len(parts) : sec[i] = k /\ off[i] = l
  BY <1>6 DEF Places
<1>9. \A k \in 1 .. Len(kept) :
         /\ Len(ss[k]) \in Nat /\ Len(ss[k]) >= 1
         /\ ss[k][1].parent = <<kept[k].parent, kept[k].parent>>
         /\ \A i \in 1 .. Len(ss[k]) : ss[k][i].of[1] = kept[k].id
         /\ nodes[kept[k].id] = NoNode => Len(ss[k]) = 1
         /\ \A i \in 2 .. Len(ss[k]) : \E j \in 1 .. i - 1 : ss[k][j].of = ss[k][i].parent
  <2>1. TAKE k \in 1 .. Len(kept)
  <2>2. PartsFrom(kept[k], ss[k])
    BY <1>3
  <2> HIDE DEF PartSet
  <2>3. ss[k] \in Seq(PartSet) /\ Len(ss[k]) >= 1 /\ ss[k][1].parent = <<kept[k].parent, kept[k].parent>>
    BY <2>2 DEF PartsFrom
  <2>4. /\ \A i \in 1 .. Len(ss[k]) : ss[k][i].of[1] = kept[k].id
        /\ nodes[kept[k].id] = NoNode => Len(ss[k]) = 1
        /\ \A i \in 2 .. Len(ss[k]) : \E j \in 1 .. i - 1 : ss[k][j].of = ss[k][i].parent
    BY <2>2 DEF PartsFrom
  <2> QED BY <2>3, <2>4
<1> HIDE DEF PartSet
<1>10. \A i \in 1 .. Len(parts) : parts[i].of[1] = kept[sec[i]].id
  <2>1. TAKE i \in 1 .. Len(parts)
  <2>2. sec[i] \in 1 .. Len(kept) /\ off[i] \in 1 .. Len(ss[sec[i]]) /\ parts[i] = ss[sec[i]][off[i]]
    BY <1>8
  <2> QED BY <1>9, <2>2
<1>11. ASSUME NEW i \in 1 .. Len(parts), NEW j \in 1 .. Len(parts), sec[i] < sec[j] PROVE i < j
  <2>1. i # j
    BY <1>8, <1>11
  <2>2. ~(j < i)
    <3>1. SUFFICES ASSUME j < i PROVE FALSE
      OBVIOUS
    <3>2. sec[j] < sec[i] \/ sec[j] = sec[i]
      BY <1>8, <3>1
    <3>3. sec[i] \in Nat /\ sec[j] \in Nat
      BY <1>1, <1>8
    <3> QED BY <1>11, <3>2, <3>3
  <2> QED BY <1>7, <2>1, <2>2
<1>12. ASSUME NEW i \in 1 .. Len(parts), NEW j \in 1 .. Len(parts), sec[i] = sec[j], off[i] < off[j]
       PROVE i < j
  <2>1. off[i] \in Nat /\ off[j] \in Nat /\ sec[i] \in Nat
    BY <1>1, <1>8, <1>9
  <2>2. i # j
    BY <1>12, <2>1
  <2>3. ~(j < i)
    <3>1. SUFFICES ASSUME j < i PROVE FALSE
      OBVIOUS
    <3>2. sec[j] < sec[i] \/ off[j] < off[i]
      BY <1>8, <3>1
    <3> QED BY <1>12, <2>1, <3>2
  <2> QED BY <1>7, <2>2, <2>3
<1>13. ASSUME NEW i \in 1 .. Len(parts), NEW j \in 1 .. Len(parts), parts[j].of = parts[i].parent
       PROVE  \E l \in 1 .. i - 1 : parts[l].of = parts[i].parent
  <2>1. /\ sec[i] \in 1 .. Len(kept) /\ off[i] \in 1 .. Len(ss[sec[i]]) /\ parts[i] = ss[sec[i]][off[i]]
        /\ sec[j] \in 1 .. Len(kept)
    BY <1>8
  <2>2. CASE off[i] = 1
    <3>1. parts[i].parent = <<kept[sec[i]].parent, kept[sec[i]].parent>>
      BY <1>9, <2>1, <2>2
    <3>2. kept[sec[j]].id = kept[sec[i]].parent
      <4>1. parts[j].of[1] = parts[i].parent[1]
        BY <1>13
      <4>2. parts[i].parent[1] = kept[sec[i]].parent
        BY <3>1
      <4> QED BY <1>10, <4>1, <4>2
    <3>3. sec[j] < sec[i]
      BY <1>1, <2>1, <3>2
    <3>4. j < i
      BY <1>11, <3>3
    <3>5. j \in 1 .. i - 1
      BY <1>7, <3>4
    <3> QED BY <1>13, <3>5
  <2>3. CASE off[i] # 1
    <3>1. off[i] \in 2 .. Len(ss[sec[i]])
      BY <1>9, <2>1, <2>3
    <3>2. PICK o \in 1 .. off[i] - 1 : ss[sec[i]][o].of = ss[sec[i]][off[i]].parent
      BY <1>9, <2>1, <3>1
    <3>3. o \in 1 .. Len(ss[sec[i]]) /\ o < off[i]
      BY <3>1
    <3>4. PICK l \in 1 .. Len(parts) : sec[l] = sec[i] /\ off[l] = o
      <4>1. PICK k : k = sec[i]
        OBVIOUS
      <4>2. k \in 1 .. Len(kept) /\ o \in 1 .. Len(ss[k])
        BY <2>1, <3>3, <4>1
      <4>3. \A c \in 1 .. Len(kept) : \A l \in 1 .. Len(ss[c]) :
               \E m \in 1 .. Len(parts) : sec[m] = c /\ off[m] = l
        BY <1>8
      <4>4. \E m \in 1 .. Len(parts) : sec[m] = k /\ off[m] = o
        BY <4>2, <4>3
      <4> QED BY <4>1, <4>4
    <3>5. l < i
      BY <1>12, <3>3, <3>4
    <3>6. parts[l] = ss[sec[i]][o]
      BY <1>8, <3>4
    <3>7. l \in 1 .. i - 1
      BY <1>7, <3>5
    <3> QED BY <2>1, <3>2, <3>6, <3>7
  <2> QED BY <2>2, <2>3
<1>14. ASSUME NEW i \in 1 .. Len(parts), NEW j \in 1 .. Len(parts),
              nodes[parts[i].of[1]] = NoNode, parts[i].of[1] = parts[j].of[1]
       PROVE  i = j
  <2>1. sec[i] \in 1 .. Len(kept) /\ sec[j] \in 1 .. Len(kept)
    BY <1>8
  <2>2. kept[sec[i]].id = kept[sec[j]].id /\ nodes[kept[sec[i]].id] = NoNode
    BY <1>10, <1>14
  <2>3. sec[i] = sec[j]
    BY <1>1, <2>1, <2>2
  <2>4. Len(ss[sec[i]]) = 1
    BY <1>9, <2>1, <2>2
  <2>5. off[i] = 1 /\ off[j] = 1
    <3>1. off[i] \in 1 .. Len(ss[sec[i]]) /\ off[j] \in 1 .. Len(ss[sec[j]])
      BY <1>8
    <3> QED BY <2>3, <2>4, <3>1
  <2>6. ~(i < j) /\ ~(j < i)
    <3>1. sec[i] \in Nat /\ ~(sec[i] < sec[i]) /\ ~(1 < 1)
      BY <1>1, <2>1
    <3>2. ~(sec[i] < sec[j]) /\ ~(sec[j] < sec[i]) /\ ~(off[i] < off[j]) /\ ~(off[j] < off[i])
      BY <2>3, <2>5, <3>1
    <3> QED BY <1>8, <3>2
  <2> QED BY <1>7, <2>6
<1>15. \A i \in 1 .. Len(parts) : parts[i].of[1] \in Ids /\ parts[i].of[1] \in IdsInUse
  <2>1. TAKE i \in 1 .. Len(parts)
  <2>2. sec[i] \in 1 .. Len(kept) /\ parts[i].of[1] = kept[sec[i]].id
    BY <1>8, <1>10
  <2>3. kept[sec[i]].id \in Ids
    BY <1>1, <2>2 DEF Sections
  <2> QED BY <1>1, <2>2, <2>3
<1>16. \A s \in ToSet(kept) : \E i \in 1 .. Len(parts) : FirstPart(parts, s, i)
  <2>1. TAKE s \in ToSet(kept)
  <2>2. PICK k \in 1 .. Len(kept) : kept[k] = s
    BY <1>1, SeqFacts
  <2>3. 1 \in 1 .. Len(ss[k]) /\ ss[k][1].parent = <<s.parent, s.parent>>
    BY <1>9, <2>2
  <2>4. PICK i \in 1 .. Len(parts) : sec[i] = k /\ off[i] = 1
    BY <1>8, <2>3
  <2>5. parts[i] = ss[k][1]
    BY <1>8, <2>4
  <2>6. ASSUME NEW j \in 1 .. i - 1 PROVE parts[j].of[1] # s.id
    <3>1. SUFFICES ASSUME parts[j].of[1] = s.id PROVE FALSE
      OBVIOUS
    <3>2. j \in 1 .. Len(parts) /\ j < i
      BY <1>7, <2>6
    <3>3. sec[j] \in 1 .. Len(kept) /\ kept[sec[j]].id = kept[k].id /\ off[j] \in 1 .. Len(ss[sec[j]])
      BY <1>8, <1>10, <2>2, <3>1, <3>2
    <3>4. sec[j] = k
      BY <1>1, <3>3
    <3>5. sec[j] \in Nat /\ ~(sec[j] < sec[j])
      BY <1>1, <3>3
    <3>6. off[j] < 1
      BY <1>8, <2>4, <3>2, <3>4, <3>5
    <3>7. off[j] >= 1
      BY <3>3
    <3> QED BY <1>9, <3>3, <3>6, <3>7
  <2>7. parts[i].of[1] = s.id
    BY <1>10, <2>2, <2>4
  <2> QED BY <2>3, <2>5, <2>6, <2>7 DEF FirstPart
<1>17. \A i \in 1 .. Len(parts) : \E s \in ToSet(kept) : parts[i].of[1] = s.id
  <2>1. TAKE i \in 1 .. Len(parts)
  <2>2. sec[i] \in 1 .. Len(kept) /\ parts[i].of[1] = kept[sec[i]].id
    BY <1>8, <1>10
  <2>3. kept[sec[i]] \in ToSet(kept)
    BY <1>1, <2>2, SeqFacts
  <2> QED BY <2>2, <2>3
<1> QED
  BY <1>7, <1>13, <1>14, <1>15, <1>16, <1>17 DEF PartsMade

---------------------------------------------------------------------------
(* The children of a part: those that hang under it, in order.             *)
KidsOf(to, k, up, i, s) ==
    /\ s \in Seq(Nodes) /\ DOMAIN s = 1 .. Len(s)
    /\ \A j \in 1 .. Len(s) : \E l \in 1 .. k : s[j] = to[l] /\ up[l] = i
    /\ \A l \in 1 .. k : up[l] = i => to[l] \in ToSet(s)
    /\ \A j \in 1 .. Len(s) : Place(s, s[j]) = j

(* Part picks them.                                                        *)
LEMMA KidsFacts ==
    ASSUME NEW k \in Nat, NEW D, D \subseteq Nodes, NEW to, Rising(to, k, D), NEW up, NEW i,
           NEW s, s = Part(to, {j \in 1 .. k : up[j] = i})
    PROVE  KidsOf(to, k, up, i, s)
<1> DEFINE S == {j \in 1 .. k : up[j] = i}
<1>1. D \subseteq Nat
  BY NodesAreNumbers
<1>2. /\ to \in Seq(D) /\ Len(to) = k
      /\ \A x, y \in 1 .. Len(to) : to[x] = to[y] => x = y
  BY <1>1, RisingFacts
<1>3. to \in Seq(Nodes)
  BY <1>2
<1>4. S \subseteq 1 .. Len(to)
  BY <1>2
<1>5. PartOf(Nodes, to, S, s)
  <2> HIDE DEF S
  <2>1. s = Part(to, S)
    BY DEF S
  <2> QED BY <1>3, <1>4, <2>1, PartFacts
<1> HIDE DEF S
<1>6. PICK l : /\ s \in Seq(Nodes) /\ Len(s) = Cardinality(S) /\ DOMAIN s = 1 .. Len(s)
               /\ l \in [1 .. Len(s) -> S]
               /\ \A j \in 1 .. Len(s) : s[j] = to[l[j]]
               /\ \A x, y \in 1 .. Len(s) : x < y => l[x] < l[y]
               /\ \A x \in S : \E j \in 1 .. Len(s) : l[j] = x
  BY <1>5 DEF PartOf
<1>7. \A j \in 1 .. Len(s) : l[j] \in 1 .. k /\ up[l[j]] = i
  <2>1. TAKE j \in 1 .. Len(s)
  <2>2. l[j] \in S
    BY <1>6
  <2> QED BY <2>2 DEF S
<1>8. \A j \in 1 .. Len(s) : \E m \in 1 .. k : s[j] = to[m] /\ up[m] = i
  BY <1>6, <1>7
<1>9. \A m \in 1 .. k : up[m] = i => to[m] \in ToSet(s)
  <2>1. TAKE m \in 1 .. k
  <2>2. HAVE up[m] = i
  <2>3. m \in S
    BY <2>2 DEF S
  <2>4. PICK j \in 1 .. Len(s) : l[j] = m
    BY <1>6, <2>3
  <2>5. s[j] = to[m] /\ j \in DOMAIN s
    BY <1>6, <2>4
  <2> QED BY <2>5 DEF ToSet
<1>10. ASSUME NEW x \in 1 .. Len(s), NEW y \in 1 .. Len(s), s[x] = s[y] PROVE x = y
  <2>1. to[l[x]] = to[l[y]] /\ l[x] \in 1 .. k /\ l[y] \in 1 .. k
    BY <1>6, <1>7, <1>10
  <2>2. l[x] = l[y]
    BY <1>2, <2>1
  <2>3. ~(x < y) /\ ~(y < x)
    BY <1>6, <2>1, <2>2
  <2>4. Len(s) \in Nat
    BY <1>6
  <2> QED BY <2>3, <2>4
<1>11. \A j \in 1 .. Len(s) : Place(s, s[j]) = j
  BY <1>6, <1>10, PlaceOf
<1> QED
  BY <1>6, <1>8, <1>9, <1>11 DEF KidsOf

(* Under which part each hangs, and the ids there are for them.            *)
UpOf(parts, up) ==
    /\ DOMAIN up = 1 .. Len(parts) /\ Ups(Len(parts), up)

IdsFor(parts, ofId) ==
    /\ ofId \in Seq(Ids) /\ Len(ofId) = Len(parts)
    /\ \A i, j \in 1 .. Len(parts) : ofId[i] = ofId[j] => i = j
    /\ \A i \in 1 .. Len(parts) : nodes[ofId[i]] = NoNode

(* A part hangs under one before it.                                       *)
LEMMA UpFacts ==
    ASSUME NEW kept, NEW parts, PartsMade(kept, parts),
           NEW up, up = [i \in DOMAIN parts |->
                            SelectInSeq(parts, LAMBDA x : x.of = parts[i].parent)]
    PROVE  UpOf(parts, up)
<1>1. /\ parts \in Seq(PartSet) /\ Len(parts) \in Nat /\ DOMAIN parts = 1 .. Len(parts)
      /\ \A i, j \in 1 .. Len(parts) : parts[j].of = parts[i].parent =>
            \E l \in 1 .. i - 1 : parts[l].of = parts[i].parent
  <2> HIDE DEF PartSet
  <2> QED BY DEF PartsMade
<1>2. ASSUME NEW i \in 1 .. Len(parts) PROVE up[i] \in 0 .. i - 1
  <2> DEFINE I == {j \in 1 .. Len(parts) : parts[j].of = parts[i].parent}
  <2>1. PICK u : u = up[i]
    OBVIOUS
  <2>2. u = IF I # {} THEN Min(I) ELSE 0
    BY <1>1, <2>1 DEF SelectInSeq
  <2>3. I \subseteq 1 .. Len(parts)
    OBVIOUS
  <2>4. IF I = {} THEN u = 0 ELSE u \in I /\ \A y \in I : u <= y
    <3> HIDE DEF I
    <3> QED BY <1>1, <2>2, <2>3, LeastPlace
  <2>5. CASE I = {}
    BY <2>1, <2>4, <2>5
  <2>6. CASE I # {}
    <3>1. u \in 1 .. Len(parts) /\ parts[u].of = parts[i].parent
      BY <2>4, <2>6
    <3>2. PICK l \in 1 .. i - 1 : parts[l].of = parts[i].parent
      BY <1>1, <3>1
    <3>3. l \in I
      BY <1>1, <3>2
    <3>4. u <= l
      BY <2>4, <2>6, <3>3
    <3> QED BY <2>1, <3>1, <3>2, <3>4
  <2> QED BY <2>5, <2>6
<1>3. DOMAIN up = 1 .. Len(parts)
  BY <1>1
<1> QED
  BY <1>2, <1>3 DEF UpOf, Ups

(* The ids the parts get, of the file or fresh, are free and all           *)
(* different.                                                              *)
LEMMA IdsFacts ==
    ASSUME HeapInv, NEW kept, NEW parts, PartsMade(kept, parts),
           NEW ids, Unused(ids, Len(parts)),
           NEW ofId, ofId = [i \in DOMAIN parts |->
               IF nodes[parts[i].of[1]] = NoNode THEN parts[i].of[1] ELSE ids[i]]
    PROVE  IdsFor(parts, ofId)
<1>1. /\ parts \in Seq(PartSet) /\ Len(parts) \in Nat /\ DOMAIN parts = 1 .. Len(parts)
      /\ \A i, j \in 1 .. Len(parts) :
          nodes[parts[i].of[1]] = NoNode /\ parts[i].of[1] = parts[j].of[1] => i = j
      /\ \A i \in 1 .. Len(parts) : parts[i].of[1] \in Ids /\ parts[i].of[1] \in IdsInUse
  <2> HIDE DEF PartSet
  <2> QED BY DEF PartsMade
<1>2. /\ \A i \in 1 .. Len(parts) : ids[i] \in Ids \ IdsInUse
      /\ \A i, j \in 1 .. Len(parts) : ids[i] = ids[j] => i = j
  <2>1. Rising(ids, Len(parts), Ids) /\ \A i \in 1 .. Len(parts) : ids[i] \in Ids \ IdsInUse
    BY DEF Unused
  <2>2. Ids \subseteq Nat
    BY NodesAreNumbers
  <2>3. Len(ids) = Len(parts) /\ \A i, j \in 1 .. Len(ids) : ids[i] = ids[j] => i = j
    BY <1>1, <2>1, <2>2, RisingFacts
  <2> QED BY <2>1, <2>3
<1>3. \A i \in 1 .. Len(parts) : nodes[ids[i]] = NoNode
  BY <1>2, UnusedIsFree
<1>4. \A i \in 1 .. Len(parts) :
         ofId[i] = IF nodes[parts[i].of[1]] = NoNode THEN parts[i].of[1] ELSE ids[i]
  BY <1>1
<1>5. \A i \in 1 .. Len(parts) : nodes[ofId[i]] = NoNode /\ ofId[i] \in Ids
  BY <1>1, <1>2, <1>3, <1>4
<1>6. ASSUME NEW i \in 1 .. Len(parts), NEW j \in 1 .. Len(parts), ofId[i] = ofId[j] PROVE i = j
  <2>1. CASE nodes[parts[i].of[1]] = NoNode /\ nodes[parts[j].of[1]] = NoNode
    BY <1>1, <1>4, <1>6, <2>1
  <2>2. CASE nodes[parts[i].of[1]] # NoNode /\ nodes[parts[j].of[1]] # NoNode
    BY <1>2, <1>4, <1>6, <2>2
  <2>3. CASE nodes[parts[i].of[1]] = NoNode /\ nodes[parts[j].of[1]] # NoNode
    BY <1>1, <1>2, <1>4, <1>6, <2>3
  <2>4. CASE nodes[parts[i].of[1]] # NoNode /\ nodes[parts[j].of[1]] = NoNode
    BY <1>1, <1>2, <1>4, <1>6, <2>4
  <2> QED BY <2>1, <2>2, <2>3, <2>4
<1>7. ofId \in Seq(Ids) /\ Len(ofId) = Len(parts)
  <2>1. ofId = [i \in 1 .. Len(parts) |-> ofId[i]]
    BY <1>1
  <2> QED BY <1>1, <1>5, <2>1
<1> QED
  BY <1>5, <1>6, <1>7 DEF IdsFor

---------------------------------------------------------------------------
(* Under which part each hangs: the first that is its parent, if any.      *)
Under(parts, up) ==
    up = [i \in DOMAIN parts |-> SelectInSeq(parts, LAMBDA x : x.of = parts[i].parent)]

(* What is read is a tree planted.                                         *)
LEMMA BuiltIsPlanted ==
    ASSUME HeapInv, NEW kept, NEW parts, PartsMade(kept, parts),
           NEW to, Rising(to, Len(parts), Nodes \ Live),
           NEW ids, Unused(ids, Len(parts)), NEW r, r = Built(parts, to, ids),
           NEW up, Under(parts, up)
    PROVE  Planted(Heap, Live, r, to, Len(parts), up)
<1>1. /\ parts \in Seq(PartSet) /\ Len(parts) \in Nat /\ DOMAIN parts = 1 .. Len(parts)
  <2> HIDE DEF PartSet
  <2> QED BY DEF PartsMade
<1>3. PICK ofId : ofId = [i \in DOMAIN parts |->
               IF nodes[parts[i].of[1]] = NoNode THEN parts[i].of[1] ELSE ids[i]]
  OBVIOUS
<1>4. PICK kids : kids = [i \in DOMAIN parts |-> Part(to, {j \in DOMAIN parts : up[j] = i})]
  OBVIOUS
<1>5. PICK k : k = Len(parts)
  OBVIOUS
<1>6. UpOf(parts, up) /\ IdsFor(parts, ofId)
  <2>1. UpOf(parts, up)
    BY UpFacts DEF Under
  <2>2. IdsFor(parts, ofId)
    BY <1>3, IdsFacts
  <2> QED BY <2>1, <2>2
<1>7. Ups(k, up) /\ \A i \in 1 .. k : up[i] \in 0 .. i - 1 /\ up[i] \in 0 .. k
  <2>1. \A i \in 1 .. k : up[i] \in 0 .. i - 1
    BY <1>5, <1>6 DEF UpOf, Ups
  <2> QED BY <1>1, <1>5, <2>1 DEF Ups
<1>8. /\ ofId \in Seq(Ids) /\ Len(ofId) = k
      /\ \A i, j \in 1 .. k : ofId[i] = ofId[j] => i = j
      /\ \A i \in 1 .. k : nodes[ofId[i]] = NoNode /\ ofId[i] \in Ids
  <2>1. /\ ofId \in Seq(Ids) /\ Len(ofId) = k
        /\ \A i, j \in 1 .. k : ofId[i] = ofId[j] => i = j
        /\ \A i \in 1 .. k : nodes[ofId[i]] = NoNode
    BY <1>5, <1>6 DEF IdsFor
  <2>2. \A i \in 1 .. k : ofId[i] \in Ids
    BY <2>1, SeqFacts
  <2> QED BY <2>1, <2>2
<1>9. \A i \in 1 .. k : KidsOf(to, k, up, i, kids[i])
  <2>1. TAKE i \in 1 .. k
  <2>2. kids[i] = Part(to, {j \in 1 .. k : up[j] = i})
    BY <1>1, <1>4, <1>5
  <2>3. k \in Nat /\ Rising(to, k, Nodes \ Live) /\ Nodes \ Live \subseteq Nodes
    BY <1>1, <1>5
  <2> QED BY <2>2, <2>3, KidsFacts
<1>10. Well(Heap, Live) /\ Heap \in Heaps /\ Live \subseteq Nodes
  BY DEF HeapInv, Well
<1>11. /\ to \in Seq(Nodes) /\ Len(to) = k /\ ToSet(to) \subseteq Nodes \ Live
       /\ \A i \in 1 .. k : to[i] \in Nodes /\ to[i] \in ToSet(to)
       /\ \A x, y \in 1 .. k : to[x] = to[y] => x = y
  <2>1. Nodes \ Live \subseteq Nat /\ Rising(to, k, Nodes \ Live) /\ k \in Nat
    BY <1>1, <1>5, NodesAreNumbers
  <2>2. /\ to \in Seq(Nodes \ Live) /\ Len(to) = k /\ ToSet(to) \subseteq Nodes \ Live
        /\ \A x, y \in 1 .. Len(to) : to[x] = to[y] => x = y
    BY <2>1, RisingFacts
  <2>3. to \in Seq(Nodes)
    BY <2>2
  <2>4. \A i \in 1 .. k : to[i] \in Nodes /\ to[i] \in ToSet(to)
    BY <2>2, <2>3, SeqFacts
  <2> QED BY <2>2, <2>3, <2>4
<1> DEFINE at == [n \in Nodes |-> Place(to, n)]
<1>12. \A n \in Nodes : IF n \in ToSet(to) THEN at[n] \in 1 .. k /\ to[at[n]] = n ELSE at[n] = 0
  <2>1. TAKE n \in Nodes
  <2>2. PICK a : a = Place(to, n)
    OBVIOUS
  <2>3. \/ a \in 1 .. Len(to) /\ to[a] = n /\ \A i \in 1 .. a - 1 : to[i] # n
        \/ a = 0 /\ n \notin ToSet(to)
    BY <1>11, <2>2, FoundAt
  <2>4. a = at[n]
    BY <2>2
  <2> HIDE DEF at
  <2> QED BY <1>11, <2>3, <2>4
<1>13. \A i \in 1 .. k : at[to[i]] = i
  <2> HIDE DEF at
  <2> QED BY <1>11, <1>12
<1> DEFINE
     name1 == [n \in Nodes |-> IF at[n] > 0 THEN parts[at[n]].name ELSE name[n]]
     children1 == [n \in Nodes |-> IF at[n] > 0 THEN kids[at[n]] ELSE children[n]]
     parent1 == [n \in Nodes |->
             IF at[n] = 0 THEN parent[n] ELSE IF up[at[n]] = 0 THEN NoNode ELSE to[up[at[n]]]]
     index1 == [n \in Nodes |->
             IF at[n] = 0 THEN index[n]
             ELSE IF up[at[n]] = 0 THEN 0
             ELSE Place(kids[up[at[n]]], n) - 1]
     id1 == [n \in Nodes |-> IF at[n] > 0 THEN ofId[at[n]] ELSE id[n]]
     nodes1 == [i \in Ids |->
             IF i \in ToSet(ofId) THEN to[Place(ofId, i)] ELSE nodes[i]]
<1>14. r = [name |-> name1, children |-> children1, parent |-> parent1, index |-> index1,
            id |-> id1, nodes |-> nodes1]
  BY <1>3, <1>4 DEF Built, Place, Under
<1> HIDE DEF at, name1, children1, parent1, index1, id1, nodes1
<1>15. /\ r.name = name1 /\ r.children = children1 /\ r.parent = parent1
       /\ r.index = index1 /\ r.id = id1 /\ r.nodes = nodes1
  BY <1>14
<1>16. /\ name \in [Nodes -> Nodes \cup {NoNode}] /\ children \in [Nodes -> Seq(Nodes)]
       /\ parent \in [Nodes -> Nodes \cup {NoNode}] /\ index \in [Nodes -> Int]
       /\ id \in [Nodes -> Ids \cup {NoId}] /\ nodes \in [Ids -> Nodes \cup {NoNode}]
  <2>1. PICK h : h = Heap
    OBVIOUS
  <2>2. /\ h.name \in [Nodes -> Nodes \cup {NoNode}] /\ h.children \in [Nodes -> Seq(Nodes)]
        /\ h.parent \in [Nodes -> Nodes \cup {NoNode}] /\ h.index \in [Nodes -> Int]
        /\ h.id \in [Nodes -> Ids \cup {NoId}] /\ h.nodes \in [Ids -> Nodes \cup {NoNode}]
    BY <1>10, <2>1, HeapFields
  <2>3. /\ h.name = name /\ h.children = children /\ h.parent = parent /\ h.index = index
        /\ h.id = id /\ h.nodes = nodes
    BY <2>1 DEF Heap
  <2> QED BY <2>2, <2>3
<1>17. \A n \in Nodes : at[n] = 0 \/ (at[n] > 0 /\ at[n] # 0 /\ at[n] \in 1 .. k)
  BY <1>1, <1>5, <1>12
<1>18. \A i \in 1 .. k : parts[i].name \in Nodes
  <2>1. \A i \in 1 .. k : parts[i] \in PartSet
    <3> HIDE DEF PartSet
    <3> QED BY <1>1, <1>5, SeqFacts
  <2> QED BY <2>1 DEF PartSet
<1>19. name1 \in [Nodes -> Nodes \cup {NoNode}]
  BY <1>16, <1>17, <1>18 DEF name1
<1>20. children1 \in [Nodes -> Seq(Nodes)]
  <2>1. \A i \in 1 .. k : kids[i] \in Seq(Nodes)
    BY <1>9 DEF KidsOf
  <2>2. \A n \in Nodes : children[n] \in Seq(Nodes)
    BY <1>16
  <2> QED BY <1>17, <2>1, <2>2 DEF children1
<1>21. parent1 \in [Nodes -> Nodes \cup {NoNode}]
  <2>1. \A i \in 1 .. k : up[i] # 0 => to[up[i]] \in Nodes
    BY <1>1, <1>5, <1>7, <1>11
  <2> QED BY <1>16, <1>17, <2>1 DEF parent1
<1>22. index1 \in [Nodes -> Int]
  <2>1. SUFFICES ASSUME NEW n \in Nodes PROVE index1[n] \in Int
    BY DEF index1
  <2>2. CASE at[n] = 0
    BY <1>16, <2>2 DEF index1
  <2>3. CASE at[n] # 0 /\ up[at[n]] = 0
    BY <2>3 DEF index1
  <2>4. CASE at[n] # 0 /\ up[at[n]] # 0
    <3>1. at[n] \in 1 .. k /\ up[at[n]] \in 1 .. k
      <4>1. at[n] \in 1 .. k
        BY <1>17, <2>4
      <4>2. up[at[n]] \in 0 .. k
        BY <1>7, <4>1
      <4> QED BY <1>1, <1>5, <2>4, <4>1, <4>2
    <3>2. PICK s : s = kids[up[at[n]]]
      OBVIOUS
    <3>3. s \in Seq(Nodes)
      BY <1>9, <3>1, <3>2 DEF KidsOf
    <3>4. PICK a : a = Place(s, n)
      OBVIOUS
    <3>5. \/ a \in 1 .. Len(s) /\ s[a] = n /\ \A i \in 1 .. a - 1 : s[i] # n
          \/ a = 0 /\ n \notin ToSet(s)
      BY <3>3, <3>4, FoundAt
    <3>6. a - 1 \in Int
      BY <3>3, <3>5
    <3>7. index1[n] = a - 1
      BY <2>4, <3>2, <3>4 DEF index1
    <3> QED BY <3>6, <3>7
  <2> QED BY <2>2, <2>3, <2>4
<1>23. id1 \in [Nodes -> Ids \cup {NoId}]
  BY <1>8, <1>16, <1>17 DEF id1
<1>24. \A i \in ToSet(ofId) : Place(ofId, i) \in 1 .. k /\ ofId[Place(ofId, i)] = i
  BY <1>8, PlaceOf
<1>25. \A i \in 1 .. k : Place(ofId, ofId[i]) = i
  BY <1>8, PlaceOf
<1>26. nodes1 \in [Ids -> Nodes \cup {NoNode}]
  BY <1>11, <1>16, <1>24 DEF nodes1
<1>27. r \in Heaps
  BY <1>14, <1>19, <1>20, <1>21, <1>22, <1>23, <1>26 DEF Heaps
<1>28. Elsewhere(Heap, r, ToSet(to))
  <2>1. SUFFICES ASSUME NEW m \in Nodes \ ToSet(to)
                 PROVE  /\ r.name[m] = name[m] /\ r.children[m] = children[m]
                        /\ r.parent[m] = parent[m]
                        /\ r.index[m] = index[m] /\ r.id[m] = id[m]
    BY DEF Elsewhere, Heap
  <2>2. at[m] = 0 /\ ~(at[m] > 0) /\ m \in Nodes
    BY <1>12, <2>1
  <2> QED BY <1>15, <2>2 DEF name1, children1, parent1, index1, id1
<1>29. \A i \in 1 .. k : at[to[i]] = i /\ to[i] \in Nodes /\ i > 0 /\ i # 0
  BY <1>1, <1>5, <1>11, <1>13
<1>30. \A i \in 1 .. k :
          /\ r.name[to[i]] = parts[i].name /\ r.children[to[i]] = kids[i]
          /\ r.parent[to[i]] = IF up[i] = 0 THEN NoNode ELSE to[up[i]]
          /\ up[i] # 0 => r.index[to[i]] = Place(kids[up[i]], to[i]) - 1
          /\ r.id[to[i]] = ofId[i]
  <2>1. TAKE i \in 1 .. k
  <2>2. r.name[to[i]] = parts[i].name
    BY <1>15, <1>29 DEF name1
  <2>3. r.children[to[i]] = kids[i]
    BY <1>15, <1>29 DEF children1
  <2>4. r.parent[to[i]] = IF up[i] = 0 THEN NoNode ELSE to[up[i]]
    BY <1>15, <1>29 DEF parent1
  <2>5. up[i] # 0 => r.index[to[i]] = Place(kids[up[i]], to[i]) - 1
    BY <1>15, <1>29 DEF index1
  <2>6. r.id[to[i]] = ofId[i]
    BY <1>15, <1>29 DEF id1
  <2> QED BY <2>2, <2>3, <2>4, <2>5, <2>6
<1>31. Hung(r, to, k, up)
  <2>1. SUFFICES ASSUME NEW i \in 1 .. k
                 PROVE  up[i] # 0 => to[i] \in ToSet(r.children[to[up[i]]])
    BY <1>30 DEF Hung
  <2>2. HAVE up[i] # 0
  <2>3. up[i] \in 1 .. k
    BY <1>1, <1>5, <1>7, <2>2
  <2>4. r.children[to[up[i]]] = kids[up[i]]
    BY <1>30, <2>3
  <2>5. to[i] \in ToSet(kids[up[i]])
    BY <1>9, <2>3 DEF KidsOf
  <2> QED BY <2>4, <2>5
<1>32. Branches(r, to, k, up)
  <2>1. SUFFICES ASSUME NEW i \in 1 .. k, NEW j \in DOMAIN r.children[to[i]]
                 PROVE  \E l \in 1 .. k : /\ r.children[to[i]][j] = to[l] /\ up[l] = i
                                          /\ r.index[to[l]] = j - 1
    BY DEF Branches
  <2>2. r.children[to[i]] = kids[i] /\ KidsOf(to, k, up, i, kids[i]) /\ i # 0
    BY <1>9, <1>29, <1>30
  <2>3. j \in 1 .. Len(kids[i])
    BY <2>1, <2>2 DEF KidsOf
  <2>4. PICK l \in 1 .. k : kids[i][j] = to[l] /\ up[l] = i
    BY <2>2, <2>3 DEF KidsOf
  <2>5. Place(kids[i], kids[i][j]) = j
    BY <2>2, <2>3 DEF KidsOf
  <2>6. r.index[to[l]] = Place(kids[up[l]], to[l]) - 1
    BY <1>30, <2>2, <2>4
  <2> QED BY <2>2, <2>4, <2>5, <2>6
<1>33. Labelled(Heap, r, to, k)
  <2>1. ASSUME NEW i \in 1 .. k
        PROVE  /\ r.name[to[i]] # NoNode /\ r.id[to[i]] \in Ids
               /\ r.nodes[r.id[to[i]]] = to[i] /\ Heap.nodes[r.id[to[i]]] = NoNode
    <3>1. r.name[to[i]] \in Nodes /\ r.id[to[i]] = ofId[i] /\ ofId[i] \in Ids
      BY <1>8, <1>18, <1>30
    <3>2. ofId[i] \in ToSet(ofId)
      BY <1>8, SeqFacts
    <3>3. r.nodes[ofId[i]] = to[i]
      BY <1>15, <1>25, <3>1, <3>2 DEF nodes1
    <3>4. Heap.nodes[ofId[i]] = NoNode
      BY <1>8 DEF Heap
    <3> QED BY <3>1, <3>3, <3>4, NodesAreNumbers
  <2>2. ASSUME NEW j \in Ids
        PROVE  \/ r.nodes[j] = Heap.nodes[j]
               \/ \E i \in 1 .. k : r.nodes[j] = to[i] /\ r.id[to[i]] = j
    <3>1. CASE j \in ToSet(ofId)
      <4>1. r.nodes[j] = to[Place(ofId, j)]
        BY <1>15, <3>1 DEF nodes1
      <4>2. Place(ofId, j) \in 1 .. k /\ ofId[Place(ofId, j)] = j
        BY <1>24, <3>1
      <4>3. r.id[to[Place(ofId, j)]] = j
        BY <1>30, <4>2
      <4> QED BY <4>1, <4>2, <4>3
    <3>2. CASE j \notin ToSet(ofId)
      BY <1>15, <3>2 DEF nodes1, Heap
    <3> QED BY <3>1, <3>2
  <2> QED BY <2>1, <2>2 DEF Labelled
<1>34. Planted(Heap, Live, r, to, k, up)
  <2>1. k \in Nat /\ Rising(to, k, Nodes \ Live)
    BY <1>1, <1>5
  <2> QED BY <1>7, <1>10, <1>27, <1>28, <1>31, <1>32, <1>33, <2>1 DEF Planted
<1> QED
  BY <1>5, <1>34

---------------------------------------------------------------------------
(* The invariant: with that of the heap and of the file, a node without a  *)
(* parent has no index.                                                    *)
Rooted == \A n \in Nodes : parent[n] = NoNode => index[n] = 0

TreeInv == HeapInv /\ Rooted /\ FileInv /\ last.node \in Nodes \cup {NoNode}

(* After a step to a heap that is well, nodes without a parent have no     *)
(* index.                                                                  *)
LEMMA BecomingRooted ==
    ASSUME NEW h, NEW L, Well(h, L), NEW holding, holding \subseteq L, Becomes(h, holding)
    PROVE  HeapInv' /\ Rooted'
<1>1. HeapInv' /\ Heap' = Collected(h, holding)
  BY Becoming
<1>2. PICK c : c = Collected(h, holding)
  OBVIOUS
<1>3. PICK A : A = Below(h, holding)
  OBVIOUS
<1>4. CollectedTo(h, A, c) /\ A \subseteq L
  BY <1>2, <1>3, Collection
<1>5. parent' = c.parent /\ index' = c.index
  BY <1>1, <1>2 DEF Heap
<1>6. NoNode \notin A
  BY <1>4, NodesAreNumbers DEF Well
<1>7. ASSUME NEW n \in Nodes, c.parent[n] = NoNode PROVE c.index[n] = 0
  <2>1. CASE n \in A
    <3>1. /\ c.parent[n] = IF h.parent[n] \in A THEN h.parent[n] ELSE NoNode
          /\ c.index[n] = IF h.parent[n] \in A THEN h.index[n] ELSE 0
      BY <1>4, <2>1 DEF CollectedTo
    <3> QED BY <1>6, <1>7, <3>1
  <2>2. CASE n \notin A
    BY <1>4, <2>2 DEF CollectedTo, Blank
  <2> QED BY <2>1, <2>2
<1> QED
  BY <1>1, <1>5, <1>7 DEF Rooted

(* Who is held is alive.                                                   *)
LEMMA HeldLive ==
    ASSUME HeapInv
    PROVE  held \subseteq Live /\ Live \subseteq Nodes /\ Well(Heap, Live)
<1>1. Live \subseteq Nodes /\ Well(Heap, Live) /\ held \subseteq Nodes /\ Live = Below(Heap, held)
  BY DEF HeapInv, Well
<1>2. Heap.children \in [Nodes -> Seq(Nodes)]
  BY <1>1, HeapFields DEF Well
<1>3. Reach(Heap, held, Below(Heap, held))
  BY <1>1, <1>2, BelowFacts
<1>4. held \subseteq Below(Heap, held)
  BY <1>3 DEF Reach
<1> QED
  BY <1>1, <1>4

(* At first there is no node, and no file.                                 *)
LEMMA InitHeap == Init => HeapInv /\ Rooted /\ FileInv
<1>1. SUFFICES ASSUME Init PROVE HeapInv /\ Rooted /\ FileInv
  OBVIOUS
<1>2. /\ held = {} /\ file = <<>> /\ name = [n \in Nodes |-> NoNode]
      /\ children = [n \in Nodes |-> <<>>] /\ parent = [n \in Nodes |-> NoNode]
      /\ index = [n \in Nodes |-> 0] /\ id = [n \in Nodes |-> NoId]
      /\ nodes = [i \in Ids |-> NoNode]
  BY <1>1 DEF Init
<1>3. Live = {}
  BY <1>2 DEF Live
<1>4. Heap \in Heaps
  <2>1. name \in [Nodes -> Nodes \cup {NoNode}] /\ parent \in [Nodes -> Nodes \cup {NoNode}]
    BY <1>2
  <2>2. children \in [Nodes -> Seq(Nodes)]
    <3>1. <<>> \in Seq(Nodes)
      OBVIOUS
    <3> QED BY <1>2, <3>1
  <2>3. index \in [Nodes -> Int]
    BY <1>2
  <2>4. id \in [Nodes -> Ids \cup {NoId}] /\ nodes \in [Ids -> Nodes \cup {NoNode}]
    BY <1>2
  <2> QED BY <2>1, <2>2, <2>3, <2>4 DEF Heap, Heaps
<1>5. Below(Heap, {}) = {}
  <2>1. Heap.children \in [Nodes -> Seq(Nodes)] /\ {} \subseteq Nodes
    BY <1>4, HeapFields
  <2>2. Reach(Heap, {}, Below(Heap, {}))
    BY <2>1, BelowFacts
  <2> QED BY <2>2 DEF Reach
<1>6. Heap.nodes = nodes
  BY DEF Heap
<1>7. Well(Heap, {})
  <2>1. Closed(Heap, {}) /\ Linked(Heap, {}) /\ Grounded(Heap, {})
    BY DEF Closed, Linked, Grounded
  <2>2. Named(Heap, {})
    BY <1>2, <1>6 DEF Named
  <2> QED BY <1>4, <2>1, <2>2 DEF Well
<1>8. Blank(Heap, {})
  BY <1>2 DEF Blank, Heap
<1>9. HeapInv
  BY <1>2, <1>3, <1>5, <1>7, <1>8 DEF HeapInv
<1>10. Rooted
  BY <1>2 DEF Rooted
<1>11. FileInv
  <2>1. file \in Seq(Sections) /\ Len(file) = 0 /\ DOMAIN file = {}
    BY <1>2
  <2> QED BY <2>1, NodesAreNumbers DEF FileInv
<1> QED
  BY <1>9, <1>10, <1>11

(* Every operation, on its own.                                            *)
LEMMA NewKeeps ==
    ASSUME HeapInv, FileInv, New
    PROVE  HeapInv' /\ Rooted'
<1>1. held \subseteq Live /\ Live \subseteq Nodes /\ Well(Heap, Live) /\ Blank(Heap, Live)
  BY HeldLive DEF HeapInv
<1>2. 1 \in 0 .. Cardinality(Nodes \ Live)
  <2>1. Nodes \ Live # {} /\ Nodes \ Live \subseteq Nodes
    BY <1>1 DEF New
  <2>2. IsFiniteSet(Nodes \ Live) /\ Cardinality(Nodes \ Live) \in Nat
    BY <2>1, NodesFinite
  <2>3. Cardinality(Nodes \ Live) # 0
    BY <2>1, <2>2, FS_EmptySet
  <2> QED BY <2>2, <2>3
<1>3. PICK n : n = FreeNodes(1)[1]
  OBVIOUS
<1>4. PICK i : i = FreshIds(1)[1]
  OBVIOUS
<1>5. n \in Nodes \ Live
  <2>1. Rising(FreeNodes(1), 1, Nodes \ Live)
    BY <1>1, <1>2, FreeFacts
  <2> QED BY <1>3, <2>1 DEF Rising
<1>6. i \in Ids /\ Heap.nodes[i] = NoNode
  <2>1. Unused(FreshIds(1), 1)
    BY <1>1, FreshFacts
  <2>2. i \in Ids \ IdsInUse
    BY <1>4, <2>1 DEF Unused
  <2>3. nodes[i] = NoNode
    BY <2>2, UnusedIsFree
  <2> QED BY <2>2, <2>3 DEF Heap
<1>7. PICK r : r = [Heap EXCEPT !.name[n] = n, !.id[n] = i, !.nodes[i] = n]
  OBVIOUS
<1>8. Well(r, Live \cup {n})
  BY <1>1, <1>5, <1>6, <1>7, NewIsWell
<1>9. Becomes(r, held \cup {n})
  BY <1>3, <1>4, <1>7 DEF New
<1>10. held \cup {n} \subseteq Live \cup {n}
  BY <1>1
<1> QED
  BY <1>8, <1>9, <1>10, BecomingRooted

(* Drop, Hold and Restart only change who is held.                         *)
LEMMA HoldingKeeps ==
    ASSUME HeapInv, NEW holding, holding \subseteq Live, Becomes(Heap, holding)
    PROVE  HeapInv' /\ Rooted'
BY HeldLive, BecomingRooted

(* add_child: the parent must not be below the child.                      *)
LEMMA AddChildKeeps ==
    ASSUME HeapInv, NEW p \in Nodes, NEW c \in Nodes, AddChild(p, c)
    PROVE  HeapInv' /\ Rooted'
<1>1. held \subseteq Live /\ Well(Heap, Live)
  BY HeldLive
<1>2. p \in Live /\ c \in Live /\ p \notin Below(Heap, {c}) /\ Becomes(Added(Heap, p, c), held)
  BY DEF AddChild, IsBelow
<1>3. Well(Added(Heap, p, c), Live)
  BY <1>1, <1>2, AddedIsWell
<1> QED
  BY <1>1, <1>2, <1>3, BecomingRooted

(* add_child_before: the parent of the existing child is not below the new *)
(* one, as that child is not.                                              *)
LEMMA AddChildBeforeKeeps ==
    ASSUME HeapInv, NEW c \in Nodes, NEW existing \in Nodes, AddChildBefore(c, existing)
    PROVE  HeapInv' /\ Rooted'
<1>1. held \subseteq Live /\ Well(Heap, Live)
  BY HeldLive
<1>2. PICK p : p = parent[existing]
  OBVIOUS
<1>3. /\ existing \in Live /\ p # NoNode /\ c \in Live /\ Heap.parent[c] = NoNode
      /\ p = Heap.parent[existing] /\ existing \notin Below(Heap, {c})
      /\ Becomes(AddedBefore(Heap, p, c, existing), held)
  BY <1>2 DEF AddChildBefore, IsBelow, Heap
<1>4. PICK r : r = AddedBefore(Heap, p, c, existing)
  OBVIOUS
<1>5. PutIn(Heap, r, p, c, Heap.index[existing] + 1)
  BY <1>1, <1>3, <1>4, AddedBeforeFields
<1>6. p \in Live /\ existing \in ToSet(Heap.children[p])
  BY <1>1, <1>3 DEF Well, Linked
<1>7. p \notin Below(Heap, {c})
  <2>1. Reach(Heap, {c}, Below(Heap, {c}))
    <3>1. {c} \subseteq Live
      BY <1>3
    <3> QED BY <1>1, <3>1, WellReach
  <2> QED BY <1>3, <1>6, <2>1 DEF Reach
<1>8. Well(r, Live)
  BY <1>1, <1>3, <1>5, <1>6, <1>7, PutInIsWell
<1> QED
  BY <1>1, <1>3, <1>4, <1>8, BecomingRooted

(* remove_child.                                                           *)
LEMMA RemoveChildKeeps ==
    ASSUME HeapInv, NEW c \in Nodes, RemoveChild(c)
    PROVE  HeapInv' /\ Rooted'
<1>1. held \subseteq Live /\ Well(Heap, Live)
  BY HeldLive
<1>2. PICK p : p = Heap.parent[c]
  OBVIOUS
<1>3. c \in Live /\ Heap.parent[c] # NoNode /\ Becomes(Removed(Heap, c), held)
  BY DEF RemoveChild, Heap
<1>4. PICK at : TakenOut(Heap, Removed(Heap, c), p, c, at)
  BY <1>1, <1>2, <1>3, RemovedFields
<1>5. p \in Live
  BY <1>1, <1>2, <1>3 DEF Well, Linked
<1>6. Well(Removed(Heap, c), Live)
  BY <1>1, <1>3, <1>4, <1>5, RemovedIsWell
<1> QED
  BY <1>1, <1>3, <1>6, BecomingRooted

(* A replacement, its heap and its facts.                                  *)
Replacing(p, c, new, r, at) ==
    /\ p = parent[c] /\ p \in Live /\ c \in Live /\ new \in held
    /\ p = Heap.parent[c] /\ Heap.parent[new] = NoNode /\ c \notin Below(Heap, {new})
    /\ ReplacedBy(Heap, r, Live, p, c, new, at) /\ Becomes(r, held)

(* replace_child, of a new child without a parent: the heap it leads to.   *)
LEMMA ReplaceChildFacts ==
    ASSUME Fresh = TRUE, HeapInv, FileInv, NEW c \in Nodes, NEW new \in Nodes,
           NEW take \in BOOLEAN, ReplaceChild(c, new, take)
    PROVE  \E r, at : Replacing(parent[c], c, new, r, at)
<1>1. held \subseteq Live /\ Live \subseteq Nodes /\ Well(Heap, Live)
  BY HeldLive
<1>2. PICK p : p = Heap.parent[c]
  OBVIOUS
<1>3. p = parent[c]
  BY <1>2 DEF Heap
<1>4. PICK fresh : fresh = FreshIds(1)[1]
  OBVIOUS
<1>5. PICK r : r = Replaced(Heap, p, c, new, take, fresh)
  OBVIOUS
<1>6. /\ c \in Live /\ p # NoNode /\ new \in held /\ new \in Live /\ Heap.parent[new] = NoNode
      /\ c \notin Below(Heap, {new}) /\ Becomes(r, held)
  BY <1>1, <1>3, <1>4, <1>5 DEF ReplaceChild, IsBelow, Heap
<1>7. fresh \in Ids /\ Heap.nodes[fresh] = NoNode
  <2>1. Unused(FreshIds(1), 1)
    BY <1>1, FreshFacts
  <2>2. fresh \in Ids \ IdsInUse
    BY <1>4, <2>1 DEF Unused
  <2>3. nodes[fresh] = NoNode
    BY <2>2, UnusedIsFree
  <2> QED BY <2>2, <2>3 DEF Heap
<1>8. PICK at : ReplacedBy(Heap, r, Live, p, c, new, at)
  BY <1>1, <1>2, <1>5, <1>6, <1>7, ReplacedFacts
<1>9. p \in Live
  BY <1>1, <1>2, <1>6 DEF Well, Linked
<1> QED
  BY <1>2, <1>3, <1>6, <1>8, <1>9 DEF Replacing

(* replace_child keeps the invariant.                                      *)
LEMMA ReplaceChildKeeps ==
    ASSUME Fresh = TRUE, HeapInv, FileInv, NEW c \in Nodes, NEW new \in Nodes,
           NEW take \in BOOLEAN, ReplaceChild(c, new, take)
    PROVE  HeapInv' /\ Rooted' /\ last'.node \in Nodes
<1>1. held \subseteq Live /\ Live \subseteq Nodes
  BY HeldLive
<1>2. PICK r, at : Replacing(parent[c], c, new, r, at)
  BY ReplaceChildFacts
<1>3. Well(r, Live) /\ Becomes(r, held) /\ parent[c] \in Live
  BY <1>2 DEF Replacing, ReplacedBy
<1>4. last'.node = parent[c]
  BY DEF ReplaceChild
<1>5. HeapInv' /\ Rooted'
  BY <1>1, <1>3, BecomingRooted
<1> QED
  BY <1>1, <1>3, <1>4, <1>5

(* Trees planted beside the ones there are.                                *)
Planting(r, to, k, up, top) ==
    /\ Planted(Heap, Live, r, to, k, up) /\ top \in ToSet(to) /\ Becomes(r, held \cup {top})

(* Planting keeps the invariant.                                           *)
LEMMA PlantingKeeps ==
    ASSUME HeapInv, NEW r, NEW to, NEW k, NEW up, NEW top, Planting(r, to, k, up, top)
    PROVE  HeapInv' /\ Rooted' /\ top \in Nodes
<1>1. held \subseteq Live /\ Live \subseteq Nodes
  BY HeldLive
<1>2. Well(r, Live \cup ToSet(to)) /\ top \in ToSet(to) /\ Becomes(r, held \cup {top})
  BY PlantedIsWell DEF Planting
<1>3. held \cup {top} \subseteq Live \cup ToSet(to)
  BY <1>1, <1>2
<1>4. HeapInv' /\ Rooted'
  BY <1>2, <1>3, BecomingRooted
<1> QED
  BY <1>2, <1>4 DEF Well

(* Node::clone plants a tree, its root the node that is returned.          *)
LEMMA CloneFacts ==
    ASSUME HeapInv, FileInv, NEW n \in Nodes, Clone(n)
    PROVE  \E r, to, k, up : /\ Planting(r, to, k, up, last'.node) /\ last'.node = to[1]
                             /\ 1 \in 1 .. k /\ up[1] = 0
<1>1. held \subseteq Live /\ Live \subseteq Nodes /\ Well(Heap, Live) /\ n \in Live
  BY HeldLive DEF Clone
<1>2. PICK ns : ns = Preorder(Heap, n)
  OBVIOUS
<1>3. PICK to : to = FreeNodes(Len(ns))
  OBVIOUS
<1>4. PICK ids : ids = FreshIds(Len(ns))
  OBVIOUS
<1>5. PICK r : r = Copied(Heap, ns, to, ids)
  OBVIOUS
<1>6. /\ Cardinality(Nodes \ Live) >= Len(ns) /\ Becomes(r, held \cup {to[1]})
      /\ last'.node = to[1]
  BY <1>2, <1>3, <1>4, <1>5 DEF Clone
<1>7. Subtree(Heap, n, ns)
  BY <1>1, <1>2, PreorderFacts
<1>8. ns \in Seq(Nodes) /\ Len(ns) \in Nat /\ Len(ns) >= 1 /\ ns[1] = n /\ ns # <<>>
  <2>1. ns \in Seq(Nodes) /\ Len(ns) >= 1 /\ ns[1] = n
    BY <1>7 DEF Subtree
  <2>2. Len(<<>>) = 0
    OBVIOUS
  <2> QED BY <2>1, <2>2
<1>9. Len(ns) \in 0 .. Cardinality(Nodes \ Live)
  <2>1. Nodes \ Live \subseteq Nodes
    OBVIOUS
  <2>2. Cardinality(Nodes \ Live) \in Nat
    BY <2>1, NodesFinite
  <2> QED BY <1>6, <1>8, <2>2
<1>10. Rising(to, Len(ns), Nodes \ Live)
  BY <1>1, <1>3, <1>9, FreeFacts
<1>11. Unused(ids, Len(ns))
  <2>1. Len(ns) <= Cardinality(Nodes \ Live)
    BY <1>6, <1>8, <1>9
  <2> QED BY <1>1, <1>4, <1>8, <2>1, FreshFacts
<1>12. Copying(Heap, Live, ns, to, ids)
  <2>1. Rising(ids, Len(ns), Ids) /\ \A i \in 1 .. Len(ns) : ids[i] \in Ids \ IdsInUse
    BY <1>11 DEF Unused
  <2>2. \A i \in 1 .. Len(ns) : Heap.nodes[ids[i]] = NoNode
    <3>1. \A i \in 1 .. Len(ns) : nodes[ids[i]] = NoNode
      BY <2>1, UnusedIsFree
    <3> QED BY <3>1 DEF Heap
  <2> QED BY <1>1, <1>7, <1>8, <1>10, <2>1, <2>2 DEF Copying
<1>13. CopyOf(Heap, r, ns, to, ids)
  BY <1>5, <1>12, CopiedFields
<1>14. PICK up : Planted(Heap, Live, r, to, Len(ns), up)
  BY <1>12, <1>13, CopyIsPlanted
<1>15. 1 \in 1 .. Len(ns) /\ up[1] = 0
  BY <1>8, <1>14 DEF Planted, Ups
<1>16. to[1] \in ToSet(to)
  <2>1. to \in Seq(Nodes \ Live) /\ Len(to) = Len(ns)
    BY <1>10 DEF Rising
  <2> QED BY <1>15, <2>1, SeqFacts
<1>17. Planting(r, to, Len(ns), up, last'.node)
  BY <1>6, <1>14, <1>16 DEF Planting
<1> QED
  BY <1>6, <1>15, <1>17

---------------------------------------------------------------------------
(* The first part of a section.                                            *)
FirstOfSection(parts, s, i) == i = SelectInSeq(parts, LAMBDA x : x.of[1] = s.id)

(* The first part of the root section has no parent among the parts.       *)
LEMMA RootIsTop ==
    ASSUME FileInv, NEW kept, KeptFrom(kept), NEW parts, PartsMade(kept, parts),
           NEW root \in RootsOf(kept), NEW up, Under(parts, up),
           NEW i, FirstOfSection(parts, root, i)
    PROVE  i \in 1 .. Len(parts) /\ up[i] = 0
<1>1. /\ parts \in Seq(PartSet) /\ Len(parts) \in Nat /\ DOMAIN parts = 1 .. Len(parts)
      /\ \A m \in 1 .. Len(parts) : \E s \in ToSet(kept) : parts[m].of[1] = s.id
      /\ \A s \in ToSet(kept) : \E m \in 1 .. Len(parts) : FirstPart(parts, s, m)
  <2> HIDE DEF PartSet
  <2> QED BY DEF PartsMade
<1>2. root \in ToSet(kept) /\ \A t \in ToSet(kept) : ~ ChildOf(root, t)
  BY DEF RootsOf
<1>3. PICK m \in 1 .. Len(parts) : FirstPart(parts, root, m)
  BY <1>1, <1>2
<1>4. i = m
  <2> DEFINE I == {j \in 1 .. Len(parts) : parts[j].of[1] = root.id}
  <2>1. i = IF I # {} THEN Min(I) ELSE 0
    BY <1>1 DEF SelectInSeq, FirstOfSection
  <2>2. I \subseteq 1 .. Len(parts) /\ m \in I
    BY <1>3 DEF FirstPart
  <2>3. IF I = {} THEN i = 0 ELSE i \in I /\ \A y \in I : i <= y
    <3> HIDE DEF I
    <3> QED BY <1>1, <2>1, <2>2, LeastPlace
  <2>4. i \in I /\ i <= m
    BY <2>2, <2>3
  <2>5. i \in 1 .. Len(parts) /\ parts[i].of[1] = root.id
    BY <2>4
  <2>6. ~(i < m)
    <3>1. SUFFICES ASSUME i < m PROVE FALSE
      OBVIOUS
    <3>2. i \in 1 .. m - 1
      BY <1>1, <2>5, <3>1
    <3> QED BY <1>3, <2>5, <3>2 DEF FirstPart
  <2> QED BY <1>1, <2>4, <2>5, <2>6
<1>5. i \in 1 .. Len(parts) /\ parts[i].parent = <<root.parent, root.parent>>
  BY <1>3, <1>4 DEF FirstPart
<1> DEFINE J == {j \in 1 .. Len(parts) : parts[j].of = parts[i].parent}
<1>6. J = {}
  <2>1. SUFFICES ASSUME NEW j \in 1 .. Len(parts), parts[j].of = parts[i].parent PROVE FALSE
    OBVIOUS
  <2>2. parts[j].of[1] = root.parent
    <3>1. parts[j].of[1] = parts[i].parent[1]
      BY <2>1
    <3>2. parts[i].parent[1] = root.parent
      BY <1>5
    <3> QED BY <3>1, <3>2
  <2>3. PICK t \in ToSet(kept) : parts[j].of[1] = t.id
    BY <1>1
  <2>4. t \in Sections
    <3>1. kept \in Seq(Sections)
      BY DEF KeptFrom
    <3> HIDE DEF Sections
    <3> QED BY <2>3, <3>1, SeqFacts
  <2>5. t.id # NoId
    BY <2>4, NodesAreNumbers DEF Sections
  <2>6. ChildOf(root, t)
    BY <2>2, <2>3, <2>5 DEF ChildOf
  <2> QED BY <1>2, <2>6
<1>7. up[i] = IF J # {} THEN Min(J) ELSE 0
  BY <1>1, <1>5 DEF SelectInSeq, Under
<1> HIDE DEF J
<1> QED
  BY <1>5, <1>6, <1>7

(* read_from_file plants a tree, its root the node that is returned.       *)
LEMMA ReadFacts ==
    ASSUME HeapInv, FileInv, Read
    PROVE  \E r, to, k, up, i : /\ Planting(r, to, k, up, last'.node) /\ last'.node = to[i]
                                /\ i \in 1 .. k /\ up[i] = 0
<1>1. held \subseteq Live /\ Live \subseteq Nodes /\ Well(Heap, Live)
  BY HeldLive
<1>2. PICK kept : kept = Kept
  OBVIOUS
<1>3. PICK parts : parts = Parts(kept)
  OBVIOUS
<1>4. PICK to : to = FreeNodes(Len(parts))
  OBVIOUS
<1>5. PICK ids : ids = FreshIds(Len(parts))
  OBVIOUS
<1>6. PICK r : r = Built(parts, to, ids)
  OBVIOUS
<1>7. PICK root : root = CHOOSE s \in RootsOf(kept) : TRUE
  OBVIOUS
<1>8. PICK i : FirstOfSection(parts, root, i)
  BY DEF FirstOfSection
<1>9. /\ Cardinality(RootsOf(kept)) = 1 /\ Cardinality(Nodes \ Live) >= Len(parts)
      /\ Becomes(r, held \cup {to[i]}) /\ last'.node = to[i]
  BY <1>2, <1>3, <1>4, <1>5, <1>6, <1>7, <1>8 DEF Read, FirstOfSection
<1>10. KeptFrom(kept)
  BY <1>2, KeptFacts
<1>11. PartsMade(kept, parts)
  BY <1>3, <1>10, PartsFacts
<1>12. Len(parts) \in Nat
  <2> HIDE DEF PartSet
  <2> QED BY <1>11 DEF PartsMade
<1>13. Len(parts) \in 0 .. Cardinality(Nodes \ Live)
  <2>1. Nodes \ Live \subseteq Nodes
    OBVIOUS
  <2>2. Cardinality(Nodes \ Live) \in Nat
    BY <2>1, NodesFinite
  <2> QED BY <1>9, <1>12, <2>2
<1>14. Rising(to, Len(parts), Nodes \ Live)
  BY <1>1, <1>4, <1>13, FreeFacts
<1>15. Unused(ids, Len(parts))
  <2>1. Len(parts) <= Cardinality(Nodes \ Live)
    BY <1>13
  <2> QED BY <1>1, <1>5, <1>12, <2>1, FreshFacts
<1>16. PICK up : Under(parts, up)
  BY DEF Under
<1>17. Planted(Heap, Live, r, to, Len(parts), up)
  BY <1>6, <1>11, <1>14, <1>15, <1>16, BuiltIsPlanted
<1>18. root \in RootsOf(kept)
  <2>1. RootsOf(kept) # {}
    <3>1. SUFFICES ASSUME RootsOf(kept) = {} PROVE FALSE
      OBVIOUS
    <3>2. Cardinality({}) = 0
      BY FS_EmptySet
    <3> QED BY <1>9, <3>1, <3>2
  <2> QED BY <1>7, <2>1
<1>19. i \in 1 .. Len(parts) /\ up[i] = 0
  BY <1>8, <1>10, <1>11, <1>16, <1>18, RootIsTop
<1>20. to[i] \in ToSet(to)
  <2>1. to \in Seq(Nodes \ Live) /\ Len(to) = Len(parts)
    BY <1>14 DEF Rising
  <2> QED BY <1>19, <2>1, SeqFacts
<1>21. Planting(r, to, Len(parts), up, last'.node)
  BY <1>9, <1>17, <1>20 DEF Planting
<1> QED
  BY <1>9, <1>19, <1>21

---------------------------------------------------------------------------
(* The file, where it is not written.                                      *)
LEMMA FileKept ==
    ASSUME FileInv, UNCHANGED file
    PROVE  FileInv'
BY DEF FileInv

(* The tree, where nothing is done to it.                                  *)
LEMMA TreeStays ==
    ASSUME TreeInv, UNCHANGED <<held, tree>>
    PROVE  HeapInv' /\ Rooted'
<1>1. HeapInv /\ Rooted
  BY DEF TreeInv
<1>2. /\ held' = held /\ name' = name /\ children' = children /\ parent' = parent
      /\ index' = index /\ id' = id /\ nodes' = nodes
  BY DEF tree
<1>3. Heap' = Heap /\ Live' = Live
  BY <1>2 DEF Heap, Live
<1> QED
  BY <1>1, <1>2, <1>3 DEF HeapInv, Rooted

(* Each step keeps the invariant: one case for each operation.             *)
LEMMA TreeStep ==
    ASSUME Fresh = TRUE, TreeInv, [Next]_vars
    PROVE  TreeInv'
<1>1. HeapInv /\ Rooted /\ FileInv /\ last.node \in Nodes \cup {NoNode}
  BY DEF TreeInv
<1>2. held \subseteq Live
  BY <1>1, HeldLive
<1>3. CASE New
  <2>1. HeapInv' /\ Rooted'
    BY <1>1, <1>3, NewKeeps
  <2>2. UNCHANGED file /\ last'.node = NoNode
    BY <1>3 DEF New, Grow, Edit, Nothing
  <2> QED BY <1>1, <2>1, <2>2, FileKept DEF TreeInv
<1>4. ASSUME NEW n \in Nodes, Drop(n) PROVE TreeInv'
  <2>1. Becomes(Heap, held \ {n}) /\ held \ {n} \subseteq Live
    BY <1>2, <1>4 DEF Drop
  <2>2. HeapInv' /\ Rooted'
    BY <1>1, <2>1, HoldingKeeps
  <2>3. UNCHANGED file /\ last'.node = NoNode
    BY <1>4 DEF Drop, Edit, Nothing
  <2> QED BY <1>1, <2>2, <2>3, FileKept DEF TreeInv
<1>5. ASSUME NEW n \in Nodes, Hold(n) PROVE TreeInv'
  <2>1. Becomes(Heap, held \cup {n}) /\ held \cup {n} \subseteq Live
    BY <1>2, <1>5 DEF Hold
  <2>2. HeapInv' /\ Rooted'
    BY <1>1, <2>1, HoldingKeeps
  <2>3. UNCHANGED file /\ last'.node = NoNode
    BY <1>5 DEF Hold, Edit, Nothing
  <2> QED BY <1>1, <2>2, <2>3, FileKept DEF TreeInv
<1>6. ASSUME NEW n \in Nodes, RemoveChild(n) PROVE TreeInv'
  <2>1. HeapInv' /\ Rooted'
    BY <1>1, <1>6, RemoveChildKeeps
  <2>2. UNCHANGED file /\ last'.node = NoNode
    BY <1>6 DEF RemoveChild, Edit, Nothing
  <2> QED BY <1>1, <2>1, <2>2, FileKept DEF TreeInv
<1>7. ASSUME NEW n \in Nodes, Clone(n) PROVE TreeInv'
  <2>1. PICK r, to, k, up : Planting(r, to, k, up, last'.node)
    BY <1>1, <1>7, CloneFacts
  <2>2. HeapInv' /\ Rooted' /\ last'.node \in Nodes
    BY <1>1, <2>1, PlantingKeeps
  <2>3. UNCHANGED file
    BY <1>7 DEF Clone, Edit
  <2> QED BY <1>1, <2>2, <2>3, FileKept DEF TreeInv
<1>8. ASSUME NEW n \in Nodes, Dump(n) PROVE TreeInv'
  <2>1. UNCHANGED <<held, tree>> /\ last'.node = NoNode
    BY <1>8 DEF Dump, Nothing
  <2>2. HeapInv' /\ Rooted'
    BY <2>1, TreeStays
  <2>3. FileInv'
    BY <1>1, <1>8, DumpKeepsFile
  <2> QED BY <2>1, <2>2, <2>3 DEF TreeInv
<1>9. ASSUME NEW n \in Nodes, NEW m \in Nodes, AddChild(n, m) PROVE TreeInv'
  <2>1. HeapInv' /\ Rooted'
    BY <1>1, <1>9, AddChildKeeps
  <2>2. UNCHANGED file /\ last'.node = NoNode
    BY <1>9 DEF AddChild, Grow, Edit, Nothing
  <2> QED BY <1>1, <2>1, <2>2, FileKept DEF TreeInv
<1>10. ASSUME NEW n \in Nodes, NEW m \in Nodes, AddChildBefore(n, m) PROVE TreeInv'
  <2>1. HeapInv' /\ Rooted'
    BY <1>1, <1>10, AddChildBeforeKeeps
  <2>2. UNCHANGED file /\ last'.node = NoNode
    BY <1>10 DEF AddChildBefore, Edit, Nothing
  <2> QED BY <1>1, <2>1, <2>2, FileKept DEF TreeInv
<1>11. ASSUME NEW n \in Nodes, NEW m \in Nodes, NEW take \in BOOLEAN, ReplaceChild(n, m, take)
       PROVE  TreeInv'
  <2>1. HeapInv' /\ Rooted' /\ last'.node \in Nodes
    BY <1>1, <1>11, ReplaceChildKeeps
  <2>2. UNCHANGED file
    BY <1>11 DEF ReplaceChild, Edit
  <2> QED BY <1>1, <2>1, <2>2, FileKept DEF TreeInv
<1>12. CASE Read
  <2>1. PICK r, to, k, up, i : Planting(r, to, k, up, last'.node)
    BY <1>1, <1>12, ReadFacts
  <2>2. HeapInv' /\ Rooted' /\ last'.node \in Nodes
    BY <1>1, <2>1, PlantingKeeps
  <2>3. UNCHANGED file
    BY <1>12 DEF Read
  <2> QED BY <1>1, <2>2, <2>3, FileKept DEF TreeInv
<1>13. CASE ReadFails
  <2>1. UNCHANGED <<held, tree>> /\ UNCHANGED file /\ last'.node = NoNode
    BY <1>13 DEF ReadFails
  <2> QED BY <1>1, <2>1, TreeStays, FileKept DEF TreeInv
<1>14. CASE Restart
  <2>1. HeapInv' /\ Rooted'
    BY <1>1, <1>14, HoldingKeeps DEF Restart
  <2>2. UNCHANGED file /\ last'.node = NoNode
    BY <1>14 DEF Restart, Edit, Nothing
  <2> QED BY <1>1, <2>1, <2>2, FileKept DEF TreeInv
<1>15. CASE UNCHANGED vars
  <2>1. UNCHANGED <<held, tree>> /\ UNCHANGED file /\ UNCHANGED last
    BY <1>15 DEF vars
  <2> QED BY <1>1, <2>1, TreeStays, FileKept DEF TreeInv
<1> QED
  BY <1>3, <1>4, <1>5, <1>6, <1>7, <1>8, <1>9, <1>10, <1>11, <1>12, <1>13, <1>14, <1>15
  DEF Next

(* The invariant says what the run checks.                                 *)
LEMMA TreeInvIntact ==
    ASSUME TreeInv
    PROVE  TreeIntact
<1>1. HeapInv /\ Rooted /\ last.node \in Nodes \cup {NoNode}
  BY DEF TreeInv
<1>2. /\ held \subseteq Nodes /\ Live = Below(Heap, held) /\ Live \subseteq Nodes
      /\ Heap \in Heaps /\ Linked(Heap, Live) /\ Named(Heap, Live) /\ Blank(Heap, Live)
  BY <1>1 DEF HeapInv, Well
<1>3. /\ name \in [Nodes -> Nodes \cup {NoNode}] /\ children \in [Nodes -> Seq(Nodes)]
      /\ parent \in [Nodes -> Nodes \cup {NoNode}] /\ index \in [Nodes -> Int]
      /\ id \in [Nodes -> Ids \cup {NoId}] /\ nodes \in [Ids -> Nodes \cup {NoNode}]
  BY <1>2 DEF Heap, Heaps
<1>4. /\ \A p \in Live : \A i \in DOMAIN children[p] :
            parent[children[p][i]] = p /\ index[children[p][i]] = i - 1
      /\ \A c \in Live : parent[c] # NoNode => parent[c] \in Live /\ c \in ToSet(children[parent[c]])
  BY <1>2 DEF Linked, Heap
<1>5. \A n \in Nodes : ToSet(children[n]) \subseteq Nodes
  BY <1>3, SeqFacts
<1>6. \A n \in Nodes : index[n] \in Nat
  <2>1. TAKE n \in Nodes
  <2>2. CASE parent[n] = NoNode
    BY <1>1, <2>2 DEF Rooted
  <2>3. CASE parent[n] # NoNode
    <3>1. n \in Live
      BY <1>2, <2>3 DEF Blank, Heap
    <3>2. parent[n] \in Live /\ n \in ToSet(children[parent[n]])
      BY <1>4, <2>3, <3>1
    <3>3. PICK i \in DOMAIN children[parent[n]] : children[parent[n]][i] = n
      BY <3>2 DEF ToSet
    <3>4. index[n] = i - 1
      BY <1>4, <3>2, <3>3
    <3>5. i \in Nat /\ i >= 1
      <4>1. children[parent[n]] \in Seq(Nodes)
        BY <1>2, <1>3, <3>2
      <4> QED BY <3>3, <4>1
    <3> QED BY <3>4, <3>5
  <2> QED BY <2>2, <2>3
<1>7. TypeOK
  BY <1>1, <1>2, <1>3, <1>5, <1>6 DEF TypeOK
<1>8. LinksAgree
  BY <1>4 DEF LinksAgree
<1>9. IdsExact
  BY <1>2 DEF IdsExact, Named, Heap
<1> QED
  BY <1>7, <1>8, <1>9 DEF TreeIntact

(* The invariant of the tree holds in every state, if replace_child is     *)
(* only given a new child without a parent.                                *)
LEMMA TreeInvariant == ASSUME Fresh = TRUE PROVE Spec => []TreeInv
<1>1. Init => TreeInv
  BY InitHeap DEF Init, Nothing, TreeInv
<1>2. TreeInv /\ [Next]_vars => TreeInv'
  BY TreeStep
<1> QED
  BY <1>1, <1>2, PTL DEF Spec

(* The tree is intact after any sequence of operations on it (context.cpp, *)
(* node.cpp, config_node_reader_writer.cpp): links to children and back    *)
(* agree, each child is listed once at its index, and a node is found by   *)
(* its id and by no other. For replace_child the new child must have no    *)
(* parent, as all callers have it.                                         *)
THEOREM TreeStaysIntact == Fresh = TRUE => (Spec => []TreeIntact)
<1>1. SUFFICES ASSUME Fresh = TRUE PROVE Spec => []TreeIntact
  OBVIOUS
<1>2. TreeInv => TreeIntact
  BY TreeInvIntact
<1>3. Spec => []TreeInv
  BY <1>1, TreeInvariant
<1> QED
  BY <1>2, <1>3, PTL

---------------------------------------------------------------------------
(* What is planted is apart from what was there, and that is as it was.    *)
Untouched ==
    \A n \in Live : /\ n \in Live' /\ name'[n] = name[n] /\ id'[n] = id[n]
                    /\ children'[n] = children[n] /\ parent'[n] = parent[n]

StandsApart(top) == Below(Heap', {top}) \cap Live = {} /\ parent'[top] = NoNode /\ Untouched

(* Planting leaves the nodes of before as they were, and shares none with  *)
(* them.                                                                   *)
LEMMA PlantedApart ==
    ASSUME HeapInv, NEW r, NEW to, NEW k, NEW up, NEW i \in 1 .. k, NEW top, top = to[i],
           up[i] = 0, Planting(r, to, k, up, top)
    PROVE  StandsApart(top)
<1>1. /\ held \subseteq Live /\ Live \subseteq Nodes /\ Well(Heap, Live) /\ Live = Below(Heap, held)
      /\ Heap \in Heaps
  BY HeldLive DEF HeapInv, Well
<1>2. /\ Planted(Heap, Live, r, to, k, up) /\ top \in ToSet(to) /\ Becomes(r, held \cup {top})
      /\ Well(r, Live \cup ToSet(to))
  BY PlantedIsWell DEF Planting
<1>3. held \cup {top} \subseteq Live \cup ToSet(to)
  BY <1>1, <1>2
<1>4. /\ Heap' = Collected(r, held \cup {top}) /\ Live' = Below(r, held \cup {top}) /\ HeapInv'
  BY <1>2, <1>3, Becoming
<1>5. PICK A : A = Below(r, held \cup {top})
  OBVIOUS
<1>6. PICK c : c = Collected(r, held \cup {top})
  OBVIOUS
<1>7. CollectedTo(r, A, c) /\ held \cup {top} \subseteq A /\ A \subseteq Live \cup ToSet(to)
  BY <1>2, <1>3, <1>5, <1>6, Collection
<1>8. Reach(r, held \cup {top}, A)
  BY <1>2, <1>3, <1>5, WellReach
<1>9. /\ c.name = name' /\ c.children = children' /\ c.parent = parent' /\ c.id = id' /\ c = Heap'
      /\ A = Live'
  BY <1>4, <1>5, <1>6 DEF Heap
<1>10. ToSet(to) \cap Live = {} /\ \A n \in Live : n \in Nodes \ ToSet(to)
  <2>1. Rising(to, k, Nodes \ Live) /\ k \in Nat /\ Nodes \ Live \subseteq Nat
    BY <1>2, NodesAreNumbers DEF Planted
  <2>2. ToSet(to) \subseteq Nodes \ Live
    BY <2>1, RisingFacts
  <2> QED BY <1>1, <2>2
<1>11. \A n \in Live : /\ r.name[n] = name[n] /\ r.children[n] = children[n]
                       /\ r.parent[n] = parent[n] /\ r.id[n] = id[n]
  BY <1>2, <1>10 DEF Planted, Elsewhere, Heap
<1>12. Live \subseteq A
  <2>1. {} \subseteq Live /\ Reach(Heap, held, Live)
    BY <1>1, WellReach
  <2>2. held \subseteq A
    BY <1>7
  <2>3. \A m \in A \cap Live : ToSet(Heap.children[m]) \subseteq A
    <3>1. TAKE m \in A \cap Live
    <3>2. Heap.children[m] = r.children[m]
      BY <1>11 DEF Heap
    <3> QED BY <1>8, <3>2 DEF Reach
  <2> QED BY <2>1, <2>2, <2>3 DEF Reach
<1>13. ASSUME NEW n \in Live
       PROVE  /\ n \in Live' /\ name'[n] = name[n] /\ id'[n] = id[n]
              /\ children'[n] = children[n] /\ parent'[n] = parent[n]
  <2>1. n \in A
    BY <1>12
  <2>2. /\ c.name[n] = r.name[n] /\ c.children[n] = r.children[n] /\ c.id[n] = r.id[n]
        /\ c.parent[n] = IF r.parent[n] \in A THEN r.parent[n] ELSE NoNode
    BY <1>7, <2>1 DEF CollectedTo
  <2>3. parent[n] = NoNode \/ parent[n] \in A
    <3>1. parent[n] # NoNode => parent[n] \in Live
      BY <1>1 DEF Well, Linked, Heap
    <3> QED BY <1>12, <3>1
  <2>4. c.parent[n] = parent[n]
    BY <1>11, <2>2, <2>3
  <2> QED BY <1>9, <1>11, <2>1, <2>2, <2>4
<1>14. parent'[top] = NoNode
  <2>1. r.parent[top] = NoNode
    BY <1>2 DEF Planted, Hung
  <2>2. top \in A
    BY <1>7
  <2>3. c.parent[top] = IF r.parent[top] \in A THEN r.parent[top] ELSE NoNode
    BY <1>7, <2>2 DEF CollectedTo
  <2> QED BY <1>9, <2>1, <2>3
<1>15. Below(c, {top}) \subseteq ToSet(to)
  <2>1. Well(c, A) /\ {top} \subseteq A
    BY <1>4, <1>7, <1>9 DEF HeapInv
  <2>2. Reach(c, {top}, Below(c, {top})) /\ Below(c, {top}) \subseteq A
    BY <2>1, WellReach
  <2>3. \A m \in ToSet(to) \cap Below(c, {top}) : ToSet(c.children[m]) \subseteq ToSet(to)
    <3>1. TAKE m \in ToSet(to) \cap Below(c, {top})
    <3>2. c.children[m] = r.children[m]
      BY <1>7, <2>2 DEF CollectedTo
    <3>3. to \in Seq(Nodes \ Live) /\ Len(to) = k
      BY <1>2 DEF Planted, Rising
    <3>4. PICK j \in 1 .. k : to[j] = m
      BY <3>3, SeqFacts
    <3>5. SUFFICES ASSUME NEW x \in ToSet(c.children[m]) PROVE x \in ToSet(to)
      OBVIOUS
    <3>6. PICK y \in DOMAIN r.children[to[j]] : r.children[to[j]][y] = x
      BY <3>2, <3>4, <3>5 DEF ToSet
    <3>7. PICK l \in 1 .. k : r.children[to[j]][y] = to[l]
      BY <1>2 DEF Planted, Branches
    <3> QED BY <3>3, <3>6, <3>7, SeqFacts
  <2>4. {top} \subseteq ToSet(to)
    BY <1>2
  <2> QED BY <2>2, <2>3, <2>4 DEF Reach
<1>16. Below(Heap', {top}) \cap Live = {}
  BY <1>9, <1>10, <1>15
<1> QED
  BY <1>13, <1>14, <1>16 DEF Untouched, StandsApart

(* The outline of what lives on is what it was.                            *)
LEMMA SameOutline ==
    ASSUME NEW h, NEW g, NEW L, NEW M, Well(h, L), Well(g, M), L \subseteq M,
           \A n \in L : /\ g.name[n] = h.name[n] /\ g.children[n] = h.children[n]
                        /\ g.parent[n] = h.parent[n],
           NEW n \in L
    PROVE  Outline(g, n) = Outline(h, n)
<1>1. h \in Heaps /\ g \in Heaps /\ L \subseteq Nodes /\ \A m \in L : ToSet(h.children[m]) \subseteq L
  BY DEF Well, Closed
<1>2. PICK ns : ns = Preorder(h, n)
  OBVIOUS
<1>3. ns = Preorder(g, n)
  BY <1>1, <1>2, SamePreorder
<1>4. \A i \in DOMAIN ns : ns[i] \in L
  <2>1. Subtree(h, n, ns)
    BY <1>2, PreorderFacts
  <2>2. ns \in Seq(Nodes) /\ ToSet(ns) = Below(h, {n})
    BY <2>1 DEF Subtree
  <2>3. {n} \subseteq L
    OBVIOUS
  <2>4. Below(h, {n}) \subseteq L
    BY <2>3, WellReach
  <2>5. \A i \in DOMAIN ns : ns[i] \in ToSet(ns)
    BY DEF ToSet
  <2> QED BY <2>2, <2>4, <2>5
<1> DEFINE up(x) == SelectInSeq(ns, LAMBDA m : m = x)
<1>5. Outline(h, n) = [i \in DOMAIN ns |->
            [name |-> h.name[ns[i]], parent |-> IF i = 1 THEN 0 ELSE up(h.parent[ns[i]])]]
  BY <1>2 DEF Outline
<1>6. Outline(g, n) = [i \in DOMAIN ns |->
            [name |-> g.name[ns[i]], parent |-> IF i = 1 THEN 0 ELSE up(g.parent[ns[i]])]]
  BY <1>3 DEF Outline
<1> HIDE DEF up
<1>7. \A i \in DOMAIN ns : g.name[ns[i]] = h.name[ns[i]] /\ g.parent[ns[i]] = h.parent[ns[i]]
  BY <1>4
<1> QED
  BY <1>5, <1>6, <1>7

(* The action of the property.                                             *)
Apart ==
    last'.op \in {"clone", "read"} /\ last'.node # NoNode =>
          /\ Below(Heap', {last'.node}) \cap Live = {}
          /\ parent'[last'.node] = NoNode
          /\ \A n \in Live : Outline(Heap', n) = Outline(Heap, n) /\ id'[n] = id[n]

(* So a step that plants is apart.                                         *)
LEMMA PlantingIsApart ==
    ASSUME TreeInv, NEW r, NEW to, NEW k, NEW up, NEW i \in 1 .. k,
           up[i] = 0, Planting(r, to, k, up, last'.node), last'.node = to[i]
    PROVE  Apart
<1>1. PICK top : top = last'.node
  OBVIOUS
<1>2. HeapInv
  BY DEF TreeInv
<1>3. /\ Below(Heap', {top}) \cap Live = {}
      /\ parent'[top] = NoNode
      /\ \A n \in Live : /\ n \in Live' /\ name'[n] = name[n] /\ id'[n] = id[n]
                         /\ children'[n] = children[n] /\ parent'[n] = parent[n]
  <2>1. Planting(r, to, k, up, top) /\ top = to[i]
    BY <1>1
  <2>2. StandsApart(top)
    BY <1>2, <2>1, PlantedApart
  <2> QED BY <2>2 DEF StandsApart, Untouched
<1>4. HeapInv'
  BY <1>1, <1>2, PlantingKeeps
<1>5. Well(Heap, Live) /\ Well(Heap', Live') /\ Live \subseteq Live'
  BY <1>2, <1>3, <1>4 DEF HeapInv
<1>6. PICK g : g = Heap'
  OBVIOUS
<1>7. \A n \in Live : /\ g.name[n] = Heap.name[n] /\ g.children[n] = Heap.children[n]
                      /\ g.parent[n] = Heap.parent[n]
  BY <1>3, <1>6 DEF Heap
<1>8. \A n \in Live : Outline(g, n) = Outline(Heap, n)
  BY <1>5, <1>6, <1>7, SameOutline
<1> QED
  BY <1>1, <1>3, <1>6, <1>8 DEF Apart

(* Every step that clones or reads is one that plants.                     *)
LEMMA StepIsApart ==
    ASSUME TreeInv, Next
    PROVE  Apart
<1>1. HeapInv /\ FileInv
  BY DEF TreeInv
<1>2. SUFFICES ASSUME last'.op \in {"clone", "read"}, last'.node # NoNode PROVE Apart
  BY DEF Apart
<1>3. CASE \E n \in Nodes : Clone(n)
  <2>1. PICK n \in Nodes : Clone(n)
    BY <1>3
  <2>2. PICK r, to, k, up : /\ Planting(r, to, k, up, last'.node) /\ last'.node = to[1]
                            /\ 1 \in 1 .. k /\ up[1] = 0
    BY <1>1, <2>1, CloneFacts
  <2> QED BY <2>2, PlantingIsApart
<1>4. CASE Read
  <2>1. PICK r, to, k, up, i : /\ Planting(r, to, k, up, last'.node) /\ last'.node = to[i]
                               /\ i \in 1 .. k /\ up[i] = 0
    BY <1>1, <1>4, ReadFacts
  <2> QED BY <2>1, PlantingIsApart
<1>5. ~ReadFails
  BY <1>2 DEF ReadFails
<1>6. ~New /\ ~Restart /\ \A n \in Nodes : ~Drop(n) /\ ~Hold(n) /\ ~RemoveChild(n) /\ ~Dump(n)
  BY <1>2 DEF New, Restart, Drop, Hold, RemoveChild, Dump, Nothing
<1>7. \A n, m \in Nodes : ~AddChild(n, m) /\ ~AddChildBefore(n, m)
  BY <1>2 DEF AddChild, AddChildBefore, Nothing
<1>8. \A n, m \in Nodes, take \in BOOLEAN : ~ReplaceChild(n, m, take)
  BY <1>2 DEF ReplaceChild
<1> QED
  BY <1>3, <1>4, <1>5, <1>6, <1>7, <1>8 DEF Next

(* A clone (Node::clone) or a tree that was read (read_from_file) shares   *)
(* no node with what was there, has no parent, and changes the outline and *)
(* the id of no node: whoever works on the copy leaves the original alone. *)
THEOREM CopiesStayApart == Fresh = TRUE => (Spec => CopiesAreApart)
<1>1. SUFFICES ASSUME Fresh = TRUE PROVE Spec => CopiesAreApart
  OBVIOUS
<1>2. TreeInv /\ [Next]_vars => [Apart]_vars
  BY StepIsApart
<1>3. Spec => []TreeInv
  BY <1>1, TreeInvariant
<1> QED
  BY <1>2, <1>3, PTL DEF Spec, CopiesAreApart, Apart

---------------------------------------------------------------------------
(* The parent of what is replaced lives on: no way down to it leads        *)
(* through the old child or the new.                                       *)
LEMMA ParentSurvives ==
    ASSUME HeapInv, NEW p, NEW c, NEW new, NEW r, NEW at, Replacing(p, c, new, r, at),
           NEW A, A = Below(r, held)
    PROVE  p \in A
<1>1. /\ p \in Live /\ c \in Live /\ new \in held /\ p = Heap.parent[c]
      /\ c \notin Below(Heap, {new}) /\ ReplacedBy(Heap, r, Live, p, c, new, at)
  BY DEF Replacing
<1>2. /\ held \subseteq Live /\ Live \subseteq Nodes /\ Well(Heap, Live) /\ Live = Below(Heap, held)
      /\ new \in Live
  BY <1>1, HeldLive DEF HeapInv
<1>3. Well(r, Live) /\ \A n \in Live \ {p, c, new} : r.children[n] = Heap.children[n]
  BY <1>1 DEF ReplacedBy
<1> DEFINE C == Below(Heap, {c})
           N == Below(Heap, {new})
           T == A \cup C \cup N
<1>4. Reach(r, held, A) /\ Reach(Heap, held, Live)
  BY <1>2, <1>3, WellReach
<1>5. Reach(Heap, {c}, C) /\ Reach(Heap, {new}, N)
  <2>1. {c} \subseteq Live /\ {new} \subseteq Live
    BY <1>1, <1>2
  <2> QED BY <1>2, <2>1, WellReach
<1>6. c \in ToSet(Heap.children[p])
  <2>1. p # NoNode
    BY <1>1, <1>2, NodesAreNumbers
  <2> QED BY <1>1, <1>2, <2>1 DEF Well, Linked
<1>7. p \notin C
  BY <1>1, <1>2, <1>6, NotBelowChild
<1> HIDE DEF C
<1>8. p \notin N
  <2>1. c \notin N
    BY <1>1
  <2> HIDE DEF N
  <2> QED BY <1>5, <1>6, <2>1 DEF Reach
<1> HIDE DEF N
<1>9. SUFFICES ASSUME p \notin A PROVE FALSE
  OBVIOUS
<1>10. held \subseteq T
  BY <1>4 DEF Reach
<1>11. ASSUME NEW m \in T \cap Live PROVE ToSet(Heap.children[m]) \subseteq T
  <2>1. CASE m \in C
    BY <1>5, <2>1 DEF Reach
  <2>2. CASE m \in N
    BY <1>5, <2>2 DEF Reach
  <2>3. CASE m \in A /\ m \notin C /\ m \notin N
    <3>1. c \in C /\ new \in N
      BY <1>5 DEF Reach
    <3>2. m # p /\ m # c /\ m # new
      BY <1>9, <2>3, <3>1
    <3>3. r.children[m] = Heap.children[m]
      BY <1>3, <1>11, <3>2
    <3>4. ToSet(r.children[m]) \subseteq A
      BY <1>4, <2>3 DEF Reach
    <3> QED BY <3>3, <3>4
  <2> QED BY <1>11, <2>1, <2>2, <2>3
<1>12. Live \subseteq T
  <2> HIDE DEF T
  <2> QED BY <1>4, <1>10, <1>11 DEF Reach
<1> QED
  BY <1>1, <1>7, <1>8, <1>9, <1>12

(* The action of the property.                                             *)
KeepsId ==
    last'.op = "replace" =>
          [i \in DOMAIN children'[last'.node] |-> id'[children'[last'.node][i]]]
              = ChildIds(last'.node)

(* The ids of the parent's children are the same before and after.         *)
LEMMA ReplacedKeepsId ==
    ASSUME HeapInv, NEW p, NEW c, NEW new, NEW r, NEW at, Replacing(p, c, new, r, at)
    PROVE  [i \in DOMAIN children'[p] |-> id'[children'[p][i]]] = ChildIds(p)
<1>1. /\ p \in Live /\ c \in Live /\ new \in held /\ p = Heap.parent[c]
      /\ Heap.parent[new] = NoNode /\ Becomes(r, held)
      /\ ReplacedBy(Heap, r, Live, p, c, new, at)
  BY DEF Replacing
<1>2. /\ held \subseteq Live /\ Live \subseteq Nodes /\ Well(Heap, Live) /\ new \in Live
  BY <1>1, HeldLive
<1>3. /\ Well(r, Live) /\ at \in 1 .. Len(children[p]) /\ children[p][at] = c
      /\ r.children[p] = [children[p] EXCEPT ![at] = new]
      /\ r.id[new] = id[c] /\ \A n \in Live \ {c, new} : r.id[n] = id[n]
  BY <1>1 DEF ReplacedBy, Heap
<1>4. PICK A : A = Below(r, held)
  OBVIOUS
<1>5. PICK d : d = Collected(r, held)
  OBVIOUS
<1>6. p \in A
  BY <1>4, ParentSurvives
<1>7. CollectedTo(r, A, d) /\ A \subseteq Live
  BY <1>2, <1>3, <1>4, <1>5, Collection
<1>8. Heap' = d
  BY <1>1, <1>2, <1>3, <1>5, Becoming
<1>9. children' = d.children /\ id' = d.id
  BY <1>8 DEF Heap
<1>10. children'[p] = r.children[p] /\ \A n \in A : id'[n] = r.id[n]
  BY <1>6, <1>7, <1>9 DEF CollectedTo
<1>11. Reach(r, held, A)
  BY <1>2, <1>3, <1>4, WellReach
<1> DEFINE s == children[p]
           t == children'[p]
<1>12. Family(Heap, Live, p, s)
  <2>1. Heap.children = children
    BY DEF Heap
  <2> QED BY <1>1, <1>2, <2>1, ChildFacts
<1>13. /\ Len(s) \in Nat /\ DOMAIN s = 1 .. Len(s)
       /\ \A i \in 1 .. Len(s) : s[i] \in Live /\ Heap.parent[s[i]] = p
       /\ \A i, j \in 1 .. Len(s) : s[i] = s[j] => i = j
  BY <1>12 DEF Family
<1>14. t = [s EXCEPT ![at] = new] /\ DOMAIN t = 1 .. Len(s)
  <2>1. t = [s EXCEPT ![at] = new]
    BY <1>3, <1>10
  <2> HIDE DEF s, t
  <2> QED BY <1>13, <2>1
<1>15. \A i \in DOMAIN t : t[i] \in A
  <2>1. ToSet(t) \subseteq A
    <3>1. ToSet(r.children[p]) \subseteq A
      BY <1>6, <1>11 DEF Reach
    <3> QED BY <1>10, <3>1
  <2> HIDE DEF t
  <2> QED BY <2>1 DEF ToSet
<1>16. p # NoNode
  BY <1>1, <1>2, NodesAreNumbers
<1>17. ASSUME NEW i \in 1 .. Len(s) PROVE id'[t[i]] = id[s[i]]
  <2>1. id'[t[i]] = r.id[t[i]]
    BY <1>10, <1>14, <1>15
  <2>2. CASE i = at
    <3>1. t[i] = new /\ s[i] = c
      BY <1>3, <1>13, <1>14, <2>2
    <3> QED BY <1>3, <2>1, <3>1
  <2>3. CASE i # at
    <3>1. t[i] = s[i]
      BY <1>13, <1>14, <2>3
    <3>2. s[i] # c
      BY <1>3, <1>13, <2>3
    <3>3. s[i] # new
      BY <1>1, <1>13, <1>16
    <3>4. r.id[s[i]] = id[s[i]]
      BY <1>3, <1>13, <3>2, <3>3
    <3> QED BY <2>1, <3>1, <3>4
  <2> QED BY <2>2, <2>3
<1> HIDE DEF s, t
<1>18. [i \in DOMAIN t |-> id'[t[i]]] = [i \in DOMAIN s |-> id[s[i]]]
  BY <1>13, <1>14, <1>17
<1> QED
  BY <1>18 DEF ChildIds, s, t

(* No other operation is a replacement.                                    *)
LEMMA StepKeepsId ==
    ASSUME Fresh = TRUE, TreeInv, Next
    PROVE  KeepsId
<1>1. HeapInv /\ FileInv
  BY DEF TreeInv
<1>2. SUFFICES ASSUME last'.op = "replace" PROVE KeepsId
  BY DEF KeepsId
<1>3. ASSUME NEW c \in Nodes, NEW new \in Nodes, NEW take \in BOOLEAN, ReplaceChild(c, new, take)
      PROVE  KeepsId
  <2>1. PICK r, at : Replacing(parent[c], c, new, r, at)
    BY <1>1, <1>3, ReplaceChildFacts
  <2>2. PICK p : p = parent[c]
    OBVIOUS
  <2>3. last'.node = p
    BY <1>3, <2>2 DEF ReplaceChild
  <2>4. [i \in DOMAIN children'[p] |-> id'[children'[p][i]]] = ChildIds(p)
    BY <1>1, <2>1, <2>2, ReplacedKeepsId
  <2> QED BY <2>3, <2>4 DEF KeepsId
<1>4. ~Read /\ ~ReadFails
  BY <1>2 DEF Read, ReadFails
<1>5. ~New /\ ~Restart
  BY <1>2 DEF New, Restart, Nothing
<1>6. \A n \in Nodes : ~Drop(n) /\ ~Hold(n) /\ ~RemoveChild(n) /\ ~Dump(n) /\ ~Clone(n)
  BY <1>2 DEF Drop, Hold, RemoveChild, Dump, Clone, Nothing
<1>7. \A n, m \in Nodes : ~AddChild(n, m) /\ ~AddChildBefore(n, m)
  BY <1>2 DEF AddChild, AddChildBefore, Nothing
<1> QED
  BY <1>3, <1>4, <1>5, <1>6, <1>7 DEF Next

(* replace_child (context.cpp) leaves the ids listed under the parent as   *)
(* they were, the old child's at its place: who remembers a child by its   *)
(* id finds what took its place.                                           *)
THEOREM ReplacementsKeepIds == Fresh = TRUE => (Spec => ReplacementKeepsId)
<1>1. SUFFICES ASSUME Fresh = TRUE PROVE Spec => ReplacementKeepsId
  OBVIOUS
<1>2. TreeInv /\ [Next]_vars => [KeepsId]_vars
  BY <1>1, StepKeepsId
<1>3. Spec => []TreeInv
  BY <1>1, TreeInvariant
<1> QED
  BY <1>2, <1>3, PTL DEF Spec, ReplacementKeepsId, KeepsId

=============================================================================
