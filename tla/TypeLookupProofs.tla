-------------------------- MODULE TypeLookupProofs --------------------------
(***************************************************************************)
(* The lookup of types, for every project: any types, any directives, any  *)
(* queries, in any order.                                                  *)
(***************************************************************************)
EXTENDS TypeLookup, BasicFacts, FiniteSetTheorems

---------------------------------------------------------------------------
(* The lookup and its cache.                                               *)
LEMMA HitFacts ==
    ASSUME NEW q
    PROVE  LET paths == PathsOf(q)
           IN  \/ /\ Hit(q) = 0 /\ \A i \in 1 .. Len(paths) : Known(paths[i]) = NoType
               \/ /\ Hit(q) \in 1 .. Len(paths) /\ Known(paths[Hit(q)]) # NoType
                  /\ \A i \in 1 .. Len(paths) : i < Hit(q) => Known(paths[i]) = NoType
<1> DEFINE paths == PathsOf(q)
           I == {i \in 1 .. Len(paths) : Known(paths[i]) # NoType}
<1>1. I \in SUBSET Nat
  OBVIOUS
<1>2. Hit(q) = IF I # {} THEN Min(I) ELSE 0
  BY DEF Hit, SelectInSeq
<1>3. CASE I = {}
  BY <1>2, <1>3
<1>4. CASE I # {}
  <2> HIDE DEF I
  <2>1. Min(I) \in I /\ \A k \in I : Min(I) <= k
    BY <1>1, <1>4, LeastOf DEF Min
  <2>2. Hit(q) \in I /\ \A k \in I : Hit(q) <= k
    BY <1>2, <1>4, <2>1
  <2>3. \A i \in Nat : i < Hit(q) => ~(Hit(q) <= i)
    <3>1. \A h, i \in Nat : i < h => ~(h <= i)
      OBVIOUS
    <3>2. Hit(q) \in Nat
      BY <1>1, <2>2, Zenon
    <3> QED BY <3>1, <3>2, Zenon
  <2>4. \A i \in Nat : i < Hit(q) => i \notin I
    BY <2>2, <2>3, Zenon
  <2>5. \A i \in 1 .. Len(paths) : i \in Nat
    OBVIOUS
  <2> QED
    BY <2>2, <2>4, <2>5 DEF I
<1> QED
  BY <1>3, <1>4

(* What a lookup finds it finds under a path, and it keeps it under that.  *)
LEMMA RememberFacts ==
    ASSUME NEW q
    PROVE  \/ Find(q) = NoType /\ Remember(q) = cache
           \/ \E p : /\ Find(q) = Known(p) /\ Known(p) # NoType
                     /\ Remember(q) = [x \in DOMAIN cache \cup {p} |->
                                          IF x = p THEN Known(p) ELSE cache[x]]
<1>1. CASE Hit(q) = 0
  BY <1>1 DEF Find, Remember
<1>2. CASE Hit(q) # 0
  <2> DEFINE p == PathsOf(q)[Hit(q)]
  <2>1. Find(q) = Known(p) /\ Known(p) # NoType
    BY <1>2, HitFacts DEF Find
  <2>2. Remember(q) = [x \in DOMAIN cache \cup {p} |-> IF x = p THEN Find(q) ELSE cache[x]]
    BY <1>2 DEF Remember
  <2> QED
    BY <2>1, <2>2
<1> QED
  BY <1>1, <1>2

---------------------------------------------------------------------------
(* The invariant: nothing is looked up, and so nothing kept, before all    *)
(* types are saved.                                                        *)
Exact == \A p \in DOMAIN cache : cache[p] = Stored(p)
LookupInv ==
    /\ TypeOK /\ Exact
    /\ phase = "api" => saved = {}
    /\ phase \in {"api", "scan"} => DOMAIN cache = {}
    /\ DOMAIN walk = {"of", "at", "result"} /\ (walk.result # "none" => phase = "bind")

(* What a path stands for in the database is a type saved there, or        *)
(* nothing.                                                                *)
LEMMA StoredIsSaved ==
    ASSUME TypeOK, NEW p PROVE Stored(p) \in saved \cup {NoType}
<1> DEFINE via == {i \in DOMAIN Usings : Through(Usings[i], p) \in DOMAIN files}
<1>1. via # {} => Through(Usings[FirstOf(via)], p) \in DOMAIN files
  <2>1. SUFFICES ASSUME via # {} PROVE FirstOf(via) \in via
    OBVIOUS
  <2>2. via \in SUBSET Nat
    BY UsingsAssumption DEF IsSequence
  <2> HIDE DEF via
  <2> QED
    BY <2>1, <2>2, LeastOf DEF FirstOf
<1>2. Stored(p) = IF p \in DOMAIN files THEN files[p]
                  ELSE IF via # {} THEN files[Through(Usings[FirstOf(via)], p)] ELSE NoType
  BY DEF Stored
<1> HIDE DEF via
<1> QED
  BY <1>1, <1>2 DEF TypeOK

(* With an exact cache, what is known is what is stored.                   *)
LEMMA KnownIsStored == ASSUME Exact, NEW p PROVE Known(p) = Stored(p)
BY DEF Exact, Known

(* The cache is exact at the start.                                        *)
LEMMA LookupInit == Init => LookupInv
<1> SUFFICES ASSUME Init PROVE LookupInv
  OBVIOUS
<1>1. /\ saved = {} /\ DOMAIN files = {} /\ DOMAIN cache = {} /\ phase = "api"
      /\ DOMAIN assumed = {} /\ walk.at = NoType /\ walk.result = "none"
      /\ DOMAIN walk = {"of", "at", "result"}
      /\ answer.found = NoType
  BY DEF Init, Idle, Unasked
<1> QED
  BY <1>1 DEF LookupInv, TypeOK, Exact

(* A lookup leaves the files as they are.                                  *)
LEMMA LookupKeeps ==
    ASSUME LookupInv, NEW q, cache' = Remember(q), files' = files, saved' = saved
    PROVE  Exact' /\ (\A p \in DOMAIN cache : p \in DOMAIN cache' /\ cache'[p] = cache[p])
           /\ (\A p \in DOMAIN cache' : cache'[p] \in saved)
           /\ Find(q) \in saved \cup {NoType}
<1>1. Exact /\ \A p \in DOMAIN cache : cache[p] \in saved
  BY DEF LookupInv, TypeOK
<1>2. \A p : Known(p) = Stored(p) /\ Stored(p) \in saved \cup {NoType}
  BY <1>1, KnownIsStored, StoredIsSaved DEF LookupInv
<1>3. \A p : Stored(p)' = Stored(p)
  BY DEF Stored
<1>4. CASE Find(q) = NoType /\ Remember(q) = cache
  <2>1. \A p \in DOMAIN cache : cache[p] = Stored(p)'
    BY <1>1, <1>3 DEF Exact
  <2> QED BY <1>1, <1>4, <2>1 DEF Exact
<1>5. ASSUME NEW k, Find(q) = Known(k), Known(k) # NoType,
             Remember(q) = [x \in DOMAIN cache \cup {k} |-> IF x = k THEN Known(k) ELSE cache[x]]
      PROVE  Exact' /\ (\A p \in DOMAIN cache : p \in DOMAIN cache' /\ cache'[p] = cache[p])
             /\ (\A p \in DOMAIN cache' : cache'[p] \in saved)
             /\ Find(q) \in saved \cup {NoType}
  <2>1. Known(k) = Stored(k) /\ Known(k) \in saved
    BY <1>2, <1>5
  <2>2. /\ DOMAIN cache' = DOMAIN cache \cup {k} /\ cache'[k] = Known(k)
        /\ \A x \in DOMAIN cache \ {k} : cache'[x] = cache[x]
    BY <1>5
  <2>3. \A p \in DOMAIN cache' : cache'[p] = Stored(p) /\ cache'[p] \in saved
    BY <1>1, <2>1, <2>2 DEF Exact
  <2>4. k \in DOMAIN cache => cache[k] = Known(k)
    BY DEF Known
  <2>5. Exact'
    BY <1>3, <2>3 DEF Exact
  <2> QED BY <1>5, <2>1, <2>2, <2>3, <2>4, <2>5
<1> QED
  BY <1>4, <1>5, RememberFacts

(* Every step keeps it exact.                                              *)
LEMMA LookupStep == LookupInv /\ [Next]_vars => LookupInv'
<1> SUFFICES ASSUME LookupInv, [Next]_vars PROVE LookupInv'
  OBVIOUS
<1> USE DEF LookupInv, apiVars
<1>1. ASSUME UNCHANGED <<declared, saved, files, cache, phase, assumed>>,
             walk'.at \in saved \cup {NoType},
             walk'.result \in {"none", "running", "yes", "no"},
             DOMAIN walk' = {"of", "at", "result"}, walk'.result # "none" => phase = "bind",
             answer'.found \in saved \cup {NoType}
      PROVE  LookupInv'
  <2>1. \A p : Stored(p)' = Stored(p)
    BY <1>1 DEF Stored
  <2>2. Exact'
    BY <1>1, <2>1 DEF Exact
  <2>3. TypeOK'
    BY <1>1 DEF TypeOK
  <2> QED BY <1>1, <2>2, <2>3
<1>2. /\ walk.at \in saved \cup {NoType}
      /\ walk.result \in {"none", "running", "yes", "no"}
      /\ answer.found \in saved \cup {NoType}
  BY DEF TypeOK
<1>3. ASSUME NEW f, ListHeader(f) PROVE LookupInv'
  BY <1>1, <1>2, <1>3 DEF ListHeader
<1>4. CASE ParseApi
  <2>1. /\ phase = "api" /\ phase' = "scan" /\ saved' = ApiTypes /\ saved = {}
        /\ declared' = declared \cup ApiTypes
        /\ files' = [p \in UNION {TypePaths(t) : t \in ApiTypes} |->
                        CHOOSE t \in ApiTypes : p \in TypePaths(t)]
        /\ cache' = cache /\ assumed' = assumed /\ walk' = walk /\ answer' = answer
    BY <1>4 DEF ParseApi
  <2>2. \A p \in DOMAIN files' : files'[p] \in ApiTypes
    BY <2>1
  <2>3. TypeOK'
    BY <2>1, <2>2 DEF TypeOK
  <2> QED BY <2>1, <2>3 DEF Exact
<1>5. ASSUME NEW t \in declared, Save(t) PROVE LookupInv'
  <2>1. /\ phase = "scan" /\ phase' = phase /\ saved' = saved \cup {t} /\ declared' = declared
        /\ files' = [p \in DOMAIN files \cup TypePaths(t) \cup AttributePaths(t) |->
                        IF p \in TypePaths(t) \cup AttributePaths(t) THEN t ELSE files[p]]
        /\ cache' = cache /\ assumed' = assumed /\ walk' = walk /\ answer' = answer
    BY <1>5 DEF Save
  <2>2. \A p \in DOMAIN files' : files'[p] \in saved'
    BY <2>1 DEF TypeOK
  <2>3. TypeOK'
    BY <2>1, <2>2 DEF TypeOK
  <2> QED BY <2>1, <2>3 DEF Exact
<1>6. ASSUME NEW t \in declared, AskBase(t) PROVE LookupInv'
  <2>1. DOMAIN walk' = {"of", "at", "result"} /\ phase = "bind"
        /\ walk'.at = t /\ walk'.result = "running" /\ answer'.found = NoType /\ t \in saved
    BY <1>6 DEF AskBase, Unasked
  <2> QED BY <1>1, <1>6, <2>1 DEF AskBase
<1>7. CASE ScanEnds
  <2>1. /\ phase = "scan" /\ phase' = "validate"
        /\ UNCHANGED <<declared, saved, files, cache, assumed, walk, answer>>
    BY <1>7 DEF ScanEnds
  <2>2. TypeOK' /\ Exact'
    BY <2>1 DEF TypeOK, Exact
  <2> QED BY <2>1, <2>2
<1>8. ASSUME NEW n \in Assumed, Validate(n) PROVE LookupInv'
  <2> DEFINE q == Query(n, 0, NoAttribute, Nowhere)
  <2>1. /\ phase = "validate" /\ phase' \in {"validate", "bind", "failed"}
        /\ cache' = Remember(q) /\ DOMAIN assumed' = DOMAIN assumed \cup {n}
        /\ UNCHANGED <<declared, saved, files, walk, answer>>
    BY <1>8 DEF Validate
  <2> HIDE DEF q
  <2>2. Exact' /\ \A p \in DOMAIN cache' : cache'[p] \in saved
    BY <2>1, LookupKeeps
  <2>3. TypeOK'
    BY <2>1, <2>2 DEF TypeOK
  <2> QED BY <2>1, <2>2, <2>3
<1>9. ASSUME NEW q, cache' = Remember(q), phase = "bind",
             UNCHANGED <<declared, saved, files, phase, assumed>>,
             Find(q) \in saved \cup {NoType} =>
                /\ walk'.at \in saved \cup {NoType}
                /\ walk'.result \in {"none", "running", "yes", "no"}
                /\ DOMAIN walk' = {"of", "at", "result"}
                /\ answer'.found \in saved \cup {NoType}
      PROVE  LookupInv'
  <2>1. /\ Exact' /\ \A p \in DOMAIN cache' : cache'[p] \in saved
        /\ Find(q) \in saved \cup {NoType}
    BY <1>9, LookupKeeps
  <2>2. TypeOK'
    BY <1>9, <2>1 DEF TypeOK
  <2> QED BY <1>9, <2>1, <2>2
<1>10. ASSUME NEW q \in Queries, LookUp(q) PROVE LookupInv'
  <2>1. /\ cache' = Remember(q) /\ phase = "bind"
        /\ UNCHANGED <<declared, saved, files, phase, assumed>>
        /\ walk'.at = NoType /\ walk'.result = "none" /\ DOMAIN walk' = {"of", "at", "result"}
        /\ answer'.found = Find(q)
    BY <1>10 DEF LookUp, Idle
  <2> QED BY <1>9, <2>1
<1>11. CASE BaseFound \/ NoBase
  <2>1. /\ UNCHANGED <<declared, saved, files, cache, phase, assumed, answer>>
        /\ walk' = [walk EXCEPT !.result = "yes"] \/ walk' = [walk EXCEPT !.result = "no"]
    BY <1>11 DEF BaseFound, NoBase
  <2>2. /\ walk'.at = walk.at /\ walk'.result \in {"yes", "no"}
        /\ DOMAIN walk' = {"of", "at", "result"} /\ phase = "bind"
    BY <1>11, <2>1 DEF BaseFound, NoBase
  <2> QED BY <1>1, <1>2, <2>1, <2>2
<1>12. CASE NextBase
  <2> DEFINE q == BaseQuery(walk.at)
  <2>1. /\ cache' = Remember(q) /\ phase = "bind"
        /\ UNCHANGED <<declared, saved, files, phase, assumed, answer>>
        /\ walk' = [walk EXCEPT !.at = Find(q)] \/ walk' = [walk EXCEPT !.result = "no"]
    BY <1>12 DEF NextBase
  <2> QED BY <1>2, <1>9, <2>1
<1>13. CASE Ended \/ UNCHANGED vars
  BY <1>1, <1>2, <1>13 DEF Ended, vars
<1> QED
  BY <1>3, <1>4, <1>5, <1>6, <1>7, <1>8, <1>10, <1>11, <1>12, <1>13 DEF Next

(* TypeDB::_cache: whatever was looked up before, in whatever order, what  *)
(* is kept under a path is what the files say of it.                       *)
THEOREM Cached == Spec => []CacheExact
<1>1. LookupInv => CacheExact
  BY DEF LookupInv, Exact, CacheExact
<1> QED
  BY <1>1, LookupInit, LookupStep, PTL DEF Spec

---------------------------------------------------------------------------
(* The names a lookup tries: each ends as the name does; the name in every *)
(* scope is among them, and the name itself comes first.                   *)
LEMMA OwnScope ==
    ASSUME NEW s, IsSequence(s)
    PROVE  SubSeq(s, 1, 0) = <<>> /\ SubSeq(s, 1, Len(s)) = s /\ <<>> \o s = s
<1>1. SubSeq(s, 1, 0) = <<>>
  BY SubSeqEmpty
<1>2. SubSeq(s, 1, Len(s)) = s
  BY SubSeqFull DEF IsSequence
<1>3. <<>> \o s = s
  BY ConcatEmptySeq DEF IsSequence
<1> QED BY <1>1, <1>2, <1>3

(* The last part of two sequences joined.                                  *)
LEMMA LastOfBoth ==
    ASSUME NEW s, IsSequence(s), NEW t, IsSequence(t), t # <<>>
    PROVE  IsSequence(s \o t) /\ s \o t # <<>> /\ Last(s \o t) = Last(t)
<1>1. /\ s \o t \in Seq(ToSet(s \o t)) /\ Len(s) \in Nat /\ Len(t) \in Nat
      /\ Len(s \o t) = Len(s) + Len(t)
      /\ \A i \in 1 .. Len(t) : (s \o t)[Len(s) + i] = t[i]
  BY Concatenated DEF IsSequence
<1>2. Len(t) # 0
  BY EmptySeq DEF IsSequence
<1>3. Len(s \o t) # 0 /\ Len(t) \in 1 .. Len(t)
  BY <1>1, <1>2
<1>4. s \o t # <<>>
  BY <1>3, EmptySequence
<1> QED BY <1>1, <1>3, <1>4 DEF IsSequence, Last

(* The names a lookup tries: the one asked for, one in every scope around, *)
(* all with the same last part.                                            *)
LEMMA CandidateFacts ==
    ASSUME NEW name, IsSequence(name), name # <<>>, NEW from, IsSequence(from)
    PROVE  LET names == Candidates(name, from)
           IN  /\ IsSequence(names) /\ Len(names) >= 1 /\ names[1] = name
               /\ \A i \in 1 .. Len(names) :
                     IsSequence(names[i]) /\ names[i] # <<>> /\ Last(names[i]) = Last(name)
               /\ \A k \in 0 .. Len(CppScope(from)) : \E i \in 1 .. Len(names) :
                     names[i] = SubSeq(CppScope(from), 1, k) \o name
<1>1. CASE from = Nowhere
  <2>1. Candidates(name, from) = <<name>> /\ CppScope(from) = <<>>
    BY <1>1 DEF Candidates, CppScope
  <2>2. IsSequence(<<name>>) /\ Len(<<name>>) = 1 /\ <<name>>[1] = name
    BY Singleton DEF IsSequence
  <2>3. IsSequence(<<>>) /\ Len(<<>>) = 0
    BY EmptySequence DEF IsSequence
  <2>4. SubSeq(<<>>, 1, 0) \o name = name
    BY <2>3, OwnScope
  <2> QED BY <2>1, <2>2, <2>3, <2>4
<1>2. CASE from # Nowhere
  <2> DEFINE n == Len(name)
             m == Len(from) + 1
             names == Candidates(name, from)
             At(i) == SubSeq(from, 1, (i - 1) \div n) \o SubSeq(name, ((i - 1) % n) + 1, n)
  <2>1. names = [i \in 1 .. n * m |-> At(i)] /\ CppScope(from) = from
    BY <1>2 DEF Candidates, CppScope
  <2>2. n \in Nat \ {0} /\ m \in Nat \ {0} /\ n * m \in Nat /\ n * m >= n
    <3>1. n \in Nat /\ Len(from) \in Nat
      BY DEF IsSequence
    <3>2. n # 0
      BY EmptySeq DEF IsSequence
    <3>3. \A a, b \in Nat : a # 0 => a * (b + 1) \in Nat /\ a * (b + 1) >= a
      OBVIOUS
    <3> QED BY <3>1, <3>2, <3>3
  <2> HIDE DEF At
  <2>3. names \in [1 .. n * m -> {At(i) : i \in 1 .. n * m}]
    BY <2>1
  <2>4. names \in Seq({At(i) : i \in 1 .. n * m})
    BY <2>2, <2>3
  <2>5. IsSequence(names) /\ Len(names) = n * m
    BY <2>2, <2>3, <2>4, OwnSequence DEF IsSequence
  <2>6. \A i \in 1 .. n * m : IsSequence(At(i)) /\ At(i) # <<>> /\ Last(At(i)) = Last(name)
    <3>1. TAKE i \in 1 .. n * m
    <3> DEFINE a == i - 1
               k == a \div n
               r == a % n
    <3>2. a \in 0 .. n * m - 1
      BY <2>2
    <3>3. k \in 0 .. Len(from) /\ r \in 0 .. n - 1
      <4>1. k \in 0 .. m - 1 /\ r \in 0 .. n - 1
        BY <2>2, <3>2, Divided
      <4> QED BY <4>1, <2>2 DEF IsSequence
    <3> DEFINE s == SubSeq(from, 1, k)
               t == SubSeq(name, r + 1, n)
    <3>4. At(i) = s \o t
      BY DEF At
    <3> HIDE DEF a, k, r
    <3>5. IsSequence(s)
      <4>1. 1 \in 1 .. Len(from) + 1 /\ 1 <= k + 1
        BY <2>2, <3>3
      <4> QED BY <3>3, <4>1, Sliced DEF IsSequence
    <3>6. IsSequence(t) /\ Len(t) = n - r /\ t[n - r] = name[n]
      <4>1. r + 1 \in 1 .. Len(name) + 1 /\ n \in 0 .. Len(name) /\ r + 1 <= n + 1
        BY <2>2, <3>3
      <4>2. /\ t \in Seq(ToSet(t)) /\ Len(t) = n - (r + 1) + 1
            /\ \A j \in 1 .. n - (r + 1) + 1 : t[j] = name[r + 1 + j - 1]
        BY <4>1, Sliced DEF IsSequence
      <4>3. n - (r + 1) + 1 = n - r /\ n - r \in 1 .. n - r /\ r + 1 + (n - r) - 1 = n
        BY <2>2, <3>3
      <4>4. t[n - r] = name[r + 1 + (n - r) - 1]
        BY <4>2, <4>3
      <4> QED BY <4>2, <4>3, <4>4 DEF IsSequence
    <3> HIDE DEF s, t
    <3>7. t # <<>> /\ Last(t) = Last(name)
      <4>1. Len(t) # 0
        BY <2>2, <3>3, <3>6
      <4> QED BY <3>6, <4>1, EmptySequence DEF Last
    <3> QED BY <3>4, <3>5, <3>6, <3>7, LastOfBoth
  <2>7. \A k \in 0 .. Len(from) : \E i \in 1 .. n * m : At(i) = SubSeq(from, 1, k) \o name
    <3>1. TAKE k \in 0 .. Len(from)
    <3>2. k \in Nat /\ m - k >= 1 /\ m - k \in Int
      BY <2>2 DEF IsSequence
    <3>3. (k * n) \div n = k /\ (k * n) % n = 0 /\ k * n \in Nat
      <4>1. k * n \in Nat
        <5>1. \A a, b \in Nat : a * b \in Nat
          OBVIOUS
        <5> QED BY <2>2, <3>2, <5>1
      <4> QED BY <2>2, <3>2, <4>1, Multiple
    <3>4. \A a, b, c \in Nat : a # 0 /\ c + 1 <= b => c * a + 1 \in 1 .. a * b
      <4>1. TAKE a, b, c \in Nat
      <4>2. HAVE a # 0 /\ c + 1 <= b
      <4>3. PICK d \in Nat : b = c + 1 + d
        <5>1. b - (c + 1) \in Nat /\ b = c + 1 + (b - (c + 1))
          BY <4>2
        <5> QED BY <5>1
      <4>4. a * b = c * a + a + a * d
        BY <4>3
      <4>5. a * d >= 0 /\ c * a >= 0 /\ a * d \in Int /\ c * a \in Int
        OBVIOUS
      <4> QED BY <4>2, <4>4, <4>5
    <3>5. k * n + 1 \in 1 .. n * m
      BY <2>2, <3>2, <3>4
    <3>6. PICK i \in 1 .. n * m : i - 1 = k * n
      BY <3>3, <3>5
    <3>7. (i - 1) \div n = k /\ ((i - 1) % n) + 1 = 1
      BY <3>3, <3>6
    <3>9. At(i) = SubSeq(from, 1, k) \o SubSeq(name, 1, n)
      BY <3>7 DEF At
    <3>8. SubSeq(name, 1, n) = name
      BY OwnScope
    <3> QED BY <3>6, <3>8, <3>9
  <2>8. At(1) = name
    <3>1. (1 - 1) \div n = 0 /\ (1 - 1) % n = 0
      BY <2>2
    <3>2. At(1) = SubSeq(from, 1, 0) \o SubSeq(name, 1, n)
      BY <3>1 DEF At
    <3> QED BY <3>2, OwnScope
  <2>9. \A i \in 1 .. n * m : names[i] = At(i)
    BY <2>1
  <2>10. 1 \in 1 .. n * m /\ n * m >= 1
    BY <2>2
  <2> HIDE DEF names, n, m
  <2>11. names[1] = name
    BY <2>8, <2>9, <2>10
  <2>12. \A i \in 1 .. Len(names) :
            IsSequence(names[i]) /\ names[i] # <<>> /\ Last(names[i]) = Last(name)
    BY <2>5, <2>6, <2>9
  <2>13. \A k \in 0 .. Len(CppScope(from)) : \E i \in 1 .. Len(names) :
                     names[i] = SubSeq(CppScope(from), 1, k) \o name
    BY <2>1, <2>5, <2>7, <2>9
  <2> QED BY <2>5, <2>10, <2>11, <2>12, <2>13 DEF names
<1> QED
  BY <1>1, <1>2

(* The paths it tries are those names' paths, in order.                    *)
LEMMA PathsFacts ==
    ASSUME NEW q, IsSequence(q.name), q.name # <<>>, IsSequence(q.from)
    PROVE  LET names == Candidates(q.name, q.from)
           IN  /\ Len(PathsOf(q)) = Len(names)
               /\ \A i \in 1 .. Len(names) :
                     PathsOf(q)[i] = Path(names[i], q.count, q.attribute)
<1> DEFINE names == Candidates(q.name, q.from)
           f == [i \in DOMAIN names |-> Path(names[i], q.count, q.attribute)]
<1>1. IsSequence(names)
  BY CandidateFacts
<1>2. PathsOf(q) = <<>> \o f
  BY DEF PathsOf
<1>3. DOMAIN names = 1 .. Len(names) /\ Len(names) \in Nat
  BY <1>1 DEF IsSequence
<1>4. f \in Seq({f[i] : i \in 1 .. Len(names)}) /\ Len(f) = Len(names)
  <2> HIDE DEF names
  <2>1. f \in [1 .. Len(names) -> {f[i] : i \in 1 .. Len(names)}]
    BY <1>3
  <2> HIDE DEF f
  <2> QED BY <1>3, <2>1
<1> HIDE DEF f
<1>5. PathsOf(q) = f
  BY <1>2, <1>4, ConcatEmptySeq
<1> QED
  BY <1>3, <1>4, <1>5 DEF f

---------------------------------------------------------------------------
(* What is declared is well made: a name, and parameters and bases if it   *)
(* is a class.                                                             *)
WellMade(t) ==
    /\ IsSequence(t.full) /\ t.full # <<>> /\ IsSequence(t.base)
    /\ t.params \in Nat /\ t.optional \in 0 .. t.params
    /\ t.is # "class" => t.params = 0 /\ t.base = <<>>

AllPaths(t) == TypePaths(t) \cup AttributePaths(t)

(* The files are those of the types that are saved, each under its paths.  *)
FilesInv ==
    /\ \E p \in Projects : api = p.api
    /\ \A t \in declared : WellMade(t)
    /\ \A t \in saved : AllPaths(t) \subseteq DOMAIN files
    /\ \A p \in DOMAIN files : p \in AllPaths(files[p])
    /\ phase \notin {"api", "scan"} => saved = declared

(* What a lookup has found: what is stored under one of its paths, or      *)
(* nothing, and then there is nothing under any.                           *)
Finds(q, u) ==
    \/ u = NoType /\ \A i \in 1 .. Len(PathsOf(q)) : Stored(PathsOf(q)[i]) = NoType
    \/ u # NoType /\ \E i \in 1 .. Len(PathsOf(q)) : Stored(PathsOf(q)[i]) = u

AnswerInv ==
    \/ answer = Unasked
    \/ phase = "bind" /\ answer.query \in Queries /\ Finds(answer.query, answer.found)

(* A type is not the absence of one.                                       *)
LEMMA NotNothing == ASSUME NEW t, WellMade(t) PROVE t # NoType
BY DEF WellMade, NoType

(* The empty name.                                                         *)
LEMMA NoNames == IsSequence(<<>>)
BY EmptySequence DEF IsSequence

(* A name of one part.                                                     *)
LEMMA OneName == ASSUME NEW x PROVE IsSequence(<<x>>) /\ <<x>> # <<>>
BY Singleton, EmptySequence DEF IsSequence

(* An enum of the engine's api is a type.                                  *)
LEMMA EnumIsMade ==
    ASSUME NEW e, IsSequence(e.name), NEW s, IsSequence(s), s # <<>>, NEW h
    PROVE  WellMade(EnumType(e, s, h)) /\ EnumType(e, s, h).attributes = {}
<1>1. IsSequence(s \o e.name) /\ s \o e.name # <<>>
  <2>1. /\ s \o e.name \in Seq(ToSet(s \o e.name)) /\ Len(s) \in Nat /\ Len(e.name) \in Nat
        /\ Len(s \o e.name) = Len(s) + Len(e.name)
    BY Concatenated DEF IsSequence
  <2>2. Len(s) # 0
    BY EmptySeq DEF IsSequence
  <2>3. Len(s \o e.name) # 0
    BY <2>1, <2>2
  <2> QED BY <2>1, <2>3, EmptySequence DEF IsSequence
<1> QED
  BY <1>1, NoNames DEF WellMade, EnumType, Type

(* A name of two parts.                                                    *)
LEMMA TwoNames == ASSUME NEW x, NEW y PROVE IsSequence(<<x, y>>) /\ <<x, y>> # <<>>
<1>1. <<x, y>> \in Seq({x, y}) /\ Len(<<x, y>>) = 2
  OBVIOUS
<1> QED BY <1>1, OwnSequence, EmptySequence DEF IsSequence

(* The types of the engine are well made, and have no attributes.          *)
LEMMA ApiIsMade ==
    ASSUME \E p \in Projects : api = p.api, NEW t \in ApiTypes
    PROVE  WellMade(t) /\ t.attributes = {}
<1>1. /\ \A c \in api.builtin_classes \cup api.classes : \A e \in c.enums : IsSequence(e.name)
      /\ \A e \in api.global_enums : IsSequence(e.name)
  BY ProjectsAssumption
<1>2. ASSUME NEW c \in api.builtin_classes \cup api.classes, t \in ClassTypes(c)
      PROVE  WellMade(t) /\ t.attributes = {}
  <2> DEFINE header == include_paths[CanonicalName(c.name)]
             base == IF c.inherits = <<>> THEN <<>> ELSE <<c.inherits>>
             full == <<Godot, c.name>>
  <2>1. \/ t = Type(full, 0, 0, "class", base, header)
        \/ \E e \in c.enums : t = EnumType(e, full, header)
    BY <1>2 DEF ClassTypes
  <2>2. IsSequence(full) /\ full # <<>>
    BY TwoNames
  <2> HIDE DEF full, header, base
  <2>3. ASSUME t = Type(full, 0, 0, "class", base, header)
        PROVE  WellMade(t) /\ t.attributes = {}
    BY <2>2, <2>3, NoNames, OneName DEF WellMade, Type, base
  <2>4. ASSUME NEW e \in c.enums, t = EnumType(e, full, header)
        PROVE  WellMade(t) /\ t.attributes = {}
    BY <1>1, <2>2, <2>4, EnumIsMade
  <2> QED BY <2>1, <2>3, <2>4
<1>3. ASSUME t \in CoreTypes PROVE WellMade(t) /\ t.attributes = {}
  <2>1. ASSUME NEW c \in CoreClasses,
               t = Type(<<Godot, c.name>>, c.params, c.optional, "class", <<>>,
                        include_paths[CanonicalName(c.name)])
        PROVE  WellMade(t) /\ t.attributes = {}
    <3>1. IsSequence(t.full) /\ t.full # <<>>
      BY <2>1, TwoNames DEF Type
    <3>2. /\ t.params = c.params /\ t.optional = c.optional /\ t.is = "class"
          /\ t.attributes = {}
      BY <2>1 DEF Type
    <3>3. IsSequence(t.base)
      BY <2>1, NoNames DEF Type
    <3> QED BY <3>1, <3>2, <3>3, CoreAssumption DEF WellMade
  <2>2. ASSUME NEW o \in CoreOthers, t = Type(o.full, 0, 0, o.is, <<>>, NoHeader)
        PROVE  WellMade(t) /\ t.attributes = {}
    BY <2>2, CoreAssumption, NoNames DEF WellMade, Type
  <2> QED BY <1>3, <2>1, <2>2 DEF CoreTypes
<1>4. ASSUME NEW e \in api.global_enums, t = EnumType(e, <<Godot>>, NoHeader)
      PROVE  WellMade(t) /\ t.attributes = {}
  BY <1>1, <1>4, OneName, EnumIsMade
<1>5. \/ \E e \in api.global_enums : t = EnumType(e, <<Godot>>, NoHeader)
      \/ \E c \in api.builtin_classes \cup api.classes : t \in ClassTypes(c)
      \/ t \in CoreTypes
  <2>1. t \in {EnumType(e, <<Godot>>, NoHeader) : e \in api.global_enums}
              \cup (UNION {ClassTypes(c) : c \in {b \in api.builtin_classes : ~ClassFails(b)}})
              \cup (UNION {ClassTypes(c) : c \in api.classes})
              \cup CoreTypes
    BY DEF ApiTypes
  <2>2. \A T : t \in UNION {ClassTypes(c) : c \in T} => \E c \in T : t \in ClassTypes(c)
    OBVIOUS
  <2>3. t \in {EnumType(e, <<Godot>>, NoHeader) : e \in api.global_enums} =>
           \E e \in api.global_enums : t = EnumType(e, <<Godot>>, NoHeader)
    OBVIOUS
  <2>4. t \in UNION {ClassTypes(c) : c \in {b \in api.builtin_classes : ~ClassFails(b)}} =>
           \E c \in api.builtin_classes : t \in ClassTypes(c)
    BY <2>2
  <2>5. t \in UNION {ClassTypes(c) : c \in api.classes} =>
           \E c \in api.classes : t \in ClassTypes(c)
    BY <2>2
  <2>6. t \in {EnumType(e, <<Godot>>, NoHeader) : e \in api.global_enums}
        \/ t \in UNION {ClassTypes(c) : c \in {b \in api.builtin_classes : ~ClassFails(b)}}
        \/ t \in UNION {ClassTypes(c) : c \in api.classes}
        \/ t \in CoreTypes
    BY <2>1, Zenon
  <2> QED BY <2>3, <2>4, <2>5, <2>6, SMT
<1> QED
  BY <1>2, <1>3, <1>4, <1>5

(* The files and the answer are in order at the start.                     *)
LEMMA FilesInit == Init => FilesInv /\ AnswerInv
<1> SUFFICES ASSUME Init PROVE FilesInv /\ AnswerInv
  OBVIOUS
<1>1. PICK p \in Projects : api = p.api /\ declared = p.types
  BY DEF Init
<1>3. /\ saved = {} /\ DOMAIN files = {} /\ phase = "api" /\ answer = Unasked
  BY DEF Init
<1>2. \A t \in declared : WellMade(t)
  BY <1>1, ProjectsAssumption DEF WellMade
<1>4. FilesInv
  BY <1>1, <1>2, <1>3 DEF FilesInv
<1>5. AnswerInv
  BY <1>3 DEF AnswerInv
<1> QED
  BY <1>4, <1>5

(* Every step saves types as they are declared.                            *)
LEMMA FilesStep == LookupInv /\ FilesInv /\ [Next]_vars => FilesInv'
<1> SUFFICES ASSUME LookupInv, FilesInv, [Next]_vars PROVE FilesInv'
  OBVIOUS
<1> USE DEF apiVars
<1>1. ASSUME UNCHANGED <<api, declared, saved, files>>,
             phase' = phase \/ phase \notin {"api", "scan"}
      PROVE  FilesInv'
  BY <1>1 DEF FilesInv, AllPaths, TypePaths, AttributePaths, Counts, Path, WellMade
<1>2. CASE ParseApi
  <2>1. /\ api' = api /\ declared' = declared \cup ApiTypes /\ saved' = ApiTypes
        /\ files' = [p \in UNION {TypePaths(t) : t \in ApiTypes} |->
                        CHOOSE t \in ApiTypes : p \in TypePaths(t)]
        /\ phase' = "scan"
    BY <1>2 DEF ParseApi
  <2>2. \A t \in ApiTypes : WellMade(t) /\ AllPaths(t) = TypePaths(t)
    <3>1. \A t \in ApiTypes : WellMade(t) /\ t.attributes = {}
      BY ApiIsMade DEF FilesInv
    <3> QED BY <3>1 DEF AllPaths, AttributePaths
  <2>3. \A p \in DOMAIN files' : p \in TypePaths(files'[p]) /\ files'[p] \in ApiTypes
    BY <2>1
  <2>4. \A t \in ApiTypes : TypePaths(t) \subseteq DOMAIN files'
    BY <2>1
  <2>5. \A t \in declared' : WellMade(t)
    BY <2>1, <2>2 DEF FilesInv
  <2> QED BY <2>1, <2>2, <2>3, <2>4, <2>5 DEF FilesInv
<1>3. ASSUME NEW t \in declared, Save(t) PROVE FilesInv'
  <2>1. /\ api' = api /\ declared' = declared /\ saved' = saved \cup {t} /\ phase' = phase
        /\ phase = "scan"
        /\ files' = [p \in DOMAIN files \cup AllPaths(t) |->
                        IF p \in AllPaths(t) THEN t ELSE files[p]]
    BY <1>3 DEF Save, AllPaths
  <2>2. \A u \in saved' : AllPaths(u) \subseteq DOMAIN files'
    BY <2>1 DEF FilesInv
  <2>3. \A p \in DOMAIN files' : p \in AllPaths(files'[p])
    BY <2>1 DEF FilesInv
  <2> QED BY <2>1, <2>2, <2>3 DEF FilesInv
<1>4. CASE ScanEnds
  BY <1>4 DEF ScanEnds, FilesInv, AllPaths, TypePaths, AttributePaths, Counts, Path, WellMade
<1>5. ASSUME NEW f, ListHeader(f) PROVE FilesInv'
  BY <1>1, <1>5 DEF ListHeader, IncludeFile
<1>6. ASSUME NEW t \in declared, AskBase(t) PROVE FilesInv'
  BY <1>1, <1>6 DEF AskBase
<1>7. ASSUME NEW n \in Assumed, Validate(n) PROVE FilesInv'
  BY <1>1, <1>7 DEF Validate
<1>8. ASSUME NEW q \in Queries, LookUp(q) PROVE FilesInv'
  BY <1>1, <1>8 DEF LookUp
<1>9. CASE BaseFound \/ NoBase \/ NextBase
  BY <1>1, <1>9 DEF BaseFound, NoBase, NextBase
<1>10. CASE Ended \/ UNCHANGED vars
  BY <1>1, <1>10 DEF Ended, vars
<1> QED
  BY <1>2, <1>3, <1>4, <1>5, <1>6, <1>7, <1>8, <1>9, <1>10 DEF Next

---------------------------------------------------------------------------
(* What is stored under a path is in one of the files the path stands for. *)
LEMMA StoredFacts ==
    ASSUME TypeOK, FilesInv, NEW p
    PROVE  /\ p \in DOMAIN files => Stored(p) = files[p] /\ Stored(p) # NoType
           /\ \A i \in DOMAIN Usings :
                 Through(Usings[i], p) \in DOMAIN files => Stored(p) # NoType
           /\ Stored(p) # NoType =>
                 \/ p \in DOMAIN files /\ Stored(p) = files[p]
                 \/ \E i \in DOMAIN Usings : /\ Through(Usings[i], p) \in DOMAIN files
                                             /\ Stored(p) = files[Through(Usings[i], p)]
<1> DEFINE via == {i \in DOMAIN Usings : Through(Usings[i], p) \in DOMAIN files}
<1>1. \A x \in DOMAIN files : files[x] # NoType
  <2>1. \A x \in DOMAIN files : WellMade(files[x])
    BY DEF TypeOK, FilesInv
  <2> QED BY <2>1, NotNothing
<1>2. via # {} => FirstOf(via) \in via
  <2>1. via \in SUBSET Nat
    BY UsingsAssumption DEF IsSequence
  <2> HIDE DEF via
  <2> QED
    BY <2>1, LeastOf DEF FirstOf
<1>3. Stored(p) = IF p \in DOMAIN files THEN files[p]
                  ELSE IF via # {} THEN files[Through(Usings[FirstOf(via)], p)] ELSE NoType
  BY DEF Stored
<1>4. \A i : i \in via <=> i \in DOMAIN Usings /\ Through(Usings[i], p) \in DOMAIN files
  OBVIOUS
<1> HIDE DEF via
<1>5. CASE p \in DOMAIN files
  BY <1>1, <1>3, <1>5
<1>6. CASE p \notin DOMAIN files /\ via # {}
  BY <1>1, <1>2, <1>3, <1>4, <1>6
<1>7. CASE p \notin DOMAIN files /\ via = {}
  BY <1>3, <1>4, <1>7
<1> QED
  BY <1>5, <1>6, <1>7

(* A type is saved for the numbers of arguments it can take.               *)
LEMMA CountsTakes ==
    ASSUME NEW t, WellMade(t), NEW n \in Nat
    PROVE  n \in Counts(t) <=> Takes(t, n)
BY DEF WellMade, Counts, Takes

(* What a type's path says of the type.                                    *)
LEMMA OnPath ==
    ASSUME NEW u, WellMade(u), NEW p, p \in AllPaths(u)
    PROVE  /\ p.name = u.full /\ p.count \in Nat /\ Takes(u, p.count)
           /\ p.attribute # NoAttribute => p.attribute \in u.attributes
<1>1. PICK n \in Counts(u) :
         p = Path(u.full, n, NoAttribute) \/ \E a \in u.attributes : p = Path(u.full, n, a)
  BY DEF AllPaths, TypePaths, AttributePaths
<1>2. n \in Nat
  BY DEF WellMade, Counts
<1>3. /\ p.name = u.full /\ p.count = n
      /\ p.attribute # NoAttribute => p.attribute \in u.attributes
  BY <1>1 DEF Path
<1> QED
  BY <1>2, <1>3, CountsTakes

(* The paths of a type.                                                    *)
LEMMA ItsPaths ==
    ASSUME NEW t, WellMade(t), NEW n \in Nat, Takes(t, n)
    PROVE  /\ Path(t.full, n, NoAttribute) \in AllPaths(t)
           /\ \A a \in t.attributes : Path(t.full, n, a) \in AllPaths(t)
BY CountsTakes DEF AllPaths, TypePaths, AttributePaths

(* A sequence is a prefix of what it is extended to.                       *)
LEMMA PrefixOfBoth ==
    ASSUME NEW s, IsSequence(s), NEW t, IsSequence(t)
    PROVE  IsPrefix(s, s \o t)
<1>1. /\ s \o t \in Seq(ToSet(s \o t)) /\ Len(s) \in Nat /\ Len(t) \in Nat
      /\ Len(s \o t) = Len(s) + Len(t)
      /\ \A i \in 1 .. Len(s) : (s \o t)[i] = s[i]
  BY Concatenated DEF IsSequence
<1>2. SubSeq(s, 1, Len(s)) = s
  BY OwnScope
<1>3. /\ SubSeq(s \o t, 1, Len(s)) \in Seq(ToSet(SubSeq(s \o t, 1, Len(s))))
      /\ Len(SubSeq(s \o t, 1, Len(s))) = Len(s)
      /\ \A i \in 1 .. Len(s) : SubSeq(s \o t, 1, Len(s))[i] = (s \o t)[i]
  <2>1. 1 \in 1 .. Len(s \o t) + 1 /\ Len(s) \in 0 .. Len(s \o t) /\ 1 <= Len(s) + 1
    BY <1>1
  <2>2. Len(s) - 1 + 1 = Len(s) /\ \A i \in 1 .. Len(s) : 1 + i - 1 = i
    BY <1>1
  <2>3. /\ SubSeq(s \o t, 1, Len(s)) \in Seq(ToSet(SubSeq(s \o t, 1, Len(s))))
        /\ Len(SubSeq(s \o t, 1, Len(s))) = Len(s) - 1 + 1
        /\ \A i \in 1 .. Len(s) - 1 + 1 : SubSeq(s \o t, 1, Len(s))[i] = (s \o t)[1 + i - 1]
    BY <1>1, <2>1, Sliced
  <2> QED BY <2>2, <2>3
<1> DEFINE x == SubSeq(s \o t, 1, Len(s))
<1>4. x = s
  <2>1. IsSequence(x) /\ IsSequence(s) /\ Len(x) = Len(s) /\ \A i \in 1 .. Len(s) : x[i] = s[i]
    BY <1>1, <1>3 DEF IsSequence
  <2> HIDE DEF x
  <2>2. /\ DOMAIN x = 1 .. Len(s) /\ DOMAIN s = 1 .. Len(s)
        /\ x = [i \in DOMAIN x |-> x[i]] /\ s = [i \in DOMAIN s |-> s[i]]
    BY <2>1 DEF IsSequence
  <2> QED BY <2>1, <2>2
<1> QED
  BY <1>1, <1>2, <1>4 DEF IsPrefix

(* What is found under a path of a query is a type of that name.           *)
LEMMA HitIsNamesake ==
    ASSUME TypeOK, FilesInv, NEW q, IsSequence(q.name), q.name # <<>>, IsSequence(q.from),
           q.count \in Nat,
           NEW i \in 1 .. Len(PathsOf(q)), NEW u, u = Stored(PathsOf(q)[i]), u # NoType
    PROVE  /\ u \in saved /\ Last(u.full) = Last(q.name)
           /\ q.attribute # NoAttribute => q.attribute \in u.attributes
           /\ \/ Takes(u, q.count)
              \/ q.attribute # NoAttribute /\ UnderUsing(u) /\ Takes(u, 0)
           /\ q.attribute = NoAttribute =>
                 LET p == Path(u.full, q.count, NoAttribute)
                 IN  p \in DOMAIN files /\ files[p] = u
<1> DEFINE name == Candidates(q.name, q.from)[i]
           p == Path(name, q.count, q.attribute)
<1>1. PathsOf(q)[i] = p
  BY PathsFacts
<1>2. IsSequence(name) /\ name # <<>> /\ Last(name) = Last(q.name)
  BY PathsFacts, CandidateFacts
<1> HIDE DEF name
<1>3. p.name = name /\ p.count = q.count /\ p.attribute = q.attribute
  BY DEF Path
<1>4. \A x \in DOMAIN files : /\ files[x] \in saved /\ WellMade(files[x])
                              /\ x \in AllPaths(files[x])
  BY DEF TypeOK, FilesInv
<1>5. CASE p \in DOMAIN files /\ u = files[p]
  <2>1. u \in saved /\ p.name = u.full /\ Takes(u, p.count)
        /\ (p.attribute # NoAttribute => p.attribute \in u.attributes)
    BY <1>4, <1>5, OnPath
  <2> QED BY <1>2, <1>3, <1>5, <2>1
<1>6. ASSUME NEW j \in DOMAIN Usings, Through(Usings[j], p) \in DOMAIN files,
             u = files[Through(Usings[j], p)]
      PROVE  /\ u \in saved /\ Last(u.full) = Last(q.name)
             /\ q.attribute # NoAttribute => q.attribute \in u.attributes
             /\ \/ Takes(u, q.count)
                \/ q.attribute # NoAttribute /\ UnderUsing(u) /\ Takes(u, 0)
             /\ q.attribute = NoAttribute =>
                   LET r == Path(u.full, q.count, NoAttribute)
                   IN  r \in DOMAIN files /\ files[r] = u
  <2> DEFINE r == Through(Usings[j], p)
  <2>1. /\ r = Path(Usings[j] \o name, r.count, q.attribute)
        /\ r.name = Usings[j] \o name /\ r.attribute = q.attribute
        /\ r.count = IF q.attribute = NoAttribute THEN q.count ELSE 0
    BY <1>3 DEF Through, Path
  <2>2. /\ u \in saved /\ r.name = u.full /\ Takes(u, r.count)
        /\ (r.attribute # NoAttribute => r.attribute \in u.attributes)
    BY <1>4, <1>6, OnPath
  <2>3. IsSequence(Usings[j])
    BY UsingsAssumption DEF ToSet
  <2>4. Last(u.full) = Last(q.name) /\ IsPrefix(Usings[j], u.full)
    <3>1. u.full = Usings[j] \o name
      BY <2>1, <2>2, Zenon
    <3>2. Last(Usings[j] \o name) = Last(name) /\ IsPrefix(Usings[j], Usings[j] \o name)
      BY <1>2, <2>3, LastOfBoth, PrefixOfBoth
    <3> QED BY <1>2, <3>1, <3>2, Zenon
  <2> QED BY <1>6, <2>1, <2>2, <2>4 DEF UnderUsing
<1>7. \/ p \in DOMAIN files /\ u = files[p]
      \/ \E j \in DOMAIN Usings : /\ Through(Usings[j], p) \in DOMAIN files
                                  /\ u = files[Through(Usings[j], p)]
  BY <1>1, StoredFacts
<1> QED
  BY <1>5, <1>6, <1>7

(* What C++ finds is declared under a name that the lookup tries, or under *)
(* that of a using directive and the name.                                 *)
CppNames(name, from) ==
    {SubSeq(CppScope(from), 1, k) \o name : k \in 0 .. Len(CppScope(from))}
    \cup {Usings[i] \o name : i \in DOMAIN Usings}

(* C++ finds nothing at any level, or a type of one of them.               *)
LEMMA CppChosen ==
    ASSUME NEW name, NEW n, NEW from, IsSequence(CppScope(from))
    PROVE  LET scope == CppScope(from)
           IN  \/ /\ Cpp(name, n, from) = NoType
                  /\ \A k \in 0 .. Len(scope) : CppLevel(name, n, scope, k) = {}
               \/ \E k \in 0 .. Len(scope) : Cpp(name, n, from) \in CppLevel(name, n, scope, k)
<1> DEFINE scope == CppScope(from)
           Level(k) == CppLevel(name, n, scope, k)
           found == {k \in 0 .. Len(scope) : Level(k) # {}}
<1>1. Cpp(name, n, from) = IF found = {} THEN NoType ELSE AnyOf(Level(Max(found)))
  BY DEF Cpp
<1>2. CASE found = {}
  BY <1>1, <1>2
<1>3. CASE found # {}
  <2>1. Len(scope) \in Nat
    BY DEF IsSequence
  <2> DEFINE rest == {m \in 0 .. Len(scope) : \E k \in found : m = Len(scope) - k}
  <2>2. rest \in SUBSET Nat /\ \A k \in found : Len(scope) - k \in rest
    BY <2>1
  <2>3. \A m \in rest : \E k \in found : m = Len(scope) - k
    OBVIOUS
  <2>4. found \in SUBSET (0 .. Len(scope)) /\ \A k \in found : Level(k) # {}
    OBVIOUS
  <2> HIDE DEF rest, found, scope, Level
  <2>5. PICK m \in rest : \A k \in rest : m <= k
    BY <1>3, <2>2, LeastOf
  <2>6. PICK k \in found : m = Len(scope) - k
    BY <2>3
  <2>7. \A j \in found : k >= j
    <3>1. TAKE j \in found
    <3>2. Len(scope) - k <= Len(scope) - j
      BY <2>2, <2>5, <2>6
    <3> QED BY <2>1, <2>4, <3>2
  <2>8. Max(found) \in found
    BY <2>7 DEF Max
  <2>9. Level(Max(found)) # {}
    BY <2>4, <2>8
  <2>10. AnyOf(Level(Max(found))) \in Level(Max(found))
    BY <2>9 DEF AnyOf
  <2>11. Cpp(name, n, from) \in Level(Max(found)) /\ Max(found) \in 0 .. Len(scope)
    BY <1>1, <1>3, <2>4, <2>8, <2>10
  <2> QED
    BY <2>11 DEF Level, scope
<1> QED
  BY <1>2, <1>3

(* What C++ finds is declared under one of the names it tries.             *)
LEMMA CppFacts ==
    ASSUME NEW name, NEW n, NEW from, IsSequence(CppScope(from)),
           NEW t, t = Cpp(name, n, from), t # NoType
    PROVE  /\ t \in declared /\ Takes(t, n)
           /\ t.full \in CppNames(name, from)
<1> DEFINE scope == CppScope(from)
<1>1. PICK k \in 0 .. Len(scope) : t \in CppLevel(name, n, scope, k)
  BY CppChosen
<1>2. \A full : t \in Named(full, n) => t \in declared /\ t.full = full /\ Takes(t, n)
  BY DEF Named
<1>3. CASE t \in Named(SubSeq(scope, 1, k) \o name, n)
  BY <1>2, <1>3 DEF CppNames
<1>4. CASE t \notin Named(SubSeq(scope, 1, k) \o name, n)
  <2>1. t \in UNION {Named(Usings[i] \o name, n) : i \in DOMAIN Usings}
    BY <1>1, <1>4 DEF CppLevel
  <2>2. PICK i \in DOMAIN Usings : t \in Named(Usings[i] \o name, n)
    BY <2>1
  <2> QED BY <1>2, <2>2 DEF CppNames
<1> QED
  BY <1>3, <1>4

(* ... and so it is called what the name calls it.                         *)
LEMMA CppIsNamesake ==
    ASSUME NEW name, IsSequence(name), name # <<>>, NEW from, IsSequence(CppScope(from)),
           NEW n, NEW t, t = Cpp(name, n, from), t # NoType
    PROVE  Last(t.full) = Last(name)
<1>1. \A s : IsSequence(s) => Last(s \o name) = Last(name)
  BY LastOfBoth
<1>2. ASSUME NEW k \in 0 .. Len(CppScope(from)) PROVE IsSequence(SubSeq(CppScope(from), 1, k))
  <2>1. 1 \in 1 .. Len(CppScope(from)) + 1 /\ 1 <= k + 1
    BY DEF IsSequence
  <2> QED BY <2>1, Sliced DEF IsSequence
<1>3. \A i \in DOMAIN Usings : IsSequence(Usings[i])
  BY UsingsAssumption DEF ToSet
<1>4. \/ \E k \in 0 .. Len(CppScope(from)) : t.full = SubSeq(CppScope(from), 1, k) \o name
      \/ \E i \in DOMAIN Usings : t.full = Usings[i] \o name
  <2>1. t.full \in CppNames(name, from)
    BY CppFacts
  <2> QED BY <2>1 DEF CppNames
<1>5. ASSUME NEW k \in 0 .. Len(CppScope(from)), t.full = SubSeq(CppScope(from), 1, k) \o name
      PROVE  Last(t.full) = Last(name)
  BY <1>1, <1>2, <1>5
<1>6. ASSUME NEW i \in DOMAIN Usings, t.full = Usings[i] \o name
      PROVE  Last(t.full) = Last(name)
  BY <1>1, <1>3, <1>6
<1> QED BY <1>4, <1>5, <1>6

(* A query that may be asked.                                              *)
Asked(q) ==
    /\ IsSequence(q.name) /\ q.name # <<>> /\ IsSequence(q.from) /\ q.count \in Nat
    /\ IsSequence(CppScope(q.from))

(* A query is asked with a name, a count and a scope.                      *)
LEMMA QueryFacts ==
    ASSUME NEW q \in Queries
    PROVE  /\ Asked(q)
           /\ \A name : [q EXCEPT !.name = name] = Query(name, q.count, q.attribute, q.from)
<1>1. /\ IsSequence(q.name) /\ q.name # <<>> /\ IsSequence(q.from) /\ q.count \in Nat
      /\ q = Query(q.name, q.count, q.attribute, q.from)
  BY QueriesAssumption
<1>2. IsSequence(CppScope(q.from))
  BY <1>1, EmptySequence DEF CppScope, IsSequence
<1>3. \A name : [q EXCEPT !.name = name] = Query(name, q.count, q.attribute, q.from)
  BY <1>1 DEF Query
<1> QED
  BY <1>1, <1>2, <1>3 DEF Asked

(* The name in its scope is under some path of the query, or behind one.   *)
LEMMA Reached ==
    ASSUME TypeOK, FilesInv, NEW q, Asked(q), NEW t \in saved, WellMade(t),
           Path(t.full, q.count, q.attribute) \in AllPaths(t),
           t = Cpp(q.name, q.count, q.from),
           q.attribute = NoAttribute \/ q.count = 0 \/ ~UnderUsing(t)
    PROVE  \E i \in 1 .. Len(PathsOf(q)) : Stored(PathsOf(q)[i]) # NoType
<1> DEFINE p == Path(t.full, q.count, q.attribute)
           scope == CppScope(q.from)
           names == Candidates(q.name, q.from)
<1>1. p \in DOMAIN files
  BY DEF FilesInv
<1>2. /\ IsSequence(names) /\ Len(names) >= 1 /\ names[1] = q.name
      /\ \A k \in 0 .. Len(scope) : \E i \in 1 .. Len(names) :
            names[i] = SubSeq(scope, 1, k) \o q.name
      /\ Len(PathsOf(q)) = Len(names)
      /\ \A i \in 1 .. Len(names) : PathsOf(q)[i] = Path(names[i], q.count, q.attribute)
  BY CandidateFacts, PathsFacts DEF Asked
<1>3. \/ \E k \in 0 .. Len(scope) : t.full = SubSeq(scope, 1, k) \o q.name
      \/ \E j \in DOMAIN Usings : t.full = Usings[j] \o q.name
  <2>1. t # NoType /\ IsSequence(CppScope(q.from))
    BY NotNothing DEF Asked
  <2>2. t.full \in CppNames(q.name, q.from)
    BY <2>1, CppFacts
  <2> QED BY <2>2 DEF CppNames
<1> HIDE DEF names, scope
<1>4. ASSUME NEW k \in 0 .. Len(scope), t.full = SubSeq(scope, 1, k) \o q.name
      PROVE  \E i \in 1 .. Len(PathsOf(q)) : Stored(PathsOf(q)[i]) # NoType
  <2>1. PICK i \in 1 .. Len(names) : names[i] = SubSeq(scope, 1, k) \o q.name
    BY <1>2
  <2>2. PathsOf(q)[i] = p
    BY <1>2, <1>4, <2>1
  <2>3. Stored(p) # NoType
    BY <1>1, StoredFacts
  <2> QED BY <1>2, <2>2, <2>3
<1>5. ASSUME NEW j \in DOMAIN Usings, t.full = Usings[j] \o q.name
      PROVE  \E i \in 1 .. Len(PathsOf(q)) : Stored(PathsOf(q)[i]) # NoType
  <2>1. 1 \in 1 .. Len(names) /\ PathsOf(q)[1] = Path(q.name, q.count, q.attribute)
    <3>1. Len(names) \in Nat
      BY <1>2 DEF IsSequence
    <3> QED BY <1>2, <3>1
  <2>2. IsSequence(Usings[j])
    BY UsingsAssumption DEF ToSet
  <2>3. UnderUsing(t)
    BY <1>5, <2>2, PrefixOfBoth DEF UnderUsing, Asked
  <2>4. Through(Usings[j], Path(q.name, q.count, q.attribute)) = p
    BY <1>5, <2>3 DEF Through, Path
  <2>5. Stored(Path(q.name, q.count, q.attribute)) # NoType
    BY <1>1, <2>4, StoredFacts
  <2> QED BY <1>2, <2>1, <2>5
<1> QED
  BY <1>3, <1>4, <1>5

(* Found under one of the paths, or nothing is under any: nothing else is  *)
(* asked of which one is taken, for a namesake is the type itself.         *)
LEMMA FoundFacts ==
    ASSUME Exact, NEW q
    PROVE  Finds(q, Find(q))
<1>1. \A p : Known(p) = Stored(p)
  BY KnownIsStored
<1>2. CASE Hit(q) = 0
  BY <1>1, <1>2, HitFacts DEF Finds, Find
<1>3. CASE Hit(q) # 0
  <2>1. Hit(q) \in 1 .. Len(PathsOf(q)) /\ Known(PathsOf(q)[Hit(q)]) # NoType
    BY <1>3, HitFacts
  <2> QED BY <1>1, <1>3, <2>1 DEF Finds, Find
<1> QED
  BY <1>2, <1>3

(* Every step answers with what the lookup finds, or not at all.           *)
LEMMA AnswerStep == LookupInv /\ FilesInv /\ AnswerInv /\ [Next]_vars => AnswerInv'
<1> SUFFICES ASSUME LookupInv, FilesInv, AnswerInv, [Next]_vars PROVE AnswerInv'
  OBVIOUS
<1>1. ASSUME UNCHANGED <<files, phase, answer>> PROVE AnswerInv'
  <2>1. \A p : Stored(p)' = Stored(p)
    BY <1>1 DEF Stored
  <2>2. \A q, u : Finds(q, u)' <=> Finds(q, u)
    BY <2>1 DEF Finds
  <2> QED BY <1>1, <2>2 DEF AnswerInv
<1>2. ASSUME phase # "bind", answer' = answer PROVE AnswerInv'
  BY <1>2 DEF AnswerInv
<1>3. ASSUME NEW q \in Queries, LookUp(q) PROVE AnswerInv'
  <2>1. /\ phase' = "bind" /\ files' = files
        /\ answer'.query = q /\ answer'.found = Find(q)
    BY <1>3 DEF LookUp
  <2>2. Finds(q, Find(q))
    BY FoundFacts DEF LookupInv
  <2>3. \A p : Stored(p)' = Stored(p)
    BY <2>1 DEF Stored
  <2>4. \A r, u : Finds(r, u)' <=> Finds(r, u)
    BY <2>3 DEF Finds
  <2> QED BY <2>1, <2>2, <2>4 DEF AnswerInv
<1>4. ASSUME NEW t \in declared, AskBase(t) PROVE AnswerInv'
  BY <1>4 DEF AskBase, AnswerInv
<1>5. ASSUME NEW f, ListHeader(f) PROVE AnswerInv'
  BY <1>2, <1>5 DEF ListHeader
<1>6. CASE ParseApi \/ ScanEnds
  BY <1>2, <1>6 DEF ParseApi, ScanEnds
<1>7. ASSUME NEW t \in declared, Save(t) PROVE AnswerInv'
  BY <1>2, <1>7 DEF Save
<1>8. ASSUME NEW n \in Assumed, Validate(n) PROVE AnswerInv'
  BY <1>2, <1>8 DEF Validate
<1>9. CASE BaseFound \/ NoBase \/ NextBase
  BY <1>1, <1>9 DEF BaseFound, NoBase, NextBase
<1>10. CASE Ended \/ UNCHANGED vars
  BY <1>1, <1>10 DEF Ended, vars
<1> QED
  BY <1>3, <1>4, <1>5, <1>6, <1>7, <1>8, <1>9, <1>10 DEF Next

(* What is found is a namesake ...                                         *)
LEMMA FoundIsNamesake ==
    ASSUME TypeOK, FilesInv, NEW q, Asked(q), NEW found, found # NoType, Finds(q, found)
    PROVE  /\ found \in saved /\ Last(found.full) = Last(q.name)
           /\ q.attribute # NoAttribute => q.attribute \in found.attributes
           /\ \/ Takes(found, q.count)
              \/ q.attribute # NoAttribute /\ UnderUsing(found) /\ Takes(found, 0)
           /\ q.attribute = NoAttribute =>
                 LET p == Path(found.full, q.count, NoAttribute)
                 IN  p \in DOMAIN files /\ files[p] = found
<1>1. PICK i \in 1 .. Len(PathsOf(q)) : Stored(PathsOf(q)[i]) = found
  BY DEF Finds
<1> QED
  BY <1>1, HitIsNamesake DEF Asked

(* ... and so, if there is but one, what C++ finds.                        *)
LEMMA FoundIsMeant ==
    ASSUME TypeOK, FilesInv, saved = declared, NoHomonyms,
           NEW q, Asked(q), NEW found, Finds(q, found),
           NEW t, t = Cpp(q.name, q.count, q.from), t # NoType
    PROVE  IF q.attribute = NoAttribute THEN found = t
           ELSE \/ found = IF q.attribute \in t.attributes THEN t ELSE NoType
                \/ q.count > 0 /\ IF found = NoType THEN UnderUsing(t)
                                   ELSE UnderUsing(found) /\ Takes(found, 0)
<1>asked. /\ IsSequence(q.name) /\ q.name # <<>> /\ IsSequence(q.from) /\ q.count \in Nat
      /\ IsSequence(CppScope(q.from))
  BY DEF Asked
<1>namesake. found # NoType =>
         /\ found \in saved /\ Last(found.full) = Last(q.name)
         /\ q.attribute # NoAttribute => q.attribute \in found.attributes
         /\ \/ Takes(found, q.count)
            \/ q.attribute # NoAttribute /\ UnderUsing(found) /\ Takes(found, 0)
  BY FoundIsNamesake
<1>1. t \in declared /\ Takes(t, q.count) /\ t.full \in CppNames(q.name, q.from)
  BY <1>asked, CppFacts
<1>2. WellMade(t) /\ t \in saved
  BY <1>1 DEF FilesInv
<1>3. Last(t.full) = Last(q.name)
  BY <1>asked, CppIsNamesake
<1>4. ASSUME found # NoType, Takes(found, q.count) PROVE found = t
  <2>1. found \in declared /\ Last(found.full) = Last(t.full)
    BY <1>namesake, <1>3, <1>4
  <2>2. q.count \in 0 .. t.params
    BY <1>asked, <1>1, <1>2 DEF Takes, WellMade
  <2> QED BY <1>1, <1>4, <2>1, <2>2 DEF NoHomonyms
<1>5. ASSUME Path(t.full, q.count, q.attribute) \in AllPaths(t),
             q.attribute = NoAttribute \/ q.count = 0 \/ ~UnderUsing(t)
      PROVE  found # NoType
  <2>1. \E i \in 1 .. Len(PathsOf(q)) : Stored(PathsOf(q)[i]) # NoType
    BY <1>2, <1>5, Reached
  <2> QED BY <2>1 DEF Finds
<1>6. CASE q.attribute = NoAttribute
  <2>1. Path(t.full, q.count, q.attribute) \in AllPaths(t)
    BY <1>asked, <1>1, <1>2, <1>6, ItsPaths
  <2>2. found # NoType
    BY <1>5, <1>6, <2>1
  <2> QED BY <1>namesake, <1>4, <1>6, <2>2
<1>7. CASE q.attribute # NoAttribute /\ found = NoType
  <2>1. CASE q.attribute \notin t.attributes
    BY <1>7, <2>1
  <2>2. CASE q.attribute \in t.attributes
    <3>1. Path(t.full, q.count, q.attribute) \in AllPaths(t)
      BY <1>asked, <1>1, <1>2, <2>2, ItsPaths
    <3>2. q.count # 0 /\ UnderUsing(t)
      BY <1>5, <1>7, <3>1
    <3>3. q.count > 0
      BY <1>asked, <3>2
    <3> QED BY <1>7, <3>2, <3>3
  <2> QED BY <2>1, <2>2
<1>8. CASE q.attribute # NoAttribute /\ found # NoType
  <2>1. CASE Takes(found, q.count)
    BY <1>namesake, <1>4, <1>8, <2>1
  <2>2. CASE ~Takes(found, q.count)
    <3>1. UnderUsing(found) /\ Takes(found, 0) /\ q.count # 0
      BY <1>namesake, <1>8, <2>2
    <3>2. q.count > 0
      BY <1>asked, <3>1
    <3> QED BY <1>8, <3>1, <3>2
  <2> QED BY <2>1, <2>2
<1> QED BY <1>6, <1>7, <1>8

(* The invariants say that the answer is what C++ finds.                   *)
LEMMA AnswerIsRight ==
    ASSUME LookupInv, FilesInv, AnswerInv PROVE FindsWhatCppFinds
<1> DEFINE q == answer.query
           found == answer.found
           t == Cpp(q.name, q.count, q.from)
<1> SUFFICES ASSUME answer # Unasked PROVE
        /\ NoHomonyms /\ t # NoType =>
              IF q.attribute = NoAttribute THEN found = t
              ELSE \/ found = IF q.attribute \in t.attributes THEN t ELSE NoType
                   \/ q.count > 0 /\ IF found = NoType THEN UnderUsing(t)
                                      ELSE UnderUsing(found) /\ Takes(found, 0)
        /\ found # NoType /\ q.attribute = NoAttribute =>
              Find([q EXCEPT !.name = found.full]) = found
  BY DEF FindsWhatCppFinds
<1>1. /\ phase = "bind" /\ q \in Queries /\ Finds(q, found) /\ saved = declared
      /\ TypeOK /\ Exact
  BY DEF AnswerInv, FilesInv, LookupInv
<1> HIDE DEF q, found
<1>2. Asked(q)
  BY <1>1, QueryFacts
<1>3. found # NoType =>
         /\ found \in saved
         /\ q.attribute = NoAttribute =>
               LET p == Path(found.full, q.count, NoAttribute)
               IN  p \in DOMAIN files /\ files[p] = found
  BY <1>1, <1>2, FoundIsNamesake
<1>4. NoHomonyms /\ t # NoType =>
         IF q.attribute = NoAttribute THEN found = t
         ELSE \/ found = IF q.attribute \in t.attributes THEN t ELSE NoType
              \/ q.count > 0 /\ IF found = NoType THEN UnderUsing(t)
                                 ELSE UnderUsing(found) /\ Takes(found, 0)
  BY <1>1, <1>2, FoundIsMeant
<1>5. ASSUME found # NoType, q.attribute = NoAttribute
      PROVE  Find([q EXCEPT !.name = found.full]) = found
  <2> DEFINE r == Query(found.full, q.count, NoAttribute, q.from)
             p == Path(found.full, q.count, NoAttribute)
  <2>1. [q EXCEPT !.name = found.full] = r
    BY <1>1, <1>5, QueryFacts
  <2>2. /\ r.name = found.full /\ r.count = q.count /\ r.attribute = NoAttribute
        /\ r.from = q.from
    BY DEF Query
  <2>3. IsSequence(found.full) /\ found.full # <<>>
    BY <1>1, <1>3, <1>5 DEF FilesInv, WellMade
  <2> HIDE DEF r
  <2>4. Len(PathsOf(r)) >= 1 /\ PathsOf(r)[1] = p /\ Len(PathsOf(r)) \in Nat
    <3>1. LET names == Candidates(r.name, r.from)
          IN  /\ IsSequence(names) /\ Len(names) >= 1 /\ names[1] = r.name
              /\ Len(PathsOf(r)) = Len(names)
              /\ \A i \in 1 .. Len(names) :
                    PathsOf(r)[i] = Path(names[i], r.count, r.attribute)
      BY <1>2, <2>2, <2>3, CandidateFacts, PathsFacts DEF Asked
    <3> DEFINE names == Candidates(r.name, r.from)
    <3>2. Len(names) \in Nat
      BY <3>1 DEF IsSequence
    <3> HIDE DEF names
    <3>3. 1 \in 1 .. Len(names)
      BY <3>1, <3>2 DEF names
    <3> QED BY <2>2, <3>1, <3>2, <3>3 DEF names
  <2>5. Known(p) = found
    <3>1. Stored(p) = found
      BY <1>1, <1>3, <1>5, StoredFacts
    <3> QED BY <1>1, <3>1, KnownIsStored
  <2>6. Known(PathsOf(r)[1]) # NoType /\ 1 \in 1 .. Len(PathsOf(r))
    BY <1>5, <2>4, <2>5
  <2>7. Hit(r) = 1
    <3>1. Hit(r) \in 1 .. Len(PathsOf(r)) /\ ~(1 < Hit(r))
      BY <2>6, HitFacts
    <3> QED BY <2>4, <3>1
  <2> QED BY <2>1, <2>4, <2>5, <2>7 DEF Find
<1> QED
  BY <1>4, <1>5

(* TypeDB::get_type_data and get_type_attribute: in a project without      *)
(* namesakes the lookup finds what C++ would find from there, whatever     *)
(* scopes and using directives there are and whatever was looked up        *)
(* before; what is found is found again by its qualified name.             *)
THEOREM FindsRight == Spec => []FindsWhatCppFinds
<1>1. Init => LookupInv /\ FilesInv /\ AnswerInv
  BY LookupInit, FilesInit
<1>2. LookupInv /\ FilesInv /\ AnswerInv /\ [Next]_vars => (LookupInv /\ FilesInv /\ AnswerInv)'
  BY LookupStep, FilesStep, AnswerStep
<1>3. LookupInv /\ FilesInv /\ AnswerInv => FindsWhatCppFinds
  BY AnswerIsRight
<1> QED
  BY <1>1, <1>2, <1>3, PTL DEF Spec

---------------------------------------------------------------------------
(* Bases of bases: after as many steps as there are types none is new.     *)
LEMMA Saturated ==
    ASSUME NEW D, IsFiniteSet(D), NEW N, N = Cardinality(D), NEW none, none \notin D,
           NEW b, \A x \in D : b[x] \in D \cup {none}, NEW t \in D,
           NEW W, W[0] = {t},
           \A i \in 1 .. N : W[i] = W[i - 1] \cup {y \in D : \E x \in W[i - 1] : y = b[x]}
    PROVE  /\ t \in W[N] /\ W[N] \subseteq D
           /\ \A x \in W[N] : b[x] # none => b[x] \in W[N]
           /\ \A S : t \in S /\ (\A x \in S \cap D : b[x] # none => b[x] \in S) =>
                 W[N] \subseteq S
<1>1. N \in Nat
  BY FS_CardinalityType
<1>2. \A i \in 0 .. N : t \in W[i] /\ W[i] \subseteq D
  <2> DEFINE I == {i \in 0 .. N : ~(t \in W[i] /\ W[i] \subseteq D)}
  <2>1. SUFFICES ASSUME I # {} PROVE FALSE
    OBVIOUS
  <2>2. I \in SUBSET Nat /\ \A i \in I : i \in 0 .. N /\ ~(t \in W[i] /\ W[i] \subseteq D)
    BY <1>1
  <2>3. \A i \in 0 .. N : i \notin I => t \in W[i] /\ W[i] \subseteq D
    OBVIOUS
  <2> HIDE DEF I
  <2>4. PICK i \in I : \A k \in I : i <= k
    BY <2>1, <2>2, LeastOf
  <2>5. i \in 1 .. N /\ i - 1 \in 0 .. N /\ i - 1 \notin I
    <3>1. i # 0
      BY <2>2
    <3> QED BY <1>1, <2>2, <2>4, <3>1
  <2> QED BY <2>2, <2>3, <2>5
<1>3. \A S : t \in S /\ (\A x \in S \cap D : b[x] # none => b[x] \in S) => W[N] \subseteq S
  <2>1. SUFFICES ASSUME NEW S, t \in S, \A x \in S \cap D : b[x] # none => b[x] \in S
                 PROVE  W[N] \subseteq S
    OBVIOUS
  <2> DEFINE I == {i \in 0 .. N : ~(W[i] \subseteq S)}
  <2>2. SUFFICES ASSUME I # {} PROVE FALSE
    BY <1>1
  <2>3. I \in SUBSET Nat /\ \A i \in I : i \in 0 .. N /\ ~(W[i] \subseteq S)
    BY <1>1
  <2>4. \A i \in 0 .. N : i \notin I => W[i] \subseteq S
    OBVIOUS
  <2> HIDE DEF I
  <2>5. PICK i \in I : \A k \in I : i <= k
    BY <2>2, <2>3, LeastOf
  <2>6. i \in 1 .. N /\ i - 1 \in 0 .. N /\ W[i - 1] \subseteq S
    <3>1. i # 0
      BY <2>1, <2>3
    <3>2. i \in 1 .. N /\ i - 1 \in 0 .. N /\ i - 1 \notin I
      BY <1>1, <2>3, <2>5, <3>1
    <3> QED BY <2>4, <3>2
  <2>7. W[i] \subseteq S
    <3>1. \A y \in W[i] : y \in W[i - 1] \/ (y \in D /\ \E x \in W[i - 1] : y = b[x])
      BY <2>6
    <3>2. W[i - 1] \subseteq D
      BY <1>2, <2>6
    <3> QED BY <2>1, <2>6, <3>1, <3>2
  <2> QED BY <2>3, <2>7
<1>4. ASSUME NEW x \in W[N], b[x] # none, b[x] \notin W[N] PROVE FALSE
  <2>1. \A i \in 0 .. N : \A j \in 0 .. N : i <= j => W[i] \subseteq W[j]
    <3>1. SUFFICES ASSUME NEW i \in 0 .. N, NEW l \in 0 .. N, i <= l, ~(W[i] \subseteq W[l])
                   PROVE  FALSE
      OBVIOUS
    <3> DEFINE I == {j \in i .. N : ~(W[i] \subseteq W[j])}
    <3>2. /\ I \in SUBSET Nat /\ l \in I
          /\ \A j \in I : j \in i .. N /\ ~(W[i] \subseteq W[j])
      BY <1>1, <3>1
    <3>3. \A j \in i .. N : j \notin I => W[i] \subseteq W[j]
      OBVIOUS
    <3> HIDE DEF I
    <3>4. PICK j \in I : \A k \in I : j <= k
      BY <3>2, LeastOf
    <3>5. j # i
      BY <3>2
    <3>6. j - 1 \in i .. N /\ j \in 1 .. N /\ j - 1 \notin I
      BY <1>1, <3>2, <3>4, <3>5
    <3> QED BY <3>2, <3>3, <3>6
  <2>2. \A i \in 0 .. N - 1 : W[i + 1] # W[i]
    <3>1. SUFFICES ASSUME NEW i \in 0 .. N - 1, W[i + 1] = W[i] PROVE FALSE
      OBVIOUS
    <3>2. \A y \in W[i] : b[y] # none => b[y] \in W[i]
      <4>1. i + 1 \in 1 .. N /\ (i + 1) - 1 = i /\ i \in 0 .. N
        BY <1>1
      <4>2. W[i + 1] = W[i] \cup {z \in D : \E y \in W[i] : z = b[y]}
        BY <4>1
      <4> QED BY <1>2, <3>1, <4>1, <4>2
    <3>3. W[N] \subseteq W[i]
      <4>1. t \in W[i] /\ W[i] \subseteq D
        BY <1>1, <1>2
      <4> QED BY <1>3, <3>2, <4>1
    <3>4. W[i] \subseteq W[N]
      BY <1>1, <2>1
    <3> QED BY <1>4, <3>2, <3>3, <3>4
  <2>3. \A i \in 0 .. N : IsFiniteSet(W[i]) /\ Cardinality(W[i]) \in Nat
    BY <1>2, FS_Subset, FS_CardinalityType
  <2>4. \A i \in 0 .. N : Cardinality(W[i]) >= i + 1
    <3> DEFINE I == {i \in 0 .. N : ~(Cardinality(W[i]) >= i + 1)}
    <3>1. SUFFICES ASSUME I # {} PROVE FALSE
      OBVIOUS
    <3>2. I \in SUBSET Nat /\ \A i \in I : i \in 0 .. N /\ ~(Cardinality(W[i]) >= i + 1)
      BY <1>1
    <3>3. \A i \in 0 .. N : i \notin I => Cardinality(W[i]) >= i + 1
      OBVIOUS
    <3> HIDE DEF I
    <3>4. PICK i \in I : \A k \in I : i <= k
      BY <3>1, <3>2, LeastOf
    <3>5. i # 0
      <4>1. Cardinality(W[0]) = 1
        BY FS_Singleton
      <4>2. Cardinality(W[0]) >= 0 + 1
        BY <4>1
      <4>3. 0 \notin I
        BY <3>2, <4>2
      <4> QED BY <3>4, <4>3
    <3>6. /\ i \in 0 .. N /\ i - 1 \in 0 .. N - 1 /\ i - 1 \in 0 .. N /\ i - 1 \notin I
          /\ (i - 1) + 1 = i /\ i - 1 <= i
      BY <1>1, <3>2, <3>4, <3>5
    <3>7. W[i - 1] \subseteq W[i] /\ W[i] # W[i - 1]
      BY <2>1, <2>2, <3>6
    <3>8. /\ Cardinality(W[i - 1]) <= Cardinality(W[i])
          /\ Cardinality(W[i]) # Cardinality(W[i - 1])
      BY <2>3, <3>6, <3>7, FS_Subset
    <3>9. Cardinality(W[i - 1]) >= i
      BY <3>3, <3>6
    <3>10. Cardinality(W[i]) \in Nat /\ Cardinality(W[i - 1]) \in Nat /\ i \in Int
      BY <2>3, <3>6
    <3>11. Cardinality(W[i]) >= i + 1
      BY <3>8, <3>9, <3>10
    <3> QED BY <3>2, <3>11
  <2>5. Cardinality(W[N]) >= N + 1 /\ Cardinality(W[N]) \in Nat
    BY <1>1, <2>3, <2>4
  <2>6. Cardinality(W[N]) <= N
    BY <1>1, <1>2, FS_Subset
  <2> QED BY <1>1, <2>5, <2>6
<1> QED
  BY <1>1, <1>2, <1>3, <1>4

(* The bases C++ sees of a type, and theirs: the type, and the bases of    *)
(* each, and no others.                                                    *)
LEMMA BaseIsDeclared ==
    ASSUME FilesInv, NEW x \in declared
    PROVE  CppBase(x) \in declared \cup {NoType} /\ (x.base = <<>> => CppBase(x) = NoType)
<1>1. CASE x.base = <<>>
  BY <1>1 DEF CppBase
<1>2. CASE x.base # <<>> /\ CppBase(x) # NoType
  <2>1. CppBase(x) = Cpp(x.base, 0, Front(x.full))
    BY <1>2 DEF CppBase
  <2>2. IsSequence(CppScope(Front(x.full)))
    <3>1. IsSequence(x.full) /\ x.full # <<>>
      BY DEF FilesInv, WellMade
    <3>2. IsSequence(Front(x.full))
      <4>1. Len(x.full) \in Nat /\ Len(x.full) # 0
        BY <3>1, EmptySeq DEF IsSequence
      <4>2. /\ 1 \in 1 .. Len(x.full) + 1 /\ Len(x.full) - 1 \in 0 .. Len(x.full)
            /\ 1 <= (Len(x.full) - 1) + 1
        BY <4>1
      <4> QED BY <3>1, <4>2, Sliced DEF IsSequence, Front
    <3> QED BY <3>2, NoNames DEF CppScope
  <2> QED BY <1>2, <2>1, <2>2, CppFacts
<1>3. CASE x.base # <<>> /\ CppBase(x) = NoType
  BY <1>3
<1> QED
  BY <1>1, <1>2, <1>3

(* The ancestors of a type: the smallest set with the type and its bases.  *)
LEMMA AncestorFacts ==
    ASSUME FilesInv, IsFiniteSet(declared), NEW t \in declared
    PROVE  /\ t \in Ancestors(t) /\ Ancestors(t) \subseteq declared
           /\ \A x \in Ancestors(t) : CppBase(x) # NoType => CppBase(x) \in Ancestors(t)
           /\ \A S : t \in S /\ (\A x \in S \cap declared : CppBase(x) # NoType => CppBase(x) \in S)
                 => Ancestors(t) \subseteq S
<1> DEFINE N == Cardinality(declared)
           b == [x \in declared |-> CppBase(x)]
           step(X) == X \cup {b[x] : x \in X \cap declared}
           Trace(m, f) == f = [i \in 0 .. m |-> IF i = 0 THEN {t} ELSE step(f[i - 1])]
           I == {m \in 0 .. N : ~\E f : Trace(m, f)}
<1>1. N \in Nat
  BY FS_CardinalityType
<1>2. Ancestors(t) = (CHOOSE f : Trace(N, f))[N] \cap declared
  <2>1. DOMAIN b = declared
    OBVIOUS
  <2>2. Ancestors(t) = Onward(b, t)
    BY DEF Ancestors
  <2> HIDE DEF b
  <2> QED BY <2>1, <2>2 DEF Onward
<1>10. \A x \in declared : b[x] = CppBase(x) /\ b[x] \in declared \cup {NoType}
  BY BaseIsDeclared
<1> HIDE DEF step, N, b
<1>3. \E f : Trace(N, f)
  <2>0. N \in 0 .. N
    BY <1>1
  <2>1. SUFFICES ASSUME I # {} PROVE FALSE
    BY <2>0
  <2>2. I \in SUBSET Nat /\ (\A i \in I : i \in 0 .. N /\ ~\E f : Trace(i, f))
    OBVIOUS
  <2>3. \A i \in 0 .. N : i \notin I => \E f : Trace(i, f)
    OBVIOUS
  <2>4. PICK m \in I : \A k \in I : m <= k
    <3> HIDE DEF I
    <3> QED BY <2>1, <2>2, LeastOf
  <2>5. m # 0
    <3> DEFINE f == [i \in 0 .. 0 |-> {t}]
    <3>1. f = [i \in 0 .. 0 |-> IF i = 0 THEN {t} ELSE step(f[i - 1])]
      OBVIOUS
    <3>2. Trace(0, f)
      BY <3>1
    <3> QED BY <2>2, <3>2
  <2>6. m \in 1 .. N /\ m - 1 \in 0 .. N /\ m - 1 \notin I
    <3> HIDE DEF I
    <3> QED BY <1>1, <2>2, <2>4, <2>5
  <2>7. PICK g : Trace(m - 1, g)
    BY <2>3, <2>6
  <2> DEFINE f == [i \in 0 .. m |-> IF i = m THEN step(g[m - 1]) ELSE g[i]]
  <2>8. Trace(m, f)
    <3>1. \A i \in 0 .. m : f[i] = IF i = 0 THEN {t} ELSE step(f[i - 1])
      <4>1. TAKE i \in 0 .. m
      <4>2. CASE i = m
        <5>1. f[i] = step(g[m - 1]) /\ f[i - 1] = g[m - 1]
          BY <2>6, <4>2
        <5> QED BY <2>5, <4>2, <5>1
      <4>3. CASE i # m
        <5>1. i \in 0 .. m - 1 /\ f[i] = g[i]
          BY <2>6, <4>3
        <5>2. g[i] = IF i = 0 THEN {t} ELSE step(g[i - 1])
          BY <2>7, <5>1
        <5>3. i # 0 => f[i - 1] = g[i - 1]
          BY <2>6, <5>1
        <5> QED BY <5>1, <5>2, <5>3
      <4> QED BY <4>2, <4>3
    <3>2. DOMAIN f = 0 .. m
      OBVIOUS
    <3>3. f = [i \in DOMAIN f |-> f[i]]
      OBVIOUS
    <3> HIDE DEF f
    <3> QED BY <3>1, <3>2, <3>3
  <2> QED
    BY <2>2, <2>4, <2>8
<1> DEFINE f == CHOOSE g : Trace(N, g)
           W == [i \in 0 .. N |-> f[i] \cap declared]
<1>4. Trace(N, f)
  BY <1>3
<1> HIDE DEF f
<1>5. /\ f[0] = {t} /\ \A i \in 1 .. N : f[i] = step(f[i - 1])
  <2>1. \A i \in 0 .. N : f[i] = IF i = 0 THEN {t} ELSE step(f[i - 1])
    BY <1>4
  <2>2. 0 \in 0 .. N /\ \A i \in 1 .. N : i \in 0 .. N /\ i # 0
    BY <1>1
  <2> QED BY <2>1, <2>2
<1>6. NoType \notin declared
  BY NotNothing DEF FilesInv
<1>8. W[0] = {t}
  BY <1>1, <1>5
<1>9. ASSUME NEW i \in 1 .. N
      PROVE  W[i] = W[i - 1] \cup {y \in declared : \E x \in W[i - 1] : y = b[x]}
  <2>1. i \in 0 .. N /\ i - 1 \in 0 .. N
    BY <1>1
  <2>2. f[i] = f[i - 1] \cup {b[x] : x \in f[i - 1] \cap declared}
    BY <1>5 DEF step
  <2>3. W[i] = f[i] \cap declared /\ W[i - 1] = f[i - 1] \cap declared
    BY <2>1
  <2> HIDE DEF W
  <2> QED BY <2>2, <2>3
<1>11. Ancestors(t) = W[N]
  BY <1>1, <1>2 DEF f
<1> HIDE DEF W
<1>12. /\ t \in W[N] /\ W[N] \subseteq declared
       /\ \A x \in W[N] : b[x] # NoType => b[x] \in W[N]
       /\ \A S : t \in S /\ (\A x \in S \cap declared : b[x] # NoType => b[x] \in S) =>
             W[N] \subseteq S
  <2>1. N = Cardinality(declared)
    BY DEF N
  <2>2. \A x \in declared : b[x] \in declared \cup {NoType}
    BY <1>10
  <2> QED BY <1>6, <1>8, <1>9, <2>1, <2>2, Saturated
<1>13. \A x \in W[N] : CppBase(x) # NoType => CppBase(x) \in W[N]
  BY <1>10, <1>12
<1>14. ASSUME NEW S, t \in S,
              \A x \in S \cap declared : CppBase(x) # NoType => CppBase(x) \in S
       PROVE  W[N] \subseteq S
  <2>1. \A x \in S \cap declared : b[x] # NoType => b[x] \in S
    BY <1>10, <1>14
  <2> QED BY <1>12, <1>14, <2>1
<1> QED
  BY <1>11, <1>12, <1>13, <1>14

(* The ancestors of a type that has a base are itself and those of it.     *)
LEMMA AncestorsByBase ==
    ASSUME FilesInv, IsFiniteSet(declared), NEW t \in declared
    PROVE  /\ CppBase(t) = NoType => Ancestors(t) \subseteq {t}
           /\ CppBase(t) # NoType => /\ CppBase(t) \in declared
                                     /\ Ancestors(t) \subseteq {t} \cup Ancestors(CppBase(t))
<1>1. CASE CppBase(t) = NoType
  <2>1. \A x \in {t} \cap declared : CppBase(x) # NoType => CppBase(x) \in {t}
    BY <1>1
  <2> QED BY <1>1, <2>1, AncestorFacts
<1>2. CASE CppBase(t) # NoType
  <2> DEFINE b == CppBase(t)
             S == {t} \cup Ancestors(b)
  <2>1. b \in declared
    BY <1>2, BaseIsDeclared
  <2>2. b \in Ancestors(b) /\ \A x \in Ancestors(b) : CppBase(x) # NoType => CppBase(x) \in Ancestors(b)
    BY <2>1, AncestorFacts
  <2>3. \A x \in S \cap declared : CppBase(x) # NoType => CppBase(x) \in S
    BY <2>2
  <2>4. t \in S
    OBVIOUS
  <2> HIDE DEF S
  <2>5. Ancestors(t) \subseteq S
    BY <2>3, <2>4, AncestorFacts
  <2> QED BY <1>2, <2>1, <2>5 DEF S
<1> QED
  BY <1>1, <1>2

(* A finite function has finitely many values.                             *)
LEMMA FiniteImage ==
    ASSUME NEW f, IsFiniteSet(DOMAIN f)
    PROVE  IsFiniteSet({f[x] : x \in DOMAIN f})
<1> DEFINE T == {f[x] : x \in DOMAIN f}
           g == [x \in DOMAIN f |-> f[x]]
<1>1. g \in Surjection(DOMAIN f, T)
  BY DEF Surjection
<1> HIDE DEF T, g
<1>2. IsFiniteSet(T)
  BY <1>1, FS_Surjection
<1> QED BY <1>2 DEF T

(* A class of the engine's api makes finitely many types.                  *)
LEMMA ClassIsFinite ==
    ASSUME NEW c, IsFiniteSet(c.enums)
    PROVE  IsFiniteSet(ClassTypes(c))
<1> DEFINE header == include_paths[CanonicalName(c.name)]
           base == IF c.inherits = <<>> THEN <<>> ELSE <<c.inherits>>
           f == [e \in c.enums |-> EnumType(e, <<Godot, c.name>>, header)]
           A == {Type(<<Godot, c.name>>, 0, 0, "class", base, header)}
           B == {EnumType(e, <<Godot, c.name>>, header) : e \in c.enums}
<1>1. ClassTypes(c) = A \cup B
  BY DEF ClassTypes
<1>2. B = {f[x] : x \in DOMAIN f}
  OBVIOUS
<1>3. IsFiniteSet(B)
  <2>1. DOMAIN f = c.enums
    OBVIOUS
  <2> HIDE DEF B, f
  <2> QED BY <1>2, <2>1, FiniteImage
<1>4. IsFiniteSet(A)
  BY FS_Singleton
<1> HIDE DEF A, B
<1> QED
  BY <1>1, <1>3, <1>4, FS_Union

(* So do finitely many.                                                    *)
LEMMA ClassesAreFinite ==
    ASSUME NEW S, IsFiniteSet(S), \A c \in S : IsFiniteSet(c.enums)
    PROVE  IsFiniteSet(UNION {ClassTypes(c) : c \in S})
<1> DEFINE f == [c \in S |-> ClassTypes(c)]
           U == {ClassTypes(c) : c \in S}
<1>1. U = {f[c] : c \in DOMAIN f} /\ DOMAIN f = S
  OBVIOUS
<1>2. \A T \in U : IsFiniteSet(T)
  BY ClassIsFinite
<1> HIDE DEF f, U
<1>3. IsFiniteSet(U)
  BY <1>1, FiniteImage
<1>4. IsFiniteSet(UNION U)
  BY <1>2, <1>3, FS_UNION
<1> QED BY <1>4 DEF U

(* So does an api.                                                         *)
LEMMA ApiIsFinite ==
    ASSUME \E p \in Projects : api = p.api
    PROVE  IsFiniteSet(ApiTypes)
<1> DEFINE enum == [e \in api.global_enums |-> EnumType(e, <<Godot>>, NoHeader)]
           class == [c \in CoreClasses |->
                        Type(<<Godot, c.name>>, c.params, c.optional, "class", <<>>,
                             include_paths[CanonicalName(c.name)])]
           other == [o \in CoreOthers |-> Type(o.full, 0, 0, o.is, <<>>, NoHeader)]
           used == {b \in api.builtin_classes : ~ClassFails(b)}
           E == {EnumType(e, <<Godot>>, NoHeader) : e \in api.global_enums}
           B == UNION {ClassTypes(c) : c \in used}
           C == UNION {ClassTypes(c) : c \in api.classes}
           K == {Type(<<Godot, c.name>>, c.params, c.optional, "class", <<>>,
                      include_paths[CanonicalName(c.name)]) : c \in CoreClasses}
           O == {Type(o.full, 0, 0, o.is, <<>>, NoHeader) : o \in CoreOthers}
<1>1. /\ IsFiniteSet(api.builtin_classes) /\ IsFiniteSet(api.classes)
      /\ IsFiniteSet(api.global_enums)
      /\ \A c \in api.builtin_classes \cup api.classes : IsFiniteSet(c.enums)
  BY ProjectsAssumption
<1>2. IsFiniteSet(E)
  <2>1. E = {enum[x] : x \in DOMAIN enum} /\ DOMAIN enum = api.global_enums
    OBVIOUS
  <2> HIDE DEF E, enum
  <2> QED BY <1>1, <2>1, FiniteImage
<1>3. IsFiniteSet(K)
  <2>1. K = {class[x] : x \in DOMAIN class} /\ DOMAIN class = CoreClasses
    OBVIOUS
  <2> HIDE DEF K, class
  <2> QED BY <2>1, CoreAssumption, FiniteImage
<1>4. IsFiniteSet(O)
  <2>1. O = {other[x] : x \in DOMAIN other} /\ DOMAIN other = CoreOthers
    OBVIOUS
  <2> HIDE DEF O, other
  <2> QED BY <2>1, CoreAssumption, FiniteImage
<1>5. IsFiniteSet(B)
  <2>1. IsFiniteSet(used) /\ \A c \in used : IsFiniteSet(c.enums)
    BY <1>1, FS_Subset
  <2> HIDE DEF used
  <2> QED BY <2>1, ClassesAreFinite
<1>6. IsFiniteSet(C)
  BY <1>1, ClassesAreFinite
<1>7. ApiTypes = {} \/ ApiTypes = E \cup B \cup C \cup (K \cup O)
  BY DEF ApiTypes, CoreTypes
<1> HIDE DEF E, B, C, K, O
<1>8. IsFiniteSet(E \cup B \cup C \cup (K \cup O))
  BY <1>2, <1>3, <1>4, <1>5, <1>6, FS_Union
<1> QED
  BY <1>7, <1>8, FS_EmptySet
---------------------------------------------------------------------------
(* The way up the bases: what is on it is an ancestor, and the assumed     *)
(* class is above it if it is above the class that is asked about.         *)
Root == assumed[RootClass]
RootInv ==
    /\ IsFiniteSet(declared)
    /\ \A n \in DOMAIN assumed : assumed[n] \in saved \cup {NoType}
    /\ phase = "bind" => RootClass \in DOMAIN assumed /\ Root.is = "class"

OnTheWay(of, at, result) ==
    /\ at \in Ancestors(of)
    /\ result # "no" /\ Root \in Ancestors(of) => Root \in Ancestors(at)
    /\ result = "yes" => at.full = Root.full
    /\ result = "no" => Root \notin Ancestors(of)

WalkInv ==
    walk.result # "none" =>
        /\ {walk.of, walk.at} \subseteq declared
        /\ walk.of.is = "class" /\ walk.at.is = "class"
        /\ NoHomonyms /\ OneTypePerName /\ BasesAreQualified(walk.of) =>
              OnTheWay(walk.of, walk.at, walk.result)

(* The bases depend on nothing but what is declared.                       *)
LEMMA SameBases ==
    ASSUME declared' = declared
    PROVE  /\ \A t : Ancestors(t)' = Ancestors(t)
           /\ \A t : BasesAreQualified(t)' <=> BasesAreQualified(t)
           /\ (NoHomonyms /\ OneTypePerName)' <=> NoHomonyms /\ OneTypePerName
<1>1. \A full, n : Named(full, n)' = Named(full, n)
  BY DEF Named
<1>2. \A name, n, from, k : CppLevel(name, n, from, k)' = CppLevel(name, n, from, k)
  BY <1>1 DEF CppLevel
<1>3. \A name, n, from : Cpp(name, n, from)' = Cpp(name, n, from)
  BY <1>2 DEF Cpp
<1>4. \A t : CppBase(t)' = CppBase(t)
  BY <1>3 DEF CppBase
<1>5. \A t : Ancestors(t)' = Ancestors(t)
  BY <1>4 DEF Ancestors
<1>6. \A t : BasesAreQualified(t)' <=> BasesAreQualified(t)
  BY <1>3, <1>5 DEF BasesAreQualified
<1>7. (NoHomonyms /\ OneTypePerName)' <=> NoHomonyms /\ OneTypePerName
  BY DEF NoHomonyms, OneTypePerName
<1> QED
  BY <1>5, <1>6, <1>7

(* A base that is found from outside is found by the name in the source.   *)
LEMMA BaseFindsBase ==
    ASSUME TypeOK, Exact, FilesInv, saved = declared, NoHomonyms,
           NEW x \in declared, x.base # <<>>, Cpp(x.base, 0, <<>>) # NoType
    PROVE  Find(BaseQuery(x)) = CppBase(x) /\ CppBase(x) \in declared
<1> DEFINE q == BaseQuery(x)
           m == Cpp(x.base, 0, <<>>)
           from == Front(x.full)
           b == CppBase(x)
<1>1. WellMade(x) /\ IsSequence(x.full) /\ x.full # <<>> /\ IsSequence(x.base)
  BY DEF FilesInv, WellMade
<1>2. /\ q.name = x.base /\ q.count = 0 /\ q.attribute = NoAttribute /\ q.from = Nowhere
  BY DEF BaseQuery, Query
<1>3. /\ IsSequence(<<>>) /\ IsSequence(Nowhere) /\ <<>> # Nowhere
      /\ CppScope(<<>>) = <<>> /\ CppScope(Nowhere) = <<>>
  BY NoNames, OneName DEF Nowhere, CppScope
<1>4. Asked(q)
  BY <1>1, <1>2, <1>3 DEF Asked
<1>5. Cpp(x.base, 0, Nowhere) = m
  BY <1>3 DEF Cpp
<1> HIDE DEF q
<1>6. Find(q) = m
  <2>1. Finds(q, Find(q))
    BY FoundFacts
  <2>2. m = Cpp(q.name, q.count, q.from) /\ m # NoType
    BY <1>2, <1>5
  <2> HIDE DEF m
  <2> QED BY <1>2, <1>4, <2>1, <2>2, FoundIsMeant
<1>7. IsSequence(CppScope(from))
  <2>1. Len(x.full) \in Nat /\ Len(x.full) # 0
    BY <1>1, EmptySeq DEF IsSequence
  <2>2. /\ 1 \in 1 .. Len(x.full) + 1 /\ Len(x.full) - 1 \in 0 .. Len(x.full)
        /\ 1 <= (Len(x.full) - 1) + 1
    BY <2>1
  <2>3. IsSequence(from)
    BY <1>1, <2>2, Sliced DEF IsSequence, Front
  <2> QED BY <2>3, NoNames DEF CppScope
<1>8. b = Cpp(x.base, 0, from) /\ b \in declared /\ Takes(b, 0) /\ Last(b.full) = Last(x.base)
  <2> DEFINE scope == CppScope(from)
  <2>1. 0 \in 0 .. Len(scope) /\ SubSeq(scope, 1, 0) = <<>>
    BY <1>7, OwnScope DEF IsSequence
  <2>2. CppLevel(x.base, 0, <<>>, 0) # {}
    <3>1. \E k \in 0 .. Len(<<>>) : m \in CppLevel(x.base, 0, <<>>, k)
      BY <1>3, CppChosen
    <3>2. Len(<<>>) = 0
      BY EmptySequence
    <3> QED BY <3>1, <3>2
  <2>3. CppLevel(x.base, 0, scope, 0) = CppLevel(x.base, 0, <<>>, 0)
    <3>1. SubSeq(<<>>, 1, 0) = <<>>
      BY <1>3, OwnScope
    <3> QED BY <2>1, <3>1 DEF CppLevel
  <2> HIDE DEF scope, from
  <2>4. b = Cpp(x.base, 0, from)
    BY DEF CppBase, from
  <2>5. \E k \in 0 .. Len(scope) : b \in CppLevel(x.base, 0, scope, k)
    BY <1>7, <2>1, <2>2, <2>3, <2>4, CppChosen DEF scope
  <2>6. b \in declared
    BY <2>5 DEF CppLevel, Named
  <2>7. b # NoType
    BY <2>6, NotNothing DEF FilesInv
  <2> HIDE DEF b
  <2>8. Takes(b, 0)
    BY <1>7, <2>4, <2>7, CppFacts
  <2>9. Last(b.full) = Last(x.base)
    BY <1>1, <1>7, <2>4, <2>7, CppIsNamesake
  <2> QED BY <2>4, <2>6, <2>8, <2>9
<1>9. m \in declared /\ Takes(m, 0) /\ Last(m.full) = Last(x.base)
  <2>1. IsSequence(CppScope(<<>>))
    BY <1>3
  <2>2. m # NoType
    OBVIOUS
  <2> HIDE DEF m
  <2>3. m = Cpp(x.base, 0, <<>>)
    BY DEF m
  <2> QED BY <1>1, <2>1, <2>2, <2>3, CppFacts, CppIsNamesake
<1> HIDE DEF m, b, from
<1>10. b = m
  <2>1. b.params \in Nat
    BY <1>8 DEF FilesInv, WellMade
  <2>2. 0 \in 0 .. b.params
    BY <2>1
  <2> QED BY <1>8, <1>9, <2>2 DEF NoHomonyms
<1> QED
  BY <1>6, <1>8, <1>10 DEF q, b

(* No walk is under way at the start.                                      *)
LEMMA WalkInit == Init => RootInv /\ WalkInv
<1> SUFFICES ASSUME Init PROVE RootInv /\ WalkInv
  OBVIOUS
<1>1. /\ \E p \in Projects : declared = p.types
      /\ DOMAIN assumed = {} /\ phase = "api" /\ walk.result = "none"
  BY DEF Init, Idle
<1>2. IsFiniteSet(declared)
  BY <1>1, ProjectsAssumption
<1> QED
  BY <1>1, <1>2 DEF RootInv, WalkInv

(* Every step keeps what is known of the assumed classes.                  *)
LEMMA RootStep == LookupInv /\ FilesInv /\ RootInv /\ [Next]_vars => RootInv'
<1> SUFFICES ASSUME LookupInv, FilesInv, RootInv, [Next]_vars PROVE RootInv'
  OBVIOUS
<1> USE DEF RootInv, Root
<1>1. ASSUME UNCHANGED <<declared, saved, phase, assumed>> PROVE RootInv'
  BY <1>1
<1>2. CASE ParseApi
  <2>1. /\ declared' = declared \cup ApiTypes /\ assumed' = assumed /\ phase' = "scan"
        /\ saved = {}
    BY <1>2 DEF ParseApi, LookupInv
  <2>2. IsFiniteSet(declared \cup ApiTypes)
    BY ApiIsFinite, FS_Union DEF FilesInv
  <2> QED BY <2>1, <2>2
<1>3. ASSUME NEW t \in declared, Save(t) PROVE RootInv'
  BY <1>3 DEF Save
<1>4. CASE ScanEnds
  BY <1>4 DEF ScanEnds
<1>5. ASSUME NEW n \in Assumed, Validate(n) PROVE RootInv'
  <2> DEFINE q == Query(n, 0, NoAttribute, Nowhere)
  <2>1. /\ phase = "validate" /\ cache' = Remember(q) /\ declared' = declared
        /\ saved' = saved /\ files' = files
        /\ assumed' = [x \in DOMAIN assumed \cup {n} |-> IF x = n THEN Find(q) ELSE assumed[x]]
        /\ phase' = "bind" => /\ DOMAIN assumed' = Assumed
                              /\ \A x \in Assumed : assumed'[x].is = "class"
    BY <1>5 DEF Validate
  <2> HIDE DEF q
  <2>2. Find(q) \in saved \cup {NoType}
    BY <2>1, LookupKeeps
  <2>3. \A x \in DOMAIN assumed' : assumed'[x] \in saved' \cup {NoType}
    BY <2>1, <2>2
  <2>4. phase' = "bind" => RootClass \in DOMAIN assumed' /\ assumed'[RootClass].is = "class"
    BY <2>1, ProjectsAssumption
  <2> QED BY <2>1, <2>3, <2>4
<1>6. ASSUME NEW f, ListHeader(f) PROVE RootInv'
  BY <1>1, <1>6 DEF ListHeader
<1>7. ASSUME NEW t \in declared, AskBase(t) PROVE RootInv'
  BY <1>1, <1>7 DEF AskBase
<1>8. ASSUME NEW q \in Queries, LookUp(q) PROVE RootInv'
  BY <1>1, <1>8 DEF LookUp
<1>9. CASE BaseFound \/ NoBase \/ NextBase
  BY <1>1, <1>9 DEF BaseFound, NoBase, NextBase
<1>10. CASE Ended \/ UNCHANGED vars
  BY <1>1, <1>10 DEF Ended, vars
<1> QED
  BY <1>2, <1>3, <1>4, <1>5, <1>6, <1>7, <1>8, <1>9, <1>10 DEF Next

(* Every step keeps a walk on its way up the bases.                        *)
LEMMA WalkStep == LookupInv /\ FilesInv /\ RootInv /\ WalkInv /\ [Next]_vars => WalkInv'
<1> SUFFICES ASSUME LookupInv, FilesInv, RootInv, WalkInv, [Next]_vars PROVE WalkInv'
  OBVIOUS
<1>1. ASSUME UNCHANGED <<declared, assumed>>, walk' = walk PROVE WalkInv'
  BY <1>1, SameBases DEF WalkInv, OnTheWay, Root
<1>2. ASSUME walk' = walk, phase # "bind" PROVE WalkInv'
  BY <1>2 DEF WalkInv, LookupInv
<1>3. ASSUME walk' = Idle PROVE WalkInv'
  BY <1>3 DEF WalkInv, Idle
(* The way up, while it is gone.                                           *)
<1>4. ASSUME walk.result = "running", UNCHANGED <<declared, assumed>>,
             DOMAIN walk' = {"of", "at", "result"}, walk'.of = walk.of,
             walk'.at \in declared, walk'.at.is = "class", walk'.result # "none",
             NoHomonyms /\ OneTypePerName /\ BasesAreQualified(walk.of)
                /\ OnTheWay(walk.of, walk.at, "running") =>
                   OnTheWay(walk.of, walk'.at, walk'.result)
      PROVE  WalkInv'
  BY <1>4, SameBases DEF WalkInv, OnTheWay, Root
<1>5. walk.result = "running" =>
         /\ walk.at \in declared /\ walk.at.is = "class" /\ saved = declared
         /\ DOMAIN walk = {"of", "at", "result"}
         /\ Root \in declared /\ Root.is = "class" /\ walk.of \in declared
  <2>1. walk.result = "running" => phase = "bind" /\ DOMAIN walk = {"of", "at", "result"}
    BY DEF LookupInv
  <2>2. phase = "bind" => Root \in saved /\ Root.is = "class" /\ saved = declared
    BY DEF RootInv, FilesInv, Root, NoType
  <2> QED BY <2>1, <2>2 DEF WalkInv
<1>6. ASSUME NEW t \in declared, AskBase(t) PROVE WalkInv'
  <2>1. /\ walk' = [of |-> t, at |-> t, result |-> "running"] /\ declared' = declared
        /\ assumed' = assumed /\ t.is = "class"
    BY <1>6 DEF AskBase
  <2>2. t \in Ancestors(t)
    BY AncestorFacts DEF RootInv
  <2> QED BY <2>1, <2>2, SameBases DEF WalkInv, OnTheWay, Root
<1>7. CASE BaseFound
  <2>1. /\ walk.result = "running" /\ walk.at.full = Root.full
        /\ UNCHANGED <<declared, assumed>>
        /\ walk' = [walk EXCEPT !.result = "yes"]
    BY <1>7 DEF BaseFound, Reaches, Root
  <2>2. walk'.of = walk.of /\ walk'.at = walk.at /\ walk'.result = "yes"
    BY <1>5, <2>1
  <2>3. OnTheWay(walk.of, walk.at, "running") => OnTheWay(walk.of, walk.at, "yes")
    BY <2>1 DEF OnTheWay
  <2> QED BY <1>4, <1>5, <2>1, <2>2, <2>3
<1>8. CASE NoBase
  <2>1. /\ walk.result = "running" /\ walk.at.full # Root.full /\ walk.at.base = <<>>
        /\ UNCHANGED <<declared, assumed>>
        /\ walk' = [walk EXCEPT !.result = "no"]
    BY <1>8 DEF NoBase, Reaches, Root
  <2>2. walk'.of = walk.of /\ walk'.at = walk.at /\ walk'.result = "no"
    BY <1>5, <2>1
  <2>3. Ancestors(walk.at) \subseteq {walk.at}
    BY <1>5, <2>1, BaseIsDeclared, AncestorsByBase DEF RootInv
  <2>4. OnTheWay(walk.of, walk.at, "running") => OnTheWay(walk.of, walk.at, "no")
    BY <2>1, <2>3 DEF OnTheWay
  <2> QED BY <1>4, <1>5, <2>1, <2>2, <2>4
<1>9. CASE NextBase
  <2> DEFINE q == BaseQuery(walk.at)
             found == Find(q)
  <2>1. /\ walk.result = "running" /\ walk.at.full # Root.full /\ walk.at.base # <<>>
        /\ UNCHANGED <<declared, assumed>> /\ cache' = Remember(q) /\ files' = files
        /\ saved' = saved
        /\ walk' = IF found.is = "class" THEN [walk EXCEPT !.at = found]
                   ELSE [walk EXCEPT !.result = "no"]
    BY <1>9 DEF NextBase, Reaches, Root
  <2>2. found \in declared \cup {NoType}
    <3> HIDE DEF q
    <3> QED BY <1>5, <2>1, LookupKeeps
  <2>3. ASSUME NoHomonyms, BasesAreQualified(walk.of), walk.at \in Ancestors(walk.of)
        PROVE  /\ found = CppBase(walk.at) /\ found \in declared
               /\ found \in Ancestors(walk.of)
               /\ Ancestors(walk.at) \subseteq {walk.at} \cup Ancestors(found)
    <3>1. Cpp(walk.at.base, 0, <<>>) # NoType
      BY <2>1, <2>3 DEF BasesAreQualified
    <3>2. found = CppBase(walk.at) /\ CppBase(walk.at) \in declared
      BY <1>5, <2>1, <2>3, <3>1, BaseFindsBase DEF LookupInv
    <3>3. CppBase(walk.at) # NoType
      BY <3>2, NotNothing DEF FilesInv
    <3>4. CppBase(walk.at) \in Ancestors(walk.of)
      BY <1>5, <2>1, <2>3, <3>3, AncestorFacts DEF RootInv
    <3>5. Ancestors(walk.at) \subseteq {walk.at} \cup Ancestors(CppBase(walk.at))
      BY <1>5, <2>1, <3>3, AncestorsByBase DEF RootInv
    <3> QED BY <3>2, <3>4, <3>5
  <2> HIDE DEF found
  <2>4. CASE found.is = "class"
    <3>1. walk'.of = walk.of /\ walk'.at = found /\ walk'.result = "running"
          /\ DOMAIN walk' = {"of", "at", "result"}
      BY <1>5, <2>1, <2>4
    <3>2. found \in declared
      BY <2>2, <2>4 DEF NoType
    <3>3. NoHomonyms /\ BasesAreQualified(walk.of) /\ OnTheWay(walk.of, walk.at, "running") =>
             OnTheWay(walk.of, found, "running")
      BY <2>1, <2>3 DEF OnTheWay
    <3> QED BY <1>4, <2>1, <2>4, <3>1, <3>2, <3>3
  <2>5. CASE found.is # "class"
    <3>1. walk'.of = walk.of /\ walk'.at = walk.at /\ walk'.result = "no"
          /\ DOMAIN walk' = {"of", "at", "result"}
      BY <1>5, <2>1, <2>5
    <3>2. found \in declared => Ancestors(found) \subseteq {found}
      <4>1. found \in declared => found.base = <<>>
        BY <2>5 DEF FilesInv, WellMade
      <4> QED BY <4>1, BaseIsDeclared, AncestorsByBase DEF RootInv
    <3>3. NoHomonyms /\ BasesAreQualified(walk.of) /\ OnTheWay(walk.of, walk.at, "running") =>
             OnTheWay(walk.of, walk.at, "no")
      <4>1. SUFFICES ASSUME NoHomonyms, BasesAreQualified(walk.of),
                            OnTheWay(walk.of, walk.at, "running"),
                            Root \in Ancestors(walk.of)
                     PROVE  FALSE
        BY DEF OnTheWay
      <4>2. Root \in Ancestors(walk.at) /\ walk.at \in Ancestors(walk.of)
        BY <4>1 DEF OnTheWay
      <4>3. Root \in {walk.at, found}
        BY <2>3, <3>2, <4>1, <4>2
      <4> QED BY <1>5, <2>1, <2>5, <4>3
    <3> QED BY <1>4, <1>5, <2>1, <3>1, <3>3
  <2> QED BY <2>4, <2>5
<1>10. ASSUME NEW f, ListHeader(f) PROVE WalkInv'
  BY <1>2, <1>10 DEF ListHeader
<1>11. CASE ParseApi \/ ScanEnds
  BY <1>2, <1>11 DEF ParseApi, ScanEnds
<1>12. ASSUME NEW t \in declared, Save(t) PROVE WalkInv'
  BY <1>2, <1>12 DEF Save
<1>13. ASSUME NEW n \in Assumed, Validate(n) PROVE WalkInv'
  BY <1>2, <1>13 DEF Validate
<1>14. ASSUME NEW q \in Queries, LookUp(q) PROVE WalkInv'
  BY <1>3, <1>14 DEF LookUp
<1>15. CASE Ended \/ UNCHANGED vars
  BY <1>1, <1>15 DEF Ended, vars
<1> QED
  BY <1>6, <1>7, <1>8, <1>9, <1>10, <1>11, <1>12, <1>13, <1>14, <1>15 DEF Next

(* The invariants say that the bases are recognized.                       *)
LEMMA WalkIsRight ==
    ASSUME LookupInv, FilesInv, RootInv, WalkInv PROVE BasesRecognized
<1> SUFFICES ASSUME walk.result \in {"yes", "no"}, NoHomonyms, OneTypePerName,
                    BasesAreQualified(walk.of)
             PROVE  walk.result = "yes" <=> Root \in Ancestors(walk.of)
  BY DEF BasesRecognized, Root
<1>1. OnTheWay(walk.of, walk.at, walk.result) /\ walk.at \in declared
  BY DEF WalkInv
<1>2. Root \in declared
  BY DEF LookupInv, RootInv, FilesInv, Root, NoType
<1>3. CASE walk.result = "yes"
  <2>1. walk.at = Root
    BY <1>1, <1>2, <1>3 DEF OnTheWay, OneTypePerName
  <2> QED BY <1>1, <1>3, <2>1 DEF OnTheWay
<1>4. CASE walk.result = "no"
  BY <1>1, <1>4 DEF OnTheWay
<1> QED
  BY <1>3, <1>4

(* class_has_base_class: however many types, namespaces and bases there    *)
(* are, the answer is whether the class descends from the assumed one.     *)
THEOREM Descends == Spec => []BasesRecognized
<1> DEFINE I == LookupInv /\ FilesInv /\ RootInv /\ WalkInv
<1>1. Init => I
  BY LookupInit, FilesInit, WalkInit
<1>2. I /\ [Next]_vars => I'
  BY LookupStep, FilesStep, RootStep, WalkStep
<1>3. I => BasesRecognized
  BY WalkIsRight
<1> QED
  BY <1>1, <1>2, <1>3, PTL DEF Spec
=============================================================================
