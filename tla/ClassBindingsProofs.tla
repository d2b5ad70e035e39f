------------------------ MODULE ClassBindingsProofs ------------------------
(***************************************************************************)
(* What the generators add for any project: any classes, with any bodies,  *)
(* visited in any order.                                                   *)
(***************************************************************************)
EXTENDS ClassBindings, BasicFacts

(* The usages that leave no order Godot would accept do not occur.         *)
Orderly == Usage \cap {"renamed accessor", "accessor bound later", "heir first"} = {}

---------------------------------------------------------------------------
(* What the proofs need to know of the variables.                          *)
Visited == IF status = "open" THEN turn ELSE turn - 1

InputInv ==
    /\ classes \in Inputs /\ Visitable(classes)
    /\ status \in {"new", "open", "failed"}
    /\ turn \in DOMAIN classes /\ pos \in 0 .. Len(class) /\ (status = "new" => pos = 0)
    /\ Sequence(bind_methods) /\ Sequence(members) /\ Sequence(sources) /\ Sequence(rpcs)
    /\ Sequence(registered) /\ ToSet(registered) \subseteq {c.name : c \in ToSet(classes)}

(* The members of the class body that are visited have done their part.    *)
EmittedInv ==
    \A d \in ToSet(sources) : \A emission \in d.emits : emission[1] \notin GivenSignals =>
        \E b \in ToSet(bind_methods) :
            b.do = "signal" /\ b.name = emission[1] /\ b.arguments = emission[2]

---------------------------------------------------------------------------
(* The order of the classes cs in the list reg, once n of them are         *)
(* visited.  A class that is to come, between a class in the list and one  *)
(* that inherits from it, must find room there.                            *)
Stands(cs, reg, i, a) == reg[i] = cs[a].name

ListedOnce(cs, reg, n) ==
    /\ Sequence(reg)
    /\ \A i, j \in DOMAIN reg : reg[i] = reg[j] => i = j
    /\ ToSet(reg) = {cs[k].name : k \in {l \in 1 .. n : ~cs[l].custom}}
ListedInOrder(cs, reg) ==
    \A i, j \in DOMAIN reg, a, b \in DOMAIN cs :
        Stands(cs, reg, i, a) /\ Stands(cs, reg, j, b) /\ BaseOf(cs, a, b) => j < i
RoomFor(cs, reg, n) ==
    \A i, j \in DOMAIN reg, a, b \in DOMAIN cs, x \in n + 1 .. Len(cs) :
        /\ Stands(cs, reg, i, a) /\ Stands(cs, reg, j, b)
        /\ BaseOf(cs, x, b) /\ x \in Ancestors(cs, a)
        => j < i

RegisterInv ==
    \/ status = "failed" /\ registered = <<>>
    \/ /\ status # "failed" /\ ListedOnce(classes, registered, Visited)
       /\ ListedInOrder(classes, registered) /\ RoomFor(classes, registered, Visited)

---------------------------------------------------------------------------
(* An accessor that has an attribute of its own is bound when that is      *)
(* visited.                                                                *)
FunctionsBound ==
    status = "open" => \A k \in 1 .. pos : class[k].attribute = "function" =>
        \E b \in ToSet(bind_methods) : b.do = "bind" /\ b.name = Exposed(class[k])

(* The groups and the properties of the class body c, and of the           *)
(* statements s; n entries of c are visited.                               *)
Is(s, what) == {i \in DOMAIN s : s[i].do = what}
GroupsOf(c) == {k \in DOMAIN c : c[k].attribute = "group"}
LastIn(S, i, j) == j < i /\ \A k \in S : k < i => k <= j
SameGroup(c, s, k, i) ==
    \/ k = 0 /\ i = 0
    \/ k # 0 /\ i # 0 /\ s[i].name = c[k].bind
SameLevel(c, s, k, i) ==
    \E g \in GroupsOf(c) \cup {0}, h \in Is(s, "group") \cup {0} :
        LastIn(GroupsOf(c), k, g) /\ LastIn(Is(s, "group"), i, h) /\ SameGroup(c, s, g, h)
ShownInGroups(c, s, n) ==
    \A i \in Is(s, "property") : \E k \in 1 .. n :
        /\ c[k].attribute = "property" /\ Exposed(c[k]) = s[i].name
        /\ SameLevel(c, s, k, i)
GroupInv ==
    status = "open" =>
        /\ SameLevel(class, bind_methods, pos + 1, Len(bind_methods) + 1)
        /\ ShownInGroups(class, bind_methods, pos)

BindingsInv ==
    /\ InputInv /\ TypeOK /\ EmittedInv /\ RegisterInv
    /\ FunctionsBound /\ BoundBeforeNamed /\ GroupInv

---------------------------------------------------------------------------
(* A direct base is an ancestor.                                           *)
LEMMA BaseIsAncestor ==
    ASSUME NEW cs, NEW i \in DOMAIN cs, NEW k \in DOMAIN cs, BaseOf(cs, i, k)
    PROVE  k \in Ancestors(cs, i)
BY DEF Ancestors

(* The ancestors of a base are ancestors.                                  *)
LEMMA AncestorsOfBase ==
    ASSUME NEW cs, NEW i \in DOMAIN cs, NEW j \in DOMAIN cs, BaseOf(cs, i, j),
           NEW k \in Ancestors(cs, j)
    PROVE  k \in Ancestors(cs, i)
<1>1. SUFFICES ASSUME NEW S \in SUBSET DOMAIN cs,
                      \A l \in S \cup {i}, b \in DOMAIN cs : BaseOf(cs, l, b) => b \in S
               PROVE  k \in S
  BY DEF Ancestors
<1>2. j \in S
  BY <1>1
<1> QED
  BY <1>1, <1>2 DEF Ancestors

(* What InsertAt does: the element at its place, the rest around it in     *)
(* order.                                                                  *)
LEMMA Inserted ==
    ASSUME NEW s, Sequence(s), NEW f \in 1 .. Len(s) + 1, NEW x, NEW t, t = InsertAt(s, f, x)
    PROVE  /\ Sequence(t) /\ Len(s) \in Nat
           /\ DOMAIN s = 1 .. Len(s) /\ DOMAIN t = 1 .. Len(s) + 1
           /\ t[f] = x
           /\ \A i \in 1 .. Len(s) : t[i] = IF i < f THEN s[i] ELSE IF i = f THEN x ELSE s[i - 1]
           /\ \A i \in 1 .. Len(s) : t[IF i < f THEN i ELSE i + 1] = s[i]
           /\ \A i \in 1 .. Len(s) + 1 : i # f =>
                 t[i] = s[IF i < f THEN i ELSE i - 1]
<1>1. Len(s) \in Nat /\ DOMAIN s = 1 .. Len(s) /\ \A i \in 1 .. Len(s) : s[i] \in ToSet(s)
  BY DEF Sequence, ToSet
<1> DEFINE p == SubSeq(s, 1, f - 1)
           q == SubSeq(s, f, Len(s))
<1>2. /\ p \in Seq(ToSet(s)) /\ Len(p) = f - 1
      /\ \A i \in 1 .. f - 1 : p[i] = s[i]
  BY <1>1, SubSeqProperties
<1>3. /\ q \in Seq(ToSet(s)) /\ Len(q) = Len(s) - f + 1
      /\ \A i \in 1 .. Len(s) - f + 1 : q[i] = s[f + i - 1]
  BY <1>1, SubSeqProperties
<1> HIDE DEF p, q
<1>4. p \in Seq(ToSet(p)) /\ q \in Seq(ToSet(q))
  BY <1>2, <1>3, OwnSequence
<1>5. t = Append(p, x) \o q
  BY <1>4, Appended DEF InsertAt, p, q
<1> DEFINE r == Append(p, x)
<1>6. /\ r \in Seq(ToSet(r)) /\ Len(r) = f
      /\ \A i \in 1 .. f - 1 : r[i] = s[i]
      /\ r[f] = x
  <2>1. p \in Seq(ToSet(p))
    BY <1>4
  <2>2. r \in Seq(ToSet(r))
    BY <2>1, Appended
  <2>3. Len(r) = Len(p) + 1
    BY <2>1, Appended
  <2>4. \A i \in 1 .. Len(p) : r[i] = p[i]
    BY <2>1, Appended
  <2>5. r[Len(p) + 1] = x
    BY <2>1, Appended
  <2> HIDE DEF r
  <2> QED
    BY <1>1, <1>2, <2>2, <2>3, <2>4, <2>5
<1> HIDE DEF r
<1>7. /\ t \in Seq(ToSet(t)) /\ DOMAIN t = 1 .. Len(s) + 1
      /\ \A i \in 1 .. f : t[i] = r[i]
      /\ \A i \in 1 .. Len(s) - f + 1 : t[f + i] = s[f + i - 1]
  <2>1. t = r \o q
    BY <1>5 DEF r
  <2>2. /\ t \in Seq(ToSet(t)) /\ DOMAIN t = 1 .. Len(r) + Len(q)
        /\ \A i \in 1 .. Len(r) : t[i] = r[i]
        /\ \A i \in 1 .. Len(q) : t[Len(r) + i] = q[i]
    BY <1>4, <1>6, <2>1, Concatenated
  <2>3. Len(r) + Len(q) = Len(s) + 1
    BY <1>1, <1>3, <1>6
  <2>4. \A i \in 1 .. Len(s) - f + 1 : t[f + i] = q[i] /\ q[i] = s[f + i - 1]
    BY <1>1, <1>3, <1>6, <2>2
  <2> QED
    BY <1>1, <1>6, <2>2, <2>3, <2>4
<1>8. \A i \in 1 .. Len(s) + 1 : i > f => t[i] = s[i - 1]
  <2>1. TAKE i \in 1 .. Len(s) + 1
  <2>2. HAVE i > f
  <2>3. i - f \in 1 .. Len(s) - f + 1 /\ f + (i - f) = i
    BY <1>1, <2>2
  <2> QED BY <1>7, <2>3
<1>9. \A i \in 1 .. Len(s) : t[IF i < f THEN i ELSE i + 1] = s[i]
  <2>1. TAKE i \in 1 .. Len(s)
  <2>2. CASE i < f
    BY <1>1, <1>6, <1>7, <2>2
  <2>3. CASE i >= f
    BY <1>1, <1>8, <2>3
  <2> QED BY <1>1, <2>2, <2>3
<1> QED
  BY <1>1, <1>6, <1>7, <1>8, <1>9 DEF Sequence

(* generate_initialization: a class goes to the end, or before its first   *)
(* heir.                                                                   *)
LEMMA RegisterShape ==
    ASSUME InputInv, ~classes[turn].custom
    PROVE  \E f \in 1 .. Len(registered) + 1 :
              /\ Register(classes[turn]) = InsertAt(registered, f, classes[turn].name)
              /\ \A i \in DOMAIN registered, a \in DOMAIN classes :
                    Stands(classes, registered, i, a) /\ BaseOf(classes, a, turn) => f <= i
              /\ f <= Len(registered) =>
                    \E a \in DOMAIN classes :
                        Stands(classes, registered, f, a) /\ BaseOf(classes, a, turn)
<1> DEFINE base(n) == (CHOOSE x \in ToSet(classes) : x.name = n).base
           c == classes[turn]
           heirs == {i \in DOMAIN registered : base(registered[i]) = c.name}
           first == CHOOSE i \in heirs : \A k \in heirs : i <= k
<1>1. /\ registered \in Seq(ToSet(registered)) /\ Len(registered) \in Nat
      /\ DOMAIN registered = 1 .. Len(registered)
  BY DEF InputInv, Sequence
<1>2. \A i \in DOMAIN registered, a \in DOMAIN classes :
          Stands(classes, registered, i, a) => base(registered[i]) = classes[a].base
  <2>1. TAKE i \in DOMAIN registered, a \in DOMAIN classes
  <2>2. HAVE Stands(classes, registered, i, a)
  <2>3. \A x \in ToSet(classes) : x.name = registered[i] => x = classes[a]
    BY <2>2 DEF InputInv, Visitable, Stands, ToSet
  <2>4. classes[a] \in ToSet(classes) /\ classes[a].name = registered[i]
    BY <2>2 DEF ToSet, Stands
  <2> QED
    BY <2>3, <2>4
<1>3. \A i \in DOMAIN registered : \E a \in DOMAIN classes : Stands(classes, registered, i, a)
  BY DEF InputInv, ToSet, Stands
<1>4. Register(c) = CASE c.custom -> registered
                      [] ~c.custom /\ heirs = {} -> Append(registered, c.name)
                      [] OTHER -> InsertAt(registered, first, c.name)
  BY DEF Register
<1>5. CASE heirs = {}
  <2> DEFINE f == Len(registered) + 1
  <2>1. Register(c) = Append(registered, c.name)
    BY <1>4, <1>5
  <2>2. InsertAt(registered, f, c.name) = Append(registered, c.name)
    <3>1. SubSeq(registered, 1, f - 1) = registered /\ SubSeq(registered, f, Len(registered)) = <<>>
      BY <1>1, SubSeqFull, SubSeqEmpty
    <3>2. Append(registered, c.name) = registered \o <<c.name>>
      BY <1>1, Appended
    <3>3. registered \o <<c.name>> \in Seq(ToSet(registered \o <<c.name>>))
      BY <1>1, Singleton, Concatenated
    <3> QED
      BY <3>1, <3>2, <3>3, ConcatEmptySeq DEF InsertAt
  <2>3. f \in 1 .. Len(registered) + 1 /\ ~(f <= Len(registered))
    BY <1>1
  <2>4. \A i \in DOMAIN registered, a \in DOMAIN classes :
            Stands(classes, registered, i, a) /\ BaseOf(classes, a, turn) => f <= i
    BY <1>2, <1>5 DEF BaseOf
  <2> QED
    BY <2>1, <2>2, <2>3, <2>4
<1>6. CASE heirs # {}
  <2>1. heirs \in SUBSET Nat
    BY <1>1
  <2> HIDE DEF base
  <2>2. first \in heirs /\ \A k \in heirs : first <= k
    <3> HIDE DEF heirs
    <3> QED BY <2>1, <1>6, LeastOf
  <2>3. Register(c) = InsertAt(registered, first, c.name)
    BY <1>4, <1>6
  <2>4. \A i \in DOMAIN registered, a \in DOMAIN classes :
            Stands(classes, registered, i, a) /\ BaseOf(classes, a, turn) => i \in heirs
    BY <1>2 DEF BaseOf
  <2>5. PICK a \in DOMAIN classes : Stands(classes, registered, first, a)
    BY <1>3, <2>2
  <2>6. BaseOf(classes, a, turn)
    BY <1>2, <2>2, <2>5 DEF BaseOf
  <2>7. first \in 1 .. Len(registered) + 1
    BY <1>1, <2>2
  <2> QED
    BY <2>2, <2>3, <2>4, <2>5, <2>6, <2>7
<1> QED
  BY <1>5, <1>6


(* The bases of an ancestor are ancestors.                                 *)
LEMMA BaseOfAncestor ==
    ASSUME NEW cs, NEW i \in DOMAIN cs, NEW k \in Ancestors(cs, i), NEW b \in DOMAIN cs,
           BaseOf(cs, k, b)
    PROVE  b \in Ancestors(cs, i)
<1>1. SUFFICES ASSUME NEW S \in SUBSET DOMAIN cs,
                      \A l \in S \cup {i}, x \in DOMAIN cs : BaseOf(cs, l, x) => x \in S
               PROVE  b \in S
  BY DEF Ancestors
<1>2. k \in S
  BY <1>1 DEF Ancestors
<1> QED
  BY <1>1, <1>2

(* No room is lost: the class goes before its heirs, and its base is       *)
(* before all of them already.                                             *)
LEMMA ListStep ==
    ASSUME NEW cs, Sequence(cs), Visitable(cs), ~HeirFirst(cs),
           NEW n \in Nat, n < Len(cs), ~cs[n + 1].custom, NEW reg,
           ListedOnce(cs, reg, n), ListedInOrder(cs, reg), RoomFor(cs, reg, n),
           NEW f \in 1 .. Len(reg) + 1,
           \A i \in DOMAIN reg, a \in DOMAIN cs :
               Stands(cs, reg, i, a) /\ BaseOf(cs, a, n + 1) => f <= i,
           f <= Len(reg) =>
               \E a \in DOMAIN cs : Stands(cs, reg, f, a) /\ BaseOf(cs, a, n + 1),
           NEW t, t = InsertAt(reg, f, cs[n + 1].name)
    PROVE  ListedOnce(cs, t, n + 1) /\ ListedInOrder(cs, t) /\ RoomFor(cs, t, n + 1)
<1> DEFINE old(i) == IF i < f THEN i ELSE i - 1
<1>1. /\ Sequence(t) /\ Len(reg) \in Nat
      /\ DOMAIN reg = 1 .. Len(reg) /\ DOMAIN t = 1 .. Len(reg) + 1
      /\ t[f] = cs[n + 1].name
      /\ \A i \in 1 .. Len(reg) : t[IF i < f THEN i ELSE i + 1] = reg[i]
      /\ \A i \in 1 .. Len(reg) + 1 : i # f => t[i] = reg[old(i)]
  BY Inserted DEF ListedOnce
<1>2. \A i \in DOMAIN t : i # f => old(i) \in DOMAIN reg
  BY <1>1
<1>3. DOMAIN cs = 1 .. Len(cs) /\ Len(cs) \in Nat /\ n + 1 \in DOMAIN cs
  BY DEF Sequence
<1>4. \A a, b \in DOMAIN cs : cs[a].name = cs[b].name => a = b
  BY DEF Visitable
<1>5. \A i \in DOMAIN reg : \E k \in 1 .. n : ~cs[k].custom /\ reg[i] = cs[k].name
  <2>1. TAKE i \in DOMAIN reg
  <2>2. reg[i] \in {cs[k].name : k \in {l \in 1 .. n : ~cs[l].custom}}
    BY DEF ListedOnce, ToSet
  <2> QED BY <2>2
<1>6. \A a \in DOMAIN cs : Stands(cs, t, f, a) => a = n + 1
  BY <1>1, <1>3, <1>4 DEF Stands
<1>7. \A i \in DOMAIN t, a \in DOMAIN cs : i # f /\ Stands(cs, t, i, a) =>
          Stands(cs, reg, old(i), a) /\ a <= n
  <2>1. TAKE i \in DOMAIN t, a \in DOMAIN cs
  <2>2. HAVE i # f /\ Stands(cs, t, i, a)
  <2>3. Stands(cs, reg, old(i), a)
    BY <1>1, <2>2 DEF Stands
  <2>4. PICK k \in 1 .. n : reg[old(i)] = cs[k].name
    BY <1>2, <1>5, <2>2
  <2>5. cs[a].name = cs[k].name /\ k \in DOMAIN cs
    BY <1>3, <2>3, <2>4 DEF Stands
  <2>6. a = k
    BY <1>4, <2>5
  <2> QED BY <2>3, <2>6
<1> HIDE DEF old
<1>8. \A i, j \in DOMAIN t : i # f /\ j # f => (old(j) < old(i) => j < i)
  BY <1>1 DEF old
<1>9. ASSUME f <= Len(reg)
      PROVE  \E a \in DOMAIN cs : /\ Stands(cs, reg, f, a) /\ BaseOf(cs, a, n + 1)
                                  /\ n + 1 \in Ancestors(cs, a)
  BY <1>3, <1>9, BaseIsAncestor
<1>10. ListedOnce(cs, t, n + 1)
  <2>1. \A i \in DOMAIN t : i # f => t[i] # t[f]
    <3>1. TAKE i \in DOMAIN t
    <3>2. HAVE i # f
    <3>3. PICK k \in 1 .. n : t[i] = cs[k].name
      BY <1>1, <1>2, <1>5, <3>2
    <3>4. k \in DOMAIN cs /\ k # n + 1
      BY <1>3
    <3>5. cs[k].name # cs[n + 1].name
      BY <1>3, <1>4, <3>4
    <3> QED BY <1>1, <3>3, <3>5
  <2>2. \A i, j \in DOMAIN t : t[i] = t[j] => i = j
    <3>1. TAKE i, j \in DOMAIN t
    <3>2. CASE i = f \/ j = f
      BY <2>1, <3>2
    <3>3. CASE i # f /\ j # f
      <4>1. HAVE t[i] = t[j]
      <4>2. reg[old(i)] = reg[old(j)]
        BY <1>1, <3>3, <4>1
      <4>3. old(i) = old(j)
        BY <1>2, <3>3, <4>2 DEF ListedOnce
      <4> QED BY <1>1, <3>3, <4>3 DEF old
    <3> QED BY <3>2, <3>3
  <2>3. ToSet(t) = ToSet(reg) \cup {cs[n + 1].name}
    <3>1. ToSet(t) \subseteq ToSet(reg) \cup {cs[n + 1].name}
      BY <1>1, <1>2 DEF ToSet
    <3>2. \A i \in DOMAIN reg : reg[i] \in ToSet(t)
      <4>1. TAKE i \in DOMAIN reg
      <4>2. (IF i < f THEN i ELSE i + 1) \in DOMAIN t
        BY <1>1
      <4> QED BY <1>1, <4>2 DEF ToSet
    <3>3. cs[n + 1].name \in ToSet(t)
      BY <1>1 DEF ToSet
    <3>4. \A x \in ToSet(reg) : x \in ToSet(t)
      BY <3>2 DEF ToSet
    <3> QED BY <3>1, <3>3, <3>4
  <2>4. {l \in 1 .. n + 1 : ~cs[l].custom} = {l \in 1 .. n : ~cs[l].custom} \cup {n + 1}
    OBVIOUS
  <2> QED
    BY <1>1, <2>2, <2>3, <2>4 DEF ListedOnce
<1>11. ListedInOrder(cs, t)
  <2>1. SUFFICES ASSUME NEW i \in DOMAIN t, NEW j \in DOMAIN t, NEW a \in DOMAIN cs,
                        NEW b \in DOMAIN cs, Stands(cs, t, i, a), Stands(cs, t, j, b),
                        BaseOf(cs, a, b)
                 PROVE  j < i
    BY DEF ListedInOrder
  <2>2. CASE i = f /\ j = f
    BY <1>3, <1>6, <2>1, <2>2, BaseIsAncestor DEF Visitable
  <2>3. CASE i = f /\ j # f
    <3>1. SUFFICES ASSUME j > f PROVE FALSE
      BY <1>1, <2>3
    <3>2. f <= Len(reg) /\ old(j) = j - 1
      BY <1>1, <3>1 DEF old
    <3>3. PICK h \in DOMAIN cs : Stands(cs, reg, f, h) /\ n + 1 \in Ancestors(cs, h)
      BY <1>9, <3>2
    <3>4. Stands(cs, reg, old(j), b) /\ a = n + 1 /\ old(j) \in DOMAIN reg /\ f \in DOMAIN reg
      BY <1>1, <1>2, <1>6, <1>7, <2>1, <2>3, <3>2
    <3>5. old(j) < f
      BY <1>3, <2>1, <3>3, <3>4 DEF RoomFor
    <3> QED BY <1>1, <3>1, <3>2, <3>5
  <2>4. CASE i # f /\ j = f
    <3>1. b = n + 1 /\ Stands(cs, reg, old(i), a) /\ old(i) \in DOMAIN reg
      BY <1>2, <1>6, <1>7, <2>1, <2>4
    <3>2. f <= old(i)
      BY <2>1, <3>1
    <3> QED BY <1>1, <2>4, <3>2 DEF old
  <2>5. CASE i # f /\ j # f
    <3>1. /\ Stands(cs, reg, old(i), a) /\ old(i) \in DOMAIN reg
          /\ Stands(cs, reg, old(j), b) /\ old(j) \in DOMAIN reg
      BY <1>2, <1>7, <2>1, <2>5
    <3> QED BY <1>8, <2>1, <2>5, <3>1 DEF ListedInOrder
  <2> QED BY <2>2, <2>3, <2>4, <2>5
<1>12. RoomFor(cs, t, n + 1)
  <2>1. SUFFICES ASSUME NEW i \in DOMAIN t, NEW j \in DOMAIN t, NEW a \in DOMAIN cs,
                        NEW b \in DOMAIN cs, NEW x \in n + 1 + 1 .. Len(cs),
                        Stands(cs, t, i, a), Stands(cs, t, j, b),
                        BaseOf(cs, x, b), x \in Ancestors(cs, a)
                 PROVE  j < i
    BY DEF RoomFor
  <2>2. x \in DOMAIN cs /\ x \in n + 1 .. Len(cs) /\ x > n + 1
    BY <1>3
  <2>3. CASE i = f /\ j = f
    BY <1>3, <1>6, <2>1, <2>2, <2>3, BaseOfAncestor DEF Visitable
  <2>4. CASE i = f /\ j # f
    <3>1. SUFFICES ASSUME j > f PROVE FALSE
      BY <1>1, <2>4
    <3>2. f <= Len(reg) /\ old(j) = j - 1
      BY <1>1, <3>1 DEF old
    <3>3. PICK h \in DOMAIN cs : Stands(cs, reg, f, h) /\ BaseOf(cs, h, n + 1)
      BY <1>9, <3>2
    <3>4. Stands(cs, reg, old(j), b) /\ a = n + 1 /\ old(j) \in DOMAIN reg /\ f \in DOMAIN reg
      BY <1>1, <1>2, <1>6, <1>7, <2>1, <2>4, <3>2
    <3>5. x \in Ancestors(cs, h)
      BY <1>3, <2>1, <3>3, <3>4, AncestorsOfBase
    <3>6. old(j) < f
      BY <2>1, <2>2, <3>3, <3>4, <3>5 DEF RoomFor
    <3> QED BY <1>1, <3>1, <3>2, <3>6
  <2>5. CASE i # f /\ j = f
    <3>1. b = n + 1 /\ a <= n
      BY <1>6, <1>7, <2>1, <2>5
    <3>2. HeirFirst(cs)
      BY <1>3, <2>1, <2>2, <3>1 DEF HeirFirst
    <3> QED BY <3>2
  <2>6. CASE i # f /\ j # f
    <3>1. /\ Stands(cs, reg, old(i), a) /\ old(i) \in DOMAIN reg
          /\ Stands(cs, reg, old(j), b) /\ old(j) \in DOMAIN reg
      BY <1>2, <1>7, <2>1, <2>6
    <3> QED BY <1>8, <2>1, <2>2, <2>6, <3>1 DEF RoomFor
  <2> QED BY <2>3, <2>4, <2>5, <2>6
<1> QED
  BY <1>10, <1>11, <1>12


---------------------------------------------------------------------------
(* The steps.  A visit adds the statements T, the declarations U and the   *)
(* definitions V of one entry.                                             *)
Stays == UNCHANGED vars
Restarts ==
    /\ bind_methods' = <<>> /\ members' = <<>> /\ sources' = <<>> /\ rpcs' = <<>>
    /\ names' = NoNames /\ classes' = classes
    /\ \/ /\ status = "open" /\ status' = "new" /\ turn < Len(classes)
          /\ turn' = turn + 1 /\ pos' = 0 /\ registered' = registered
       \/ status' = "failed" /\ turn' = turn /\ pos' = pos /\ registered' = <<>>
Opens ==
    /\ status = "new" /\ status' = "open" /\ Opened
    /\ registered' = Register(classes[turn]) /\ UNCHANGED <<classes, turn, pos>>

Accessors(e) == {Setter(e), Getter(e)}
BoundBy(T, n) == \E b \in ToSet(T) : b.do = "bind" /\ b.name = n
SignalBy(T, emission) ==
    \E b \in ToSet(T) : b.do = "signal" /\ b.name = emission[1] /\ b.arguments = emission[2]

Prepares(P, e) ==
    /\ Sequence(P) /\ \A b \in ToSet(P) : b.do \in {"bind", "signal"}
    /\ \A n \in Accessors(e) :
          BoundBy(P, n) \/ (Custom(e) /\ FunctionNamed(class, n).attribute = "function")
StatementsOf(T, e) ==
    /\ Sequence(T) /\ \A b \in ToSet(T) : b.arguments \in Nat
    /\ e.attribute = "function" => BoundBy(T, Exposed(e))
    /\ e.attribute = "property" =>
          \E P : Prepares(P, e) /\ T = Append(P, AddProperty(Exposed(e), Setter(e), Getter(e)))
    /\ e.attribute # "property" => \A b \in ToSet(T) : b.do # "property"
    /\ e.attribute = "group" => \E k \in Nat : T = <<AddGroup(e.bind, k)>>
    /\ e.attribute # "group" => \A b \in ToSet(T) : b.do # "group"
Visits(T, U, V) ==
    /\ status = "open" /\ pos < Len(class) /\ pos' = pos + 1 /\ Accepted(Current)
    /\ UNCHANGED <<classes, turn, status, registered>>
    /\ StatementsOf(T, Current) /\ bind_methods' = bind_methods \o T
    /\ Sequence(U) /\ members' = members \o U
    /\ \A m \in ToSet(U) : m.access \in Access /\ m.is \in {"function", "field", "virtual"}
    /\ Sequence(V) /\ sources' = sources \o V
    /\ \A d \in ToSet(V) : \A emission \in d.emits :
          emission[1] \in GivenSignals \/ SignalBy(T, emission)
    /\ Sequence(rpcs') /\ DOMAIN names' = DOMAIN names

(* The class being visited is one that can be written.                     *)
LEMMA ClassFacts ==
    ASSUME InputInv
    PROVE  /\ Sequence(class) /\ Len(class) \in Nat /\ DOMAIN class = 1 .. Len(class)
           /\ WellNamed(class) /\ Sequence(classes) /\ Len(classes) \in Nat
           /\ DOMAIN classes = 1 .. Len(classes)
           /\ \A e \in ToSet(class) : WellFormed(e)
<1>1. classes \in Inputs /\ turn \in DOMAIN classes /\ classes[turn] \in ToSet(classes)
  BY DEF InputInv, ToSet
<1>2. Sequence(classes) /\ Sequence(class) /\ \A e \in ToSet(class) : WellFormed(e)
  BY <1>1, InputsAssumption DEF class
<1>3. WellNamed(class)
  BY <1>1 DEF InputInv, Visitable, class
<1>4. Len(class) \in Nat /\ DOMAIN class = 1 .. Len(class)
  BY <1>2 DEF Sequence
<1>5. Len(classes) \in Nat /\ DOMAIN classes = 1 .. Len(classes)
  BY <1>2 DEF Sequence
<1> QED
  BY <1>2, <1>3, <1>4, <1>5

(* So is the entry about to be visited.                                    *)
LEMMA CurrentFacts ==
    ASSUME InputInv, pos < Len(class)
    PROVE  pos + 1 \in DOMAIN class /\ Current \in ToSet(class) /\ WellFormed(Current)
<1>1. pos + 1 \in DOMAIN class
  BY ClassFacts DEF InputInv
<1> QED
  BY <1>1, ClassFacts DEF ToSet, Current

(* Sequences and the sets of their elements.                               *)
LEMMA SequenceFacts ==
    /\ Sequence(<<>>) /\ ToSet(<<>>) = {}
    /\ \A x : Sequence(<<x>>) /\ ToSet(<<x>>) = {x}
    /\ \A s, t : Sequence(s) /\ Sequence(t) =>
          Sequence(s \o t) /\ ToSet(s \o t) = ToSet(s) \cup ToSet(t)
    /\ \A s, x : Sequence(s) => /\ Append(s, x) = s \o <<x>> /\ Sequence(Append(s, x))
                                /\ ToSet(Append(s, x)) = ToSet(s) \cup {x}
<1>1. Sequence(<<>>) /\ ToSet(<<>>) = {}
  BY EmptySequence DEF Sequence
<1>2. \A x : Sequence(<<x>>) /\ ToSet(<<x>>) = {x}
  BY Singleton DEF Sequence
<1>3. ASSUME NEW s, NEW t, Sequence(s), Sequence(t)
      PROVE  Sequence(s \o t) /\ ToSet(s \o t) = ToSet(s) \cup ToSet(t)
  BY <1>3, Concatenated DEF Sequence
<1>4. ASSUME NEW s, NEW x, Sequence(s)
      PROVE  /\ Append(s, x) = s \o <<x>> /\ Sequence(Append(s, x))
             /\ ToSet(Append(s, x)) = ToSet(s) \cup {x}
  BY <1>4, Appended DEF Sequence
<1> QED
  BY <1>1, <1>2, <1>3, <1>4

(* The same for two elements.                                              *)
LEMMA PairFacts ==
    ASSUME NEW x, NEW y
    PROVE  Sequence(<<x, y>>) /\ ToSet(<<x, y>>) = {x, y}
<1>1. <<x, y>> \in Seq({x, y}) /\ DOMAIN <<x, y>> = {1, 2}
      /\ <<x, y>>[1] = x /\ <<x, y>>[2] = y
  OBVIOUS
<1> QED
  BY <1>1, OwnSequence DEF ToSet, Sequence


(* A property adds to the three lists.                                     *)
LEMMA PropertyStep ==
    ASSUME InputInv, GenerateProperty
    PROVE  \E T, U, V : Visits(T, U, V)
<1> DEFINE e == Current
           S == IF AddsSignal(e) THEN <<AddSignal(ChangedSignal(e), ValuesEmitted(e))>> ELSE <<>>
           P == (AccessorBind(e, Getter(e)) \o AccessorBind(e, Setter(e))) \o S
           T == PropertyBinds(e)
           U == IF Automatic(e) THEN AutoMembers(e) ELSE <<>>
           V == IF Automatic(e) THEN AutoSources(e) ELSE <<>>
<1>1. /\ status = "open" /\ pos < Len(class) /\ pos' = pos + 1 /\ Accepted(e)
      /\ UNCHANGED <<classes, turn, status, registered>>
      /\ e.attribute = "property"
      /\ bind_methods' = bind_methods \o T /\ members' = members \o U /\ sources' = sources \o V
      /\ rpcs' = rpcs
  BY DEF GenerateProperty, Visiting, Keep, Current
<1>2. e \in ToSet(class) /\ WellFormed(e)
  BY <1>1, CurrentFacts
<1>3. DOMAIN names' = DOMAIN names
  BY DEF GenerateProperty
<1> HIDE DEF e
<1>4. \A n \in Accessors(e) :
          /\ Sequence(AccessorBind(e, n))
          /\ \A b \in ToSet(AccessorBind(e, n)) : b.do = "bind" /\ b.arguments = 0
          /\ \/ BoundBy(AccessorBind(e, n), n)
             \/ Custom(e) /\ FunctionNamed(class, n).attribute = "function"
  <2>1. TAKE n \in Accessors(e)
  <2>2. CASE Automatic(e) \/ FunctionNamed(class, n).attribute # "function"
    <3>1. AccessorBind(e, n) = <<BindMethod(n, n)>>
      BY <2>2 DEF AccessorBind
    <3>2. Sequence(AccessorBind(e, n)) /\ ToSet(AccessorBind(e, n)) = {BindMethod(n, n)}
      BY <3>1, SequenceFacts
    <3>3. /\ BindMethod(n, n).do = "bind" /\ BindMethod(n, n).name = n
          /\ BindMethod(n, n).arguments = 0
      BY DEF BindMethod
    <3> QED
      BY <3>2, <3>3 DEF BoundBy
  <2>3. CASE ~(Automatic(e) \/ FunctionNamed(class, n).attribute # "function")
    <3>1. AccessorBind(e, n) = <<>> /\ Custom(e)
      BY <1>1, <2>3 DEF AccessorBind, Automatic, Custom
    <3> QED
      BY <2>3, <3>1, SequenceFacts
  <2> QED
    BY <2>2, <2>3
<1>5. /\ Sequence(S)
      /\ \A b \in ToSet(S) : b.do = "signal" /\ b.arguments \in Nat
      /\ AddsSignal(e) => SignalBy(S, <<ChangedSignal(e), ValuesEmitted(e)>>)
  <2> DEFINE s == AddSignal(ChangedSignal(e), ValuesEmitted(e))
  <2>1. s.do = "signal" /\ s.name = ChangedSignal(e) /\ s.arguments = ValuesEmitted(e)
        /\ s.arguments \in Nat
    BY DEF AddSignal, ValuesEmitted
  <2> HIDE DEF s
  <2>2. Sequence(S) /\ ToSet(S) = IF AddsSignal(e) THEN {s} ELSE {}
    BY SequenceFacts DEF s
  <2> HIDE DEF S
  <2> QED
    BY <2>1, <2>2 DEF SignalBy
<1> HIDE DEF S
<1>6. Setter(e) \in Accessors(e) /\ Getter(e) \in Accessors(e)
  BY DEF Accessors
<1>7. /\ Sequence(P)
      /\ ToSet(P) = (ToSet(AccessorBind(e, Getter(e))) \cup ToSet(AccessorBind(e, Setter(e))))
                        \cup ToSet(S)
  BY <1>4, <1>5, <1>6, SequenceFacts
<1>8. Prepares(P, e) /\ \A b \in ToSet(P) : b.arguments \in Nat
  <2>1. \A b \in ToSet(P) : b.do \in {"bind", "signal"} /\ b.arguments \in Nat
    BY <1>4, <1>5, <1>6, <1>7
  <2>2. \A n \in Accessors(e) :
            BoundBy(P, n) \/ (Custom(e) /\ FunctionNamed(class, n).attribute = "function")
    BY <1>4, <1>7 DEF Accessors, BoundBy
  <2> QED
    BY <1>7, <2>1, <2>2 DEF Prepares
<1> DEFINE a == AddProperty(Exposed(e), Setter(e), Getter(e))
<1>9. a.do = "property" /\ a.arguments \in Nat
  BY DEF AddProperty
<1>10. T = P \o <<a>>
  BY DEF PropertyBinds, AccessorBinds, S
<1> HIDE DEF P, a, T
<1>11. T = Append(P, a) /\ Sequence(T) /\ ToSet(T) = ToSet(P) \cup {a}
  BY <1>7, <1>10, SequenceFacts
<1>12. StatementsOf(T, e)
  <2>1. \A b \in ToSet(T) : b.arguments \in Nat /\ b.do # "group"
    BY <1>8, <1>9, <1>11 DEF Prepares
  <2>2. \E Q : Prepares(Q, e) /\ T = Append(Q, AddProperty(Exposed(e), Setter(e), Getter(e)))
    BY <1>8, <1>11 DEF a
  <2> QED
    BY <1>1, <1>11, <2>1, <2>2 DEF StatementsOf
<1>13. /\ Sequence(U)
       /\ \A m \in ToSet(U) : m.access \in Access /\ m.is \in {"function", "field", "virtual"}
  <2>1. CASE Automatic(e)
    <3> DEFINE f == IF e.readonly THEN <<Member(Initialized(e), "private", "field")>> ELSE <<>>
               g == IF AddsSignal(e)
                    THEN <<Member(ChangedSignal(e), "private", "function")>> ELSE <<>>
               h == <<Member(Getter(e), e.get, "function"), Member(Setter(e), e.set, "function")>>
    <3>1. U = (f \o g) \o h
      BY <2>1 DEF AutoMembers
    <3>2. {e.get, e.set} \subseteq Access
      BY <1>1, <1>2, <2>1, EmptySequence DEF WellFormed, Automatic
    <3>3. \A n, x, k : Member(n, x, k).access = x /\ Member(n, x, k).is = k
      BY DEF Member
    <3>4. Sequence(f) /\ \A m \in ToSet(f) : m.access = "private" /\ m.is = "field"
      BY <3>3, SequenceFacts
    <3>5. Sequence(g) /\ \A m \in ToSet(g) : m.access = "private" /\ m.is = "function"
      BY <3>3, SequenceFacts
    <3>6. Sequence(h) /\ \A m \in ToSet(h) : m.access \in {e.get, e.set} /\ m.is = "function"
      BY <3>3, PairFacts
    <3> HIDE DEF f, g, h
    <3>7. Sequence(U) /\ ToSet(U) = (ToSet(f) \cup ToSet(g)) \cup ToSet(h)
      <4>1. Sequence(f \o g) /\ ToSet(f \o g) = ToSet(f) \cup ToSet(g)
        BY <3>4, <3>5, SequenceFacts
      <4>2. /\ Sequence((f \o g) \o h)
            /\ ToSet((f \o g) \o h) = ToSet(f \o g) \cup ToSet(h)
        BY <3>6, <4>1, SequenceFacts
      <4> QED
        BY <3>1, <4>1, <4>2
    <3> QED
      BY <3>2, <3>4, <3>5, <3>6, <3>7 DEF Access
  <2>2. CASE ~Automatic(e)
    BY <2>2, SequenceFacts
  <2> QED
    BY <2>1, <2>2
<1>14. /\ Sequence(V)
       /\ \A d \in ToSet(V) : \A emission \in d.emits :
             emission[1] \in GivenSignals \/ SignalBy(T, emission)
  <2>1. CASE Automatic(e)
    <3> DEFINE g == IF AddsSignal(e)
                    THEN <<SignalDefinition(ChangedSignal(e), ValuesEmitted(e))>> ELSE <<>>
               h == <<GetterDefinition(e), SetterDefinition(e)>>
    <3>1. V = g \o h
      BY <2>1 DEF AutoSources
    <3>2. \A n, k : SignalDefinition(n, k).emits = {<<n, k>>}
      BY DEF SignalDefinition, Define
    <3>3. GetterDefinition(e).emits = {}
      BY DEF GetterDefinition, Define
    <3>4. SetterDefinition(e).emits =
              IF Emits(e) THEN {<<ChangedSignal(e), ValuesEmitted(e)>>} ELSE {}
      BY DEF SetterDefinition, Define
    <3>5. Sequence(g) /\ \A d \in ToSet(g) : \A emission \in d.emits :
              AddsSignal(e) /\ emission = <<ChangedSignal(e), ValuesEmitted(e)>>
      BY <3>2, SequenceFacts
    <3>6. Sequence(h) /\ \A d \in ToSet(h) : \A emission \in d.emits :
              Emits(e) /\ emission = <<ChangedSignal(e), ValuesEmitted(e)>>
      BY <3>3, <3>4, PairFacts
    <3> HIDE DEF g, h
    <3>7. Sequence(V) /\ ToSet(V) = ToSet(g) \cup ToSet(h)
      <4>1. Sequence(g \o h) /\ ToSet(g \o h) = ToSet(g) \cup ToSet(h)
        BY <3>5, <3>6, SequenceFacts
      <4> QED
        BY <3>1, <4>1
    <3>8. AddsSignal(e) => SignalBy(T, <<ChangedSignal(e), ValuesEmitted(e)>>)
      BY <1>5, <1>7, <1>11 DEF SignalBy
    <3>9. Emits(e) /\ ~AddsSignal(e) => ChangedSignal(e) \in GivenSignals
      BY <1>2, <2>1 DEF AddsSignal, ChangedSignal, GivenSignals
    <3>10. <<ChangedSignal(e), ValuesEmitted(e)>>[1] = ChangedSignal(e)
      OBVIOUS
    <3> QED
      BY <3>5, <3>6, <3>7, <3>8, <3>9, <3>10
  <2>2. CASE ~Automatic(e)
    BY <2>2, SequenceFacts
  <2> QED
    BY <2>1, <2>2
<1> HIDE DEF U, V
<1>15. Sequence(rpcs')
  BY <1>1 DEF InputInv
<1>16. Visits(T, U, V)
  BY <1>1, <1>3, <1>12, <1>13, <1>14, <1>15 DEF Visits, e
<1> QED
  BY <1>16


(* A function adds to the three lists.                                     *)
LEMMA FunctionStep ==
    ASSUME InputInv, GenerateFunction
    PROVE  \E T, U, V : Visits(T, U, V)
<1> DEFINE e == Current
           T == FunctionBinds(e)
<1>1. /\ status = "open" /\ pos < Len(class) /\ pos' = pos + 1 /\ Accepted(e)
      /\ UNCHANGED <<classes, turn, status, registered>>
      /\ e.attribute = "function"
      /\ bind_methods' = bind_methods \o T
  BY DEF GenerateFunction, Visiting, Keep, Current
<1>2. e \in ToSet(class) /\ WellFormed(e)
  BY <1>1, CurrentFacts
<1>3. e.access \in Access
  BY <1>1, <1>2 DEF WellFormed
<1>4. DOMAIN names' = DOMAIN names /\ Sequence(rpcs')
  BY SequenceFacts DEF GenerateFunction, InputInv
<1>5. StatementsOf(T, e)
  <2> DEFINE v == BindVirtual(VirtualName(e))
             m == BindMethod(Exposed(e), VirtualName(e))
             n == BindMethod(Exposed(e), e.target)
  <2>1. /\ v.do = "virtual" /\ v.arguments \in Nat
        /\ m.do = "bind" /\ m.arguments \in Nat /\ m.name = Exposed(e)
        /\ n.do = "bind" /\ n.arguments \in Nat /\ n.name = Exposed(e)
    BY DEF BindVirtual, BindMethod
  <2>2. T = IF Scripted(e) THEN <<v, m>> ELSE <<n>>
    BY DEF FunctionBinds
  <2> HIDE DEF v, m, n, e, T
  <2>3. Sequence(T) /\ (ToSet(T) = {v, m} \/ ToSet(T) = {n})
    BY <2>2, SequenceFacts, PairFacts
  <2> QED
    BY <1>1, <2>1, <2>3 DEF StatementsOf, BoundBy
<1>6. CASE Scripted(e)
  <2> DEFINE U == <<Member(VirtualName(e), e.access, "function"),
                    Member(VirtualName(e), e.access, "virtual")>>
             d == Define(VirtualName(e), {}, {e.target}, {})
  <2>1. members' = members \o U /\ sources' = Append(sources, d)
    BY <1>6 DEF GenerateFunction
  <2>2. /\ Sequence(U)
        /\ \A m \in ToSet(U) : m.access \in Access /\ m.is \in {"function", "field", "virtual"}
    <3>1. \A k : LET m == Member(VirtualName(e), e.access, k) IN m.access = e.access /\ m.is = k
      BY DEF Member
    <3> QED BY <1>3, <3>1, PairFacts
  <2>3. d.emits = {}
    BY DEF Define
  <2> HIDE DEF U, d, e, T
  <2>4. Sequence(<<d>>) /\ ToSet(<<d>>) = {d} /\ sources' = sources \o <<d>>
    BY <2>1, SequenceFacts DEF InputInv
  <2>5. Visits(T, U, <<d>>)
    BY <1>1, <1>4, <1>5, <2>1, <2>2, <2>3, <2>4 DEF Visits, e
  <2> QED
    BY <2>5
<1>7. CASE ~(Scripted(e))
  <2>1. members' = members \o <<>> /\ sources' = sources \o <<>>
    <3>1. members' = members /\ sources' = sources
      BY <1>7 DEF GenerateFunction
    <3> QED BY <3>1, ConcatEmptySeq DEF InputInv, Sequence
  <2> HIDE DEF e, T
  <2>2. Visits(T, <<>>, <<>>)
    BY <1>1, <1>4, <1>5, <2>1, SequenceFacts DEF Visits, e
  <2> QED
    BY <2>2
<1> QED
  BY <1>6, <1>7

(* A signal adds to the three lists.                                       *)
LEMMA SignalStep ==
    ASSUME InputInv, GenerateSignal
    PROVE  \E T, U, V : Visits(T, U, V)
<1> DEFINE e == Current
           k == Len(e.takes)
           s == AddSignal(Exposed(e), k)
           d == SignalDefinition(Exposed(e), k)
<1>1. /\ status = "open" /\ pos < Len(class) /\ pos' = pos + 1 /\ Accepted(e)
      /\ UNCHANGED <<classes, turn, status, registered>>
      /\ e.attribute = "signal"
      /\ bind_methods' = Append(bind_methods, s) /\ sources' = Append(sources, d)
      /\ members' = members /\ rpcs' = rpcs
  BY DEF GenerateSignal, Visiting, Keep, Current
<1>2. WellFormed(e)
  BY <1>1, CurrentFacts
<1>3. k \in Nat
  BY <1>1, <1>2 DEF WellFormed, Sequence
<1>4. DOMAIN names' = DOMAIN names
  BY DEF GenerateSignal
<1>5. /\ s.do = "signal" /\ s.name = Exposed(e) /\ s.arguments = k
      /\ d.emits = {<<Exposed(e), k>>}
  BY DEF AddSignal, SignalDefinition, Define
<1> HIDE DEF e, k, s, d
<1>6. /\ bind_methods' = bind_methods \o <<s>> /\ sources' = sources \o <<d>>
      /\ members' = members \o <<>>
  BY <1>1, SequenceFacts, ConcatEmptySeq DEF InputInv, Sequence
<1>7. Sequence(<<s>>) /\ ToSet(<<s>>) = {s} /\ Sequence(<<d>>) /\ ToSet(<<d>>) = {d}
  BY SequenceFacts
<1>8. StatementsOf(<<s>>, e)
  BY <1>1, <1>3, <1>5, <1>7 DEF StatementsOf
<1>9. \A x \in ToSet(<<d>>) : \A emission \in x.emits : SignalBy(<<s>>, emission)
  <2>1. \A x \in ToSet(<<d>>) : \A emission \in x.emits : emission = <<Exposed(e), k>>
    BY <1>5, <1>7
  <2>2. <<Exposed(e), k>>[1] = Exposed(e) /\ <<Exposed(e), k>>[2] = k
    OBVIOUS
  <2>3. SignalBy(<<s>>, <<Exposed(e), k>>)
    BY <1>5, <1>7, <2>2 DEF SignalBy
  <2> QED
    BY <2>1, <2>3
<1>10. Visits(<<s>>, <<>>, <<d>>)
  BY <1>1, <1>4, <1>6, <1>7, <1>8, <1>9, SequenceFacts DEF Visits, e, InputInv
<1> QED
  BY <1>10

(* An enum adds to the three lists.                                        *)
LEMMA EnumStep ==
    ASSUME InputInv, GenerateEnum
    PROVE  \E T, U, V : Visits(T, U, V)
<1> DEFINE e == Current
           T == [i \in DOMAIN e.values |-> BindConstant(e.values[i])]
<1>1. /\ status = "open" /\ pos < Len(class) /\ pos' = pos + 1 /\ Accepted(e)
      /\ UNCHANGED <<classes, turn, status, registered>>
      /\ e.attribute = "enum"
      /\ bind_methods' = bind_methods \o T
      /\ members' = members /\ sources' = sources /\ rpcs' = rpcs /\ names' = names
  BY DEF GenerateEnum, Visiting, Keep, Current, Accepted, Automatic, Custom
<1>2. WellFormed(e)
  BY <1>1, CurrentFacts
<1>3. Len(e.values) \in Nat /\ DOMAIN e.values = 1 .. Len(e.values)
  BY <1>1, <1>2 DEF WellFormed, Sequence
<1>4. Sequence(T) /\ \A b \in ToSet(T) : b.do = "constant" /\ b.arguments = 0
  <2>1. \A n : BindConstant(n).do = "constant" /\ BindConstant(n).arguments = 0
    BY DEF BindConstant
  <2>2. DOMAIN T = DOMAIN e.values /\ \A i \in DOMAIN T : T[i].do = "constant" /\ T[i].arguments = 0
    BY <2>1
  <2>3. T \in [1 .. Len(e.values) -> ToSet(T)]
    BY <1>3 DEF ToSet
  <2> HIDE DEF T, e
  <2>4. T \in Seq(ToSet(T))
    BY <1>3, <2>3, SeqDef
  <2> QED BY <2>2, <2>4 DEF ToSet, Sequence
<1> HIDE DEF e, T
<1>5. StatementsOf(T, e)
  BY <1>1, <1>4 DEF StatementsOf
<1>6. members' = members \o <<>> /\ sources' = sources \o <<>>
  BY <1>1, ConcatEmptySeq DEF InputInv, Sequence
<1>7. Visits(T, <<>>, <<>>)
  BY <1>1, <1>5, <1>6, SequenceFacts DEF Visits, e, InputInv
<1> QED
  BY <1>7

(* A category, group or subgroup adds to the three lists.                  *)
LEMMA GroupStep ==
    ASSUME InputInv, GenerateGroup
    PROVE  \E T, U, V : Visits(T, U, V)
<1> DEFINE e == Current
           k == IF e.level = 0 THEN 1 ELSE e.level
           g == AddGroup(e.bind, k)
<1>1. /\ status = "open" /\ pos < Len(class) /\ pos' = pos + 1 /\ Accepted(e)
      /\ UNCHANGED <<classes, turn, status, registered>>
      /\ e.attribute = "group"
      /\ bind_methods' = Append(bind_methods, g)
      /\ members' = members /\ sources' = sources /\ rpcs' = rpcs /\ names' = names
  BY DEF GenerateGroup, Visiting, Keep, Current, Accepted, Automatic, Custom
<1>2. WellFormed(e)
  BY <1>1, CurrentFacts
<1>3. k \in Nat
  BY <1>1, <1>2 DEF WellFormed
<1>4. g.do = "group" /\ g.arguments = k
  BY DEF AddGroup
<1>5. Sequence(<<g>>) /\ ToSet(<<g>>) = {g} /\ bind_methods' = bind_methods \o <<g>>
  BY <1>1, SequenceFacts DEF InputInv
<1>6. StatementsOf(<<g>>, e)
  <2>1. \E n \in Nat : <<g>> = <<AddGroup(e.bind, n)>>
    BY <1>3
  <2> HIDE DEF g, k, e
  <2> QED BY <1>1, <1>3, <1>4, <1>5, <2>1 DEF StatementsOf
<1> HIDE DEF e, k, g
<1>7. members' = members \o <<>> /\ sources' = sources \o <<>>
  BY <1>1, ConcatEmptySeq DEF InputInv, Sequence
<1>8. Visits(<<g>>, <<>>, <<>>)
  BY <1>1, <1>5, <1>6, <1>7, SequenceFacts DEF Visits, e, InputInv
<1> QED
  BY <1>8

(* An entry without an attribute adds nothing.                             *)
LEMMA PassStep ==
    ASSUME InputInv, PassBy
    PROVE  \E T, U, V : Visits(T, U, V)
<1>1. /\ status = "open" /\ pos < Len(class) /\ pos' = pos + 1 /\ Accepted(Current)
      /\ UNCHANGED <<classes, turn, status, registered>>
      /\ Current.attribute = "none"
      /\ bind_methods' = bind_methods /\ members' = members /\ sources' = sources
      /\ rpcs' = rpcs /\ names' = names
  BY DEF PassBy, Visiting, Keep, Current, Accepted, Automatic, Custom
<1>2. /\ bind_methods' = bind_methods \o <<>>
      /\ members' = members \o <<>> /\ sources' = sources \o <<>>
  BY <1>1, ConcatEmptySeq DEF InputInv, Sequence
<1>3. StatementsOf(<<>>, Current)
  BY <1>1, SequenceFacts DEF StatementsOf
<1>4. Visits(<<>>, <<>>, <<>>)
  BY <1>1, <1>2, <1>3, SequenceFacts DEF Visits, InputInv
<1> QED
  BY <1>4

(* Every step is of one of four kinds.                                     *)
LEMMA EveryStep ==
    ASSUME InputInv, [Next]_vars
    PROVE  Stays \/ Restarts \/ Opens \/ \E T, U, V : Visits(T, U, V)
<1>1. CASE OpenClass
  BY <1>1 DEF OpenClass, Opens
<1>2. CASE NextClass
  BY <1>2 DEF NextClass, Restarts
<1>3. CASE Reject
  BY <1>3 DEF Reject, Restarts
<1>4. CASE UNCHANGED vars
  BY <1>4 DEF Stays
<1> QED
  BY <1>1, <1>2, <1>3, <1>4, PropertyStep, FunctionStep, SignalStep, EnumStep, GroupStep,
     PassStep DEF Next


---------------------------------------------------------------------------
(* The facts hold before the first class is opened.                        *)
LEMMA InputInit == Init => InputInv
<1>1. ASSUME Init PROVE InputInv
  <2>1. classes \in Inputs /\ Visitable(classes) /\ turn = 1 /\ pos = 0 /\ status = "new"
    BY <1>1 DEF Init
  <2>2. Sequence(classes) /\ classes # <<>> /\ \A c \in ToSet(classes) : Sequence(c.body)
    BY <2>1, InputsAssumption
  <2>3. 1 \in DOMAIN classes
    BY <2>2 DEF Sequence
  <2>4. Sequence(class)
    BY <2>1, <2>2, <2>3 DEF class, ToSet
  <2>5. Len(class) \in Nat
    BY <2>4 DEF Sequence
  <2>6. Sequence(registered) /\ ToSet(registered) = {}
    BY <1>1, SequenceFacts DEF Init
  <2> QED
    BY <1>1, <2>1, <2>3, <2>5, <2>6, SequenceFacts DEF Init, InputInv
<1> QED
  BY <1>1

(* Registering a class adds no name but its own.                           *)
LEMMA RegisteredNames ==
    ASSUME InputInv
    PROVE  /\ Sequence(Register(classes[turn]))
           /\ ToSet(Register(classes[turn])) \subseteq {c.name : c \in ToSet(classes)}
<1> DEFINE c == classes[turn]
<1>1. c \in ToSet(classes)
  BY DEF InputInv, ToSet
<1>2. CASE c.custom
  BY <1>2 DEF Register, InputInv
<1>3. CASE ~c.custom
  <2>1. PICK f \in 1 .. Len(registered) + 1 : Register(c) = InsertAt(registered, f, c.name)
    BY <1>3, RegisterShape
  <2> DEFINE t == Register(c)
  <2> HIDE DEF t
  <2>2. /\ Sequence(t) /\ DOMAIN registered = 1 .. Len(registered) /\ Len(registered) \in Nat
        /\ DOMAIN t = 1 .. Len(registered) + 1 /\ t[f] = c.name
        /\ \A i \in 1 .. Len(registered) + 1 :
              i # f => t[i] = registered[IF i < f THEN i ELSE i - 1]
    BY <2>1, Inserted DEF InputInv, t
  <2>3. \A i \in DOMAIN t : i # f => (IF i < f THEN i ELSE i - 1) \in DOMAIN registered
    BY <2>2
  <2>4. \A i \in DOMAIN t : t[i] \in ToSet(registered) \cup {c.name}
    BY <2>2, <2>3 DEF ToSet
  <2>5. ToSet(t) \subseteq ToSet(registered) \cup {c.name}
    BY <2>4 DEF ToSet
  <2> QED
    BY <1>1, <2>2, <2>5 DEF InputInv, t
<1> QED
  BY <1>2, <1>3

(* Every step keeps them.                                                  *)
LEMMA InputStep == InputInv /\ [Next]_vars => InputInv'
<1> SUFFICES ASSUME InputInv, [Next]_vars PROVE InputInv'
  OBVIOUS
<1>1. CASE Stays
  BY <1>1 DEF Stays, vars, result, InputInv, class
<1>2. CASE Restarts
  <2>1. /\ Sequence(bind_methods') /\ Sequence(members') /\ Sequence(sources') /\ Sequence(rpcs')
        /\ classes' = classes /\ status' \in {"new", "open", "failed"}
    BY <1>2, SequenceFacts DEF Restarts
  <2>2. turn' \in DOMAIN classes /\ (status' = "new" => pos' = 0)
    BY <1>2, ClassFacts DEF Restarts, InputInv
  <2>3. pos' \in 0 .. Len(class')
    <3>1. CASE pos' = 0
      <4>1. classes[turn'] \in ToSet(classes) /\ classes \in Inputs
        BY <2>2 DEF ToSet, InputInv
      <4>2. Sequence(classes[turn'].body)
        BY <4>1, InputsAssumption
      <4>3. Len(classes[turn'].body) \in Nat
        BY <4>2 DEF Sequence
      <4> QED BY <2>1, <3>1, <4>3 DEF class
    <3>2. CASE pos' # 0
      BY <1>2, <3>2 DEF Restarts, InputInv, class
    <3> QED BY <3>1, <3>2
  <2>4. /\ Sequence(registered')
        /\ ToSet(registered') \subseteq {c.name : c \in ToSet(classes')}
    BY <1>2, SequenceFacts DEF Restarts, InputInv
  <2> QED
    BY <2>1, <2>2, <2>3, <2>4 DEF InputInv
<1>3. CASE Opens
  <2>1. /\ Sequence(bind_methods') /\ Sequence(members') /\ Sequence(sources') /\ Sequence(rpcs')
        /\ classes' = classes /\ turn' = turn /\ pos' = pos /\ status' = "open"
    BY <1>3, SequenceFacts, PairFacts DEF Opens, Opened
  <2>2. registered' = Register(classes[turn])
    BY <1>3 DEF Opens
  <2> QED
    BY <2>1, <2>2, RegisteredNames DEF InputInv, class
<1>4. ASSUME NEW T, NEW U, NEW V, Visits(T, U, V) PROVE InputInv'
  <2>1. /\ classes' = classes /\ turn' = turn /\ status' = status /\ pos' = pos + 1
        /\ pos < Len(class)
    BY <1>4 DEF Visits
  <2>2. /\ Sequence(bind_methods') /\ Sequence(members') /\ Sequence(sources') /\ Sequence(rpcs')
    BY <1>4, SequenceFacts DEF Visits, StatementsOf, InputInv
  <2>3. pos + 1 \in 0 .. Len(class)
    BY <2>1, ClassFacts DEF InputInv
  <2>4. class' = class
    BY <2>1 DEF class
  <2> QED
    BY <1>4, <2>1, <2>2, <2>3, <2>4 DEF InputInv, Visits
<1> QED
  BY <1>1, <1>2, <1>3, <1>4, EveryStep

(* A visit adds its own elements to the lists and takes none away.         *)
LEMMA SetsKept ==
    ASSUME InputInv, NEW T, NEW U, NEW V, Visits(T, U, V)
    PROVE  /\ ToSet(bind_methods') = ToSet(bind_methods) \cup ToSet(T)
           /\ ToSet(members') = ToSet(members) \cup ToSet(U)
           /\ ToSet(sources') = ToSet(sources) \cup ToSet(V)
           /\ class' = class
BY SequenceFacts DEF Visits, StatementsOf, InputInv, class

(* A signal is added in the step that defines what emits it, and           *)
(* statements are only dropped with the definitions.                       *)
LEMMA EmittedStep == InputInv /\ EmittedInv /\ [Next]_vars => EmittedInv'
<1> SUFFICES ASSUME InputInv, EmittedInv, [Next]_vars PROVE EmittedInv'
  OBVIOUS
<1>1. CASE Stays
  BY <1>1 DEF Stays, vars, result, EmittedInv, GivenSignals, class
<1>2. CASE Restarts
  BY <1>2, SequenceFacts DEF Restarts, EmittedInv
<1>3. CASE Opens
  <2>1. \A n : Define(n, {}, {}, {}).emits = {}
    BY DEF Define
  <2>2. \A d \in ToSet(sources') : d.emits = {}
    BY <1>3, <2>1, PairFacts DEF Opens, Opened
  <2> QED
    BY <2>2 DEF EmittedInv
<1>4. ASSUME NEW T, NEW U, NEW V, Visits(T, U, V) PROVE EmittedInv'
  <2>1. GivenSignals' = GivenSignals
    BY <1>4, SetsKept DEF GivenSignals
  <2>2. SUFFICES ASSUME NEW d \in ToSet(sources'), NEW emission \in d.emits,
                        emission[1] \notin GivenSignals
                 PROVE  SignalBy(bind_methods', emission)
    BY <2>1 DEF EmittedInv, SignalBy
  <2>3. CASE d \in ToSet(sources)
    BY <1>4, <2>2, <2>3, SetsKept DEF EmittedInv, SignalBy
  <2>4. CASE d \in ToSet(V)
    <3>1. SignalBy(T, emission)
      BY <1>4, <2>2, <2>4 DEF Visits
    <3> QED
      BY <1>4, <3>1, SetsKept DEF SignalBy
  <2> QED
    BY <1>4, <2>3, <2>4, SetsKept
<1> QED
  BY <1>1, <1>2, <1>3, <1>4, EveryStep

(* The variables have their types at the start.                            *)
LEMMA TypeInit == Init => TypeOK
<1>1. ASSUME Init PROVE TypeOK
  <2>1. turn \in DOMAIN classes /\ pos \in 0 .. Len(class)
    BY <1>1, InputInit DEF InputInv
  <2> QED
    BY <1>1, <2>1, SequenceFacts, EmptySequence DEF Init, TypeOK, NoNames
<1> QED
  BY <1>1


(* Every step keeps the types.                                             *)
LEMMA TypeStep == InputInv /\ TypeOK /\ [Next]_vars => TypeOK'
<1> SUFFICES ASSUME InputInv, TypeOK, [Next]_vars PROVE TypeOK'
  OBVIOUS
<1>1. /\ turn' \in DOMAIN classes' /\ pos' \in 0 .. Len(class')
      /\ ToSet(registered') \subseteq {c.name : c \in ToSet(classes')}
      /\ status' \in {"new", "open", "failed"}
  BY InputStep DEF InputInv
<1> DEFINE Kinds ==
        /\ \A i \in DOMAIN bind_methods : bind_methods[i].arguments \in Nat
        /\ \A i \in DOMAIN members :
              /\ members[i].access \in Access
              /\ members[i].is \in {"function", "field", "virtual"}
        /\ DOMAIN names = {"property", "function", "signal"}
<1>2. Kinds'
  <2>1. CASE Stays
    BY <2>1 DEF Stays, vars, result, TypeOK
  <2>2. CASE Restarts
    BY <2>2, EmptySequence DEF Restarts, NoNames
  <2>3. CASE Opens
    <3>1. bind_methods' = <<>> /\ DOMAIN names' = {"property", "function", "signal"}
      BY <2>3 DEF Opens, Opened, NoNames
    <3>2. \A n : Member(n, "public", "function").access = "public"
                 /\ Member(n, "public", "function").is = "function"
      BY DEF Member
    <3>3. \A m \in ToSet(members') : m.access = "public" /\ m.is = "function"
      BY <2>3, <3>2, PairFacts DEF Opens, Opened
    <3> QED
      BY <3>1, <3>3, EmptySequence DEF ToSet, Access
  <2>4. ASSUME NEW T, NEW U, NEW V, Visits(T, U, V)
        PROVE  Kinds'
    <3>1. \A b \in ToSet(bind_methods) \cup ToSet(T) : b.arguments \in Nat
      BY <2>4 DEF TypeOK, ToSet, Visits, StatementsOf
    <3>2. \A m \in ToSet(members) \cup ToSet(U) :
              m.access \in Access /\ m.is \in {"function", "field", "virtual"}
      BY <2>4 DEF TypeOK, ToSet, Visits
    <3>3. DOMAIN names' = DOMAIN names
      BY <2>4 DEF Visits
    <3>4. \A i \in DOMAIN bind_methods' : bind_methods'[i] \in ToSet(bind_methods')
      BY DEF ToSet
    <3>5. \A i \in DOMAIN members' : members'[i] \in ToSet(members')
      BY DEF ToSet
    <3> QED
      BY <2>4, <3>1, <3>2, <3>3, <3>4, <3>5, SetsKept DEF TypeOK
  <2> QED
    BY <2>1, <2>2, <2>3, <2>4, EveryStep
<1> QED
  BY <1>1, <1>2 DEF TypeOK

(* docs of ClassDB and the comment of EmittedIsAdded: whatever generated   *)
(* code emits under a name of its own is a signal Godot knows, with as     *)
(* many arguments, at every point of the visit of any class.               *)
THEOREM Emitted == Spec => []EmittedIsAdded
<1> DEFINE Inv == InputInv /\ TypeOK /\ EmittedInv
<1>1. Init => Inv
  <2>1. Init => EmittedInv
    BY SequenceFacts DEF Init, EmittedInv
  <2> QED
    BY <2>1, InputInit, TypeInit
<1>2. Inv /\ [Next]_vars => Inv'
  BY InputStep, TypeStep, EmittedStep
<1>3. Inv => EmittedIsAdded
  <2>1. ASSUME Inv PROVE EmittedIsAdded
    <3>1. SUFFICES ASSUME NEW emission \in Emissions, emission[1] \notin GivenSignals
                   PROVE  \E i \in Doing("signal") : /\ bind_methods[i].name = emission[1]
                                                     /\ bind_methods[i].arguments = emission[2]
      BY <2>1 DEF EmittedIsAdded
    <3>2. PICK d \in ToSet(sources) : emission \in d.emits
      BY <3>1 DEF Emissions, ToSet
    <3>3. PICK b \in ToSet(bind_methods) :
              b.do = "signal" /\ b.name = emission[1] /\ b.arguments = emission[2]
      BY <2>1, <3>1, <3>2 DEF EmittedInv
    <3> QED
      BY <3>3 DEF Doing, ToSet
  <2> QED BY <2>1
<1> QED
  BY <1>1, <1>2, <1>3, PTL DEF Spec


---------------------------------------------------------------------------
(* What the hypothesis says of the classes given.                          *)
LEMMA OrderlyUse ==
    ASSUME InputInv, Orderly
    PROVE  ~HeirFirst(classes) /\ ~RenamedAccessor(class) /\ ~AccessorBoundLater(class)
<1>1. Visitable(classes) /\ Evenly(class)
  BY DEF InputInv, Visitable, class
<1>2. \A u \in BodyUsages : u \notin Usage => ~UsedIn(u, class)
  BY <1>1 DEF Evenly
<1>3. /\ "renamed accessor" \in BodyUsages /\ "renamed accessor" \notin Usage
      /\ "accessor bound later" \in BodyUsages /\ "accessor bound later" \notin Usage
      /\ "heir first" \notin Usage
  BY Zenon DEF BodyUsages, Orderly
<1>4. /\ UsedIn("renamed accessor", class) = RenamedAccessor(class)
      /\ UsedIn("accessor bound later", class) = AccessorBoundLater(class)
  BY Zenon DEF UsedIn
<1>5. HeirFirst(classes) => "heir first" \in Usage
  BY <1>1, Zenon DEF Visitable
<1> QED
  BY <1>2, <1>3, <1>4, <1>5, Zenon

(* A class is registered behind its bases, whatever was registered before. *)
LEMMA RegisterStep ==
    Orderly /\ InputInv /\ RegisterInv /\ [Next]_vars => RegisterInv'
<1> SUFFICES ASSUME Orderly, InputInv, RegisterInv, [Next]_vars PROVE RegisterInv'
  OBVIOUS
<1>1. CASE Stays
  BY <1>1 DEF Stays, vars, RegisterInv, Visited
<1>2. CASE Restarts
  <2>1. CASE status' = "failed"
    BY <1>2, <2>1 DEF Restarts, RegisterInv
  <2>2. CASE status' # "failed"
    <3>1. /\ status = "open" /\ status' = "new" /\ turn' = turn + 1
          /\ registered' = registered /\ classes' = classes
      BY <1>2, <2>2 DEF Restarts
    <3>2. Visited' = Visited
      BY <3>1, ClassFacts DEF Visited, InputInv
    <3> QED
      BY <3>1, <3>2 DEF RegisterInv
  <2> QED
    BY <2>1, <2>2
<1>3. CASE Opens
  <2> DEFINE n == turn - 1
             c == classes[turn]
  <2>1. /\ status = "new" /\ status' = "open" /\ classes' = classes /\ turn' = turn
        /\ registered' = Register(c)
    BY <1>3 DEF Opens
  <2>2. n \in Nat /\ n < Len(classes) /\ n + 1 = turn /\ Visited = n /\ Visited' = n + 1
    BY <2>1, ClassFacts DEF Visited, InputInv
  <2>3. /\ ListedOnce(classes, registered, n) /\ ListedInOrder(classes, registered)
        /\ RoomFor(classes, registered, n)
    BY <2>1, <2>2 DEF RegisterInv
  <2>4. CASE c.custom
    <3>1. registered' = registered
      BY <2>1, <2>4 DEF Register
    <3>2. {l \in 1 .. n + 1 : ~classes[l].custom} = {l \in 1 .. n : ~classes[l].custom}
      BY <2>2, <2>4
    <3>3. ListedOnce(classes, registered, n + 1)
      BY <2>3, <3>2 DEF ListedOnce
    <3>4. RoomFor(classes, registered, n + 1)
      BY <2>2, <2>3, ClassFacts DEF RoomFor
    <3> QED
      BY <2>1, <2>2, <2>3, <3>1, <3>3, <3>4 DEF RegisterInv
  <2>5. CASE ~c.custom
    <3>1. PICK f \in 1 .. Len(registered) + 1 :
              /\ Register(c) = InsertAt(registered, f, c.name)
              /\ \A i \in DOMAIN registered, a \in DOMAIN classes :
                    Stands(classes, registered, i, a) /\ BaseOf(classes, a, turn) => f <= i
              /\ f <= Len(registered) =>
                    \E a \in DOMAIN classes :
                        Stands(classes, registered, f, a) /\ BaseOf(classes, a, turn)
      BY <2>5, RegisterShape
    <3>2. Visitable(classes) /\ Sequence(classes) /\ ~HeirFirst(classes)
      BY OrderlyUse, ClassFacts DEF InputInv
    <3> DEFINE t == Register(c)
    <3>3. t = InsertAt(registered, f, classes[n + 1].name)
      BY <2>2, <3>1
    <3> HIDE DEF t
    <3>4. ListedOnce(classes, t, n + 1) /\ ListedInOrder(classes, t) /\ RoomFor(classes, t, n + 1)
      <4> DEFINE m == turn - 1
      <4>1. m \in Nat /\ m < Len(classes) /\ m = n /\ m + 1 = turn
        BY <2>2
      <4>2. ~classes[m + 1].custom
        BY <2>5, <4>1
      <4>3. \A i \in DOMAIN registered, a \in DOMAIN classes :
                Stands(classes, registered, i, a) /\ BaseOf(classes, a, m + 1) => f <= i
        BY <3>1, <4>1
      <4>4. f <= Len(registered) => \E a \in DOMAIN classes :
                Stands(classes, registered, f, a) /\ BaseOf(classes, a, m + 1)
        BY <3>1, <4>1
      <4>5. t = InsertAt(registered, f, classes[m + 1].name)
        BY <3>3
      <4>6. ListedOnce(classes, registered, m) /\ RoomFor(classes, registered, m)
        BY <2>3
      <4> HIDE DEF m
      <4>7. ListedOnce(classes, t, m + 1) /\ ListedInOrder(classes, t) /\ RoomFor(classes, t, m + 1)
        BY <2>3, <3>2, <4>1, <4>2, <4>3, <4>4, <4>5, <4>6, ListStep
      <4> QED
        BY <4>7 DEF m
    <3> QED
      BY <2>1, <2>2, <3>4 DEF RegisterInv, t
  <2> QED
    BY <2>4, <2>5
<1>4. ASSUME NEW T, NEW U, NEW V, Visits(T, U, V) PROVE RegisterInv'
  BY <1>4 DEF Visits, RegisterInv, Visited
<1> QED
  BY <1>1, <1>2, <1>3, <1>4, EveryStep

(* Every function visited is bound.                                        *)
LEMMA FunctionsStep == InputInv /\ FunctionsBound /\ [Next]_vars => FunctionsBound'
<1> SUFFICES ASSUME InputInv, FunctionsBound, [Next]_vars PROVE FunctionsBound'
  OBVIOUS
<1>1. CASE Stays
  BY <1>1 DEF Stays, vars, result, FunctionsBound, class
<1>2. CASE Restarts
  BY <1>2 DEF Restarts, FunctionsBound
<1>3. CASE Opens
  <2>1. pos' = 0
    BY <1>3 DEF Opens, InputInv
  <2> QED
    BY <2>1 DEF FunctionsBound
<1>4. ASSUME NEW T, NEW U, NEW V, Visits(T, U, V) PROVE FunctionsBound'
  <2>1. /\ status = "open" /\ pos' = pos + 1 /\ class' = class
        /\ ToSet(bind_methods') = ToSet(bind_methods) \cup ToSet(T)
    BY <1>4, SetsKept DEF Visits
  <2>2. SUFFICES ASSUME NEW k \in 1 .. pos + 1, class[k].attribute = "function"
                 PROVE  BoundBy(bind_methods', Exposed(class[k]))
    BY <2>1 DEF FunctionsBound, BoundBy
  <2>3. CASE k = pos + 1
    BY <1>4, <2>1, <2>2, <2>3 DEF Visits, StatementsOf, Current, BoundBy
  <2>4. CASE k # pos + 1
    <3>1. k \in 1 .. pos
      BY <2>4 DEF InputInv
    <3> QED
      BY <2>1, <2>2, <3>1 DEF FunctionsBound, BoundBy
  <2> QED
    BY <2>3, <2>4
<1> QED
  BY <1>1, <1>2, <1>3, <1>4, EveryStep

(* An accessor with an attribute of its own comes before the property and  *)
(* is exposed under its own name.                                          *)
LEMMA AccessorVisited ==
    ASSUME InputInv, Orderly, FunctionsBound, status = "open", pos < Len(class),
           Accepted(Current), Current.attribute = "property", Custom(Current),
           NEW n \in Accessors(Current), FunctionNamed(class, n).attribute = "function"
    PROVE  BoundBy(bind_methods, n)
<1> DEFINE e == Current
           f == FunctionNamed(class, n)
<1>1. pos + 1 \in DOMAIN class /\ e \in ToSet(class) /\ WellFormed(e) /\ class[pos + 1] = e
  BY CurrentFacts DEF Current
<1>2. e.accessors # <<>> /\ ToSet(e.accessors) \subseteq FunctionNames(class)
  BY DEF Accepted, Custom, Automatic, BindableAccessors
<1>3. n \in ToSet(e.accessors)
  <2>1. Sequence(e.accessors) /\ Len(e.accessors) = 2
    BY <1>1, <1>2 DEF WellFormed
  <2>2. DOMAIN e.accessors = 1 .. 2
    BY <2>1 DEF Sequence
  <2>3. n = e.accessors[1] \/ n = e.accessors[2]
    BY DEF Accessors, Setter, Getter
  <2> QED
    BY <2>2, <2>3 DEF ToSet
<1>4. \E x \in Functions(class) : x.target = n
  BY <1>2, <1>3 DEF FunctionNames
<1>5. f \in Functions(class) /\ f.target = n
  BY <1>4 DEF FunctionNamed
<1> HIDE DEF e, f
<1>6. f.bind = NoName
  BY <1>1, <1>3, <1>5, OrderlyUse DEF RenamedAccessor, e, f
<1>7. PICK j \in DOMAIN class : class[j] = f
  BY <1>5 DEF Functions, ToSet
<1>8. ~(pos + 1 < j)
  BY <1>1, <1>3, <1>5, <1>7, OrderlyUse DEF AccessorBoundLater, e, f
<1>9. j # pos + 1
  BY <1>1, <1>7 DEF e, f
<1>10. j \in 1 .. pos
  BY <1>7, <1>8, <1>9, ClassFacts DEF InputInv
<1>11. Exposed(f) = n
  BY <1>5, <1>6 DEF Exposed
<1> QED
  BY <1>7, <1>10, <1>11 DEF FunctionsBound, BoundBy, f

(* An accessor is bound in the statements of its property, or was before.  *)
LEMMA BoundStep ==
    Orderly /\ InputInv /\ FunctionsBound /\ BoundBeforeNamed /\ [Next]_vars => BoundBeforeNamed'
<1> SUFFICES ASSUME Orderly, InputInv, FunctionsBound, BoundBeforeNamed, [Next]_vars
             PROVE  BoundBeforeNamed'
  OBVIOUS
<1>1. CASE Stays
  BY <1>1 DEF Stays, vars, result, BoundBeforeNamed, Doing
<1>2. CASE bind_methods' = <<>>
  BY <1>2, EmptySequence DEF BoundBeforeNamed, Doing
<1>3. ASSUME NEW T, NEW U, NEW V, Visits(T, U, V) PROVE BoundBeforeNamed'
  <2> DEFINE s == bind_methods
             t == bind_methods'
             e == Current
  <2>1. /\ t = s \o T /\ Sequence(s) /\ Sequence(T) /\ StatementsOf(T, e)
        /\ status = "open" /\ pos < Len(class) /\ Accepted(e)
    BY <1>3 DEF Visits, StatementsOf, InputInv
  <2> HIDE DEF s, t, e
  <2>2. /\ Len(s) \in Nat /\ DOMAIN s = 1 .. Len(s) /\ Len(T) \in Nat /\ DOMAIN T = 1 .. Len(T)
        /\ DOMAIN t = 1 .. Len(s) + Len(T)
    BY <2>1, Concatenated DEF Sequence
  <2>3. /\ \A i \in 1 .. Len(s) : t[i] = s[i]
        /\ \A i \in 1 .. Len(T) : t[Len(s) + i] = T[i]
    BY <2>1, Concatenated DEF Sequence
  <2>4. SUFFICES ASSUME NEW i \in DOMAIN t, t[i].do = "property", NEW n \in ToSet(t[i].uses)
                 PROVE  \E j \in DOMAIN t : t[j].do = "bind" /\ j < i /\ t[j].name = n
    BY DEF BoundBeforeNamed, Doing, t
  <2>5. CASE i <= Len(s)
    <3>1. i \in DOMAIN s /\ t[i] = s[i]
      BY <2>2, <2>3, <2>5
    <3>2. PICK j \in DOMAIN s : s[j].do = "bind" /\ j < i /\ s[j].name = n
      BY <2>4, <3>1 DEF BoundBeforeNamed, Doing, s
    <3> QED
      BY <2>2, <2>3, <3>2
  <2>6. CASE i > Len(s)
    <3> DEFINE a == AddProperty(Exposed(e), Setter(e), Getter(e))
    <3>1. i - Len(s) \in DOMAIN T /\ t[i] = T[i - Len(s)] /\ T[i - Len(s)] \in ToSet(T)
      BY <2>2, <2>3, <2>6 DEF ToSet
    <3>2. e.attribute = "property"
      BY <2>1, <2>4, <3>1 DEF StatementsOf
    <3>3. PICK P : Prepares(P, e) /\ T = Append(P, a)
      BY <2>1, <3>2 DEF StatementsOf
    <3>4. ToSet(a.uses) = Accessors(e)
      BY PairFacts DEF AddProperty, Accessors
    <3> HIDE DEF a
    <3>5. P \in Seq(ToSet(P)) /\ Sequence(P)
      BY <3>3 DEF Prepares, Sequence
    <3>6. Len(P) \in Nat /\ DOMAIN P = 1 .. Len(P)
      BY <3>5, Appended
    <3>7. Len(T) = Len(P) + 1 /\ T[Len(P) + 1] = a
      BY <3>3, <3>5, Appended
    <3>8. \A j \in DOMAIN P : T[j] = P[j] /\ P[j] \in ToSet(P)
      BY <3>3, <3>5, <3>6, Appended DEF ToSet
    <3>9. i - Len(s) = Len(P) + 1
      <4>1. i - Len(s) \notin DOMAIN P
        BY <2>4, <3>1, <3>3, <3>8 DEF Prepares
      <4> QED BY <2>2, <3>1, <3>6, <3>7, <4>1
    <3>10. n \in Accessors(e)
      BY <2>4, <3>1, <3>4, <3>7, <3>9
    <3>11. CASE BoundBy(P, n)
      <4>1. PICK j \in DOMAIN P : P[j].do = "bind" /\ P[j].name = n
        BY <3>11 DEF BoundBy, ToSet
      <4>2. Len(s) + j \in DOMAIN t /\ t[Len(s) + j] = P[j] /\ Len(s) + j < i
        BY <2>2, <2>3, <3>6, <3>7, <3>8, <3>9
      <4> QED BY <4>1, <4>2
    <3>12. CASE Custom(e) /\ FunctionNamed(class, n).attribute = "function"
      <4>1. BoundBy(s, n)
        BY <2>1, <3>2, <3>10, <3>12, AccessorVisited DEF e, s
      <4>2. PICK j \in DOMAIN s : s[j].do = "bind" /\ s[j].name = n
        BY <4>1 DEF BoundBy, ToSet
      <4> QED
        BY <2>2, <2>3, <2>6, <4>2
    <3> QED
      BY <3>3, <3>10, <3>11, <3>12 DEF Prepares
  <2> QED
    BY <2>2, <2>5, <2>6
<1> QED
  BY <1>1, <1>2, <1>3, EveryStep DEF Restarts, Opens, Opened

---------------------------------------------------------------------------
(* The group that is open: it is not changed by what follows without a     *)
(* group, of the statements or of the class.                               *)
LEMMA LevelKept ==
    ASSUME NEW c, NEW s, NEW T, Sequence(s), Sequence(T), NEW k, NEW i \in 1 .. Len(s) + 1,
           SameLevel(c, s, k, i)
    PROVE  SameLevel(c, s \o T, k, i)
<1> DEFINE t == s \o T
<1>1. /\ Len(s) \in Nat /\ DOMAIN s = 1 .. Len(s) /\ Len(T) \in Nat
      /\ DOMAIN t = 1 .. Len(s) + Len(T)
  BY Concatenated DEF Sequence
<1>2. \A j \in 1 .. Len(s) : t[j] = s[j]
  BY Concatenated DEF Sequence
<1>3. PICK g \in GroupsOf(c) \cup {0}, h \in Is(s, "group") \cup {0} :
          LastIn(GroupsOf(c), k, g) /\ LastIn(Is(s, "group"), i, h) /\ SameGroup(c, s, g, h)
  BY DEF SameLevel
<1> HIDE DEF t
<1>4. h \in Is(t, "group") \cup {0}
  BY <1>1, <1>2 DEF Is
<1>5. LastIn(Is(t, "group"), i, h)
  <2>1. h < i /\ \A j \in Is(s, "group") : j < i => j <= h
    BY <1>3 DEF LastIn
  <2>2. \A j \in Is(t, "group") : j < i => j \in Is(s, "group")
    BY <1>1, <1>2 DEF Is
  <2> QED BY <2>1, <2>2 DEF LastIn
<1>6. SameGroup(c, t, g, h)
  <2>1. h # 0 => t[h] = s[h]
    BY <1>1, <1>2 DEF Is
  <2> QED BY <1>3, <2>1 DEF SameGroup
<1> QED
  BY <1>3, <1>4, <1>5, <1>6 DEF SameLevel, t

(* Binds that open no group leave the level where it was.                  *)
LEMMA LevelCarried ==
    ASSUME NEW c, NEW s, NEW T, Sequence(s), Sequence(T), NEW k,
           \A b \in ToSet(T) : b.do # "group",
           NEW i \in Len(s) + 1 .. Len(s) + Len(T) + 1,
           SameLevel(c, s, k, Len(s) + 1)
    PROVE  SameLevel(c, s \o T, k, i)
<1> DEFINE t == s \o T
<1>1. /\ Len(s) \in Nat /\ DOMAIN s = 1 .. Len(s) /\ Len(T) \in Nat /\ DOMAIN T = 1 .. Len(T)
      /\ DOMAIN t = 1 .. Len(s) + Len(T)
  BY Concatenated DEF Sequence
<1>2. /\ \A j \in 1 .. Len(s) : t[j] = s[j]
      /\ \A j \in 1 .. Len(T) : t[Len(s) + j] = T[j]
  BY Concatenated DEF Sequence
<1>3. PICK g \in GroupsOf(c) \cup {0}, h \in Is(s, "group") \cup {0} :
          /\ LastIn(GroupsOf(c), k, g) /\ LastIn(Is(s, "group"), Len(s) + 1, h)
          /\ SameGroup(c, s, g, h)
  BY DEF SameLevel
<1> HIDE DEF t
<1>4. h \in Is(t, "group") \cup {0}
  BY <1>1, <1>2 DEF Is
<1>5. LastIn(Is(t, "group"), i, h)
  <2>1. h < Len(s) + 1 /\ \A j \in Is(s, "group") : j < Len(s) + 1 => j <= h
    BY <1>3 DEF LastIn
  <2>2. \A j \in Is(t, "group") : j \in Is(s, "group")
    <3>1. TAKE j \in Is(t, "group")
    <3>2. CASE j <= Len(s)
      BY <1>1, <1>2, <3>2 DEF Is
    <3>3. CASE j > Len(s)
      <4>1. j - Len(s) \in DOMAIN T /\ t[j] = T[j - Len(s)]
        BY <1>1, <1>2, <3>3 DEF Is
      <4>2. t[j].do # "group"
        BY <4>1 DEF ToSet
      <4> QED BY <4>2 DEF Is
    <3> QED BY <1>1, <3>2, <3>3 DEF Is
  <2>3. h \in Nat /\ i \in Nat /\ i >= Len(s) + 1 /\ \A j \in Is(s, "group") : j < Len(s) + 1
    BY <1>1 DEF Is
  <2> QED BY <2>1, <2>2, <2>3 DEF LastIn
<1>6. SameGroup(c, t, g, h)
  <2>1. h # 0 => t[h] = s[h]
    BY <1>1, <1>2 DEF Is
  <2> QED BY <1>3, <2>1 DEF SameGroup
<1> QED
  BY <1>3, <1>4, <1>5, <1>6 DEF SameLevel, t

(* An entry that opens no group leaves the level for the next entry.       *)
LEMMA LevelPassed ==
    ASSUME NEW c, Sequence(c), NEW s, NEW k \in DOMAIN c, NEW i, c[k].attribute # "group",
           SameLevel(c, s, k, i)
    PROVE  SameLevel(c, s, k + 1, i)
<1>1. DOMAIN c = 1 .. Len(c) /\ Len(c) \in Nat
  BY DEF Sequence
<1>2. PICK g \in GroupsOf(c) \cup {0}, h \in Is(s, "group") \cup {0} :
          LastIn(GroupsOf(c), k, g) /\ LastIn(Is(s, "group"), i, h) /\ SameGroup(c, s, g, h)
  BY DEF SameLevel
<1>3. \A j \in GroupsOf(c) : j < k + 1 => j < k
  BY <1>1 DEF GroupsOf
<1>4. LastIn(GroupsOf(c), k + 1, g)
  BY <1>1, <1>2, <1>3 DEF LastIn, GroupsOf
<1> QED
  BY <1>2, <1>4 DEF SameLevel

(* A group that is visited is the last one on both sides.                  *)
LEMMA LevelOpened ==
    ASSUME NEW c, Sequence(c), NEW s, Sequence(s), NEW k \in DOMAIN c,
           c[k].attribute = "group", NEW x
    PROVE  SameLevel(c, s \o <<AddGroup(c[k].bind, x)>>, k + 1, Len(s) + 1 + 1)
<1> DEFINE a == AddGroup(c[k].bind, x)
           t == s \o <<a>>
           n == Len(s) + 1
<1>1. DOMAIN c = 1 .. Len(c) /\ Len(c) \in Nat
  BY DEF Sequence
<1>2. a.do = "group" /\ a.name = c[k].bind
  BY DEF AddGroup
<1> HIDE DEF a
<1>3. Append(s, a) = t
  BY Appended DEF Sequence
<1>4. Len(s) \in Nat /\ DOMAIN t = 1 .. Len(s) + 1
  BY <1>3, Appended DEF Sequence
<1>5. t[n] = a
  BY <1>3, Appended DEF Sequence
<1> HIDE DEF t
<1>6. k \in GroupsOf(c) /\ n \in Is(t, "group") /\ k # 0 /\ n # 0
  BY <1>1, <1>2, <1>4, <1>5 DEF GroupsOf, Is
<1>7. LastIn(GroupsOf(c), k + 1, k)
  BY <1>1 DEF LastIn, GroupsOf
<1>8. LastIn(Is(t, "group"), n + 1, n)
  BY <1>4 DEF LastIn, Is
<1>9. SameGroup(c, t, k, n)
  BY <1>2, <1>5, <1>6 DEF SameGroup
<1>10. SameLevel(c, t, k + 1, n + 1)
  <2> HIDE DEF n
  <2> QED
    BY <1>6, <1>7, <1>8, <1>9 DEF SameLevel
<1> QED
  BY <1>10 DEF t, a


(* What is bound for one entry leaves the groups of the class body and     *)
(* those of the statements in step.                                        *)
LEMMA GroupsStep == InputInv /\ GroupInv /\ [Next]_vars => GroupInv'
<1> SUFFICES ASSUME InputInv, GroupInv, [Next]_vars PROVE GroupInv'
  OBVIOUS
<1>1. CASE Stays
  BY <1>1 DEF Stays, vars, result, GroupInv, class
<1>2. CASE Restarts
  BY <1>2 DEF Restarts, GroupInv
<1>3. CASE Opens
  <2>1. bind_methods' = <<>> /\ pos' = 0 /\ class' = class
    BY <1>3 DEF Opens, Opened, InputInv, class
  <2>2. Is(<<>>, "group") = {} /\ Is(<<>>, "property") = {}
    BY EmptySequence DEF Is
  <2>3. LastIn(GroupsOf(class), 1, 0) /\ LastIn({}, 1, 0) /\ SameGroup(class, <<>>, 0, 0)
    BY ClassFacts DEF LastIn, GroupsOf, SameGroup
  <2>4. SameLevel(class, <<>>, 1, 1)
    BY <2>2, <2>3 DEF SameLevel
  <2>5. ShownInGroups(class, <<>>, 0)
    BY <2>2 DEF ShownInGroups
  <2> QED
    BY <2>1, <2>4, <2>5, EmptySequence DEF GroupInv
<1>4. ASSUME NEW T, NEW U, NEW V, Visits(T, U, V) PROVE GroupInv'
  <2> DEFINE c == class
             s == bind_methods
             t == bind_methods'
             k == pos + 1
             e == Current
  <2>1. /\ t = s \o T /\ Sequence(s) /\ Sequence(T) /\ StatementsOf(T, e)
        /\ pos' = k /\ class' = c /\ c[k] = e /\ k \in DOMAIN c /\ k \in Nat /\ Sequence(c)
        /\ pos \in Nat
        /\ SameLevel(c, s, k, Len(s) + 1) /\ ShownInGroups(c, s, pos)
    <3>1. status = "open" /\ pos < Len(class) /\ pos \in Nat
      BY <1>4, ClassFacts DEF Visits, InputInv
    <3>2. k \in DOMAIN c /\ k \in Nat /\ Sequence(c) /\ c[k] = e
      BY <3>1, CurrentFacts, ClassFacts DEF Current
    <3>3. SameLevel(c, s, k, Len(s) + 1) /\ ShownInGroups(c, s, pos)
      BY <3>1 DEF GroupInv
    <3> QED
      BY <1>4, <3>1, <3>2, <3>3 DEF Visits, StatementsOf, InputInv, class
  <2>2. SUFFICES SameLevel(c, t, k + 1, Len(t) + 1) /\ ShownInGroups(c, t, k)
    BY <2>1 DEF GroupInv
  <2> HIDE DEF c, s, t, k, e
  <2>3. /\ Len(s) \in Nat /\ DOMAIN s = 1 .. Len(s) /\ Len(T) \in Nat /\ DOMAIN T = 1 .. Len(T)
        /\ DOMAIN t = 1 .. Len(s) + Len(T) /\ Len(t) = Len(s) + Len(T)
    BY <2>1, Concatenated DEF Sequence
  <2>4. /\ \A i \in 1 .. Len(s) : t[i] = s[i]
        /\ \A i \in 1 .. Len(T) : t[Len(s) + i] = T[i]
    BY <2>1, Concatenated DEF Sequence
  <2>5. SameLevel(c, t, k + 1, Len(t) + 1)
    <3>1. CASE e.attribute = "group"
      <4>1. PICK x \in Nat : T = <<AddGroup(e.bind, x)>>
        BY <2>1, <3>1 DEF StatementsOf
      <4>2. Len(T) = 1
        BY <4>1
      <4>3. SameLevel(c, s \o T, k + 1, Len(s) + 1 + 1)
        BY <2>1, <3>1, <4>1, LevelOpened
      <4> QED
        BY <2>1, <2>3, <4>2, <4>3
    <3>2. CASE e.attribute # "group"
      <4>1. \A b \in ToSet(T) : b.do # "group"
        BY <2>1, <3>2 DEF StatementsOf
      <4>2. Len(t) + 1 \in Len(s) + 1 .. Len(s) + Len(T) + 1
        BY <2>3
      <4>3. SameLevel(c, t, k, Len(t) + 1)
        BY <2>1, <4>1, <4>2, LevelCarried
      <4> QED
        BY <2>1, <3>2, <4>3, LevelPassed
    <3> QED
      BY <3>1, <3>2
  <2>6. ShownInGroups(c, t, k)
    <3>1. SUFFICES ASSUME NEW i \in Is(t, "property")
                   PROVE  \E l \in 1 .. k : /\ c[l].attribute = "property"
                                            /\ Exposed(c[l]) = t[i].name
                                            /\ SameLevel(c, t, l, i)
      BY DEF ShownInGroups
    <3>2. i \in 1 .. Len(s) + Len(T) /\ t[i].do = "property"
      BY <2>3, <3>1 DEF Is
    <3>3. CASE i <= Len(s)
      <4>1. i \in Is(s, "property") /\ t[i] = s[i] /\ i \in 1 .. Len(s) + 1
        BY <2>3, <2>4, <3>2, <3>3 DEF Is
      <4>2. PICK l \in 1 .. pos : /\ c[l].attribute = "property" /\ Exposed(c[l]) = s[i].name
                                  /\ SameLevel(c, s, l, i)
        BY <2>1, <4>1 DEF ShownInGroups
      <4>3. SameLevel(c, t, l, i)
        BY <2>1, <4>1, <4>2, LevelKept
      <4>4. l \in 1 .. k
        BY <2>1 DEF k
      <4> QED
        BY <4>1, <4>2, <4>3, <4>4
    <3>4. CASE i > Len(s)
      <4> DEFINE a == AddProperty(Exposed(e), Setter(e), Getter(e))
      <4>1. i - Len(s) \in DOMAIN T /\ t[i] = T[i - Len(s)] /\ T[i - Len(s)] \in ToSet(T)
        BY <2>3, <2>4, <3>2, <3>4 DEF ToSet
      <4>2. e.attribute = "property"
        BY <2>1, <3>2, <4>1 DEF StatementsOf
      <4>3. PICK P : Prepares(P, e) /\ T = Append(P, a)
        BY <2>1, <4>2 DEF StatementsOf
      <4>4. a.name = Exposed(e)
        BY DEF AddProperty
      <4> HIDE DEF a
      <4>5. P \in Seq(ToSet(P)) /\ Sequence(P)
        BY <4>3 DEF Prepares, Sequence
      <4>6. ToSet(T) = ToSet(P) \cup {a}
        BY <4>3, <4>5, Appended
      <4>7. t[i] = a
        BY <3>2, <4>1, <4>3, <4>6 DEF Prepares
      <4>8. \A b \in ToSet(T) : b.do # "group"
        BY <2>1, <4>2 DEF StatementsOf
      <4>9. i \in Len(s) + 1 .. Len(s) + Len(T) + 1
        BY <2>3, <3>2, <3>4
      <4>10. SameLevel(c, t, k, i)
        BY <2>1, <4>8, <4>9, LevelCarried
      <4>11. k \in 1 .. k
        BY <2>1 DEF k
      <4> QED
        BY <2>1, <4>2, <4>4, <4>7, <4>10, <4>11
    <3> QED
      BY <2>3, <3>2, <3>3, <3>4
  <2> QED
    BY <2>5, <2>6
<1> QED
  BY <1>1, <1>2, <1>3, <1>4, EveryStep

---------------------------------------------------------------------------
(* What LastBefore chooses.                                                *)
LEMMA LastIsChosen ==
    ASSUME NEW S \in SUBSET (Nat \ {0}), NEW i \in Nat, NEW j \in S \cup {0}, LastIn(S, i, j)
    PROVE  LastBefore(S, i) = j
<1>1. \A k \in S \cup {0} : k < i /\ (\A l \in S : l < i => l <= k) => k = j
  BY DEF LastIn
<1>2. j < i /\ \A l \in S : l < i => l <= j
  BY DEF LastIn
<1> QED
  BY <1>1, <1>2 DEF LastBefore

(* The invariants say that the registration is in order.                   *)
LEMMA InOrder ==
    ASSUME InputInv, TypeOK, RegisterInv, BoundBeforeNamed, GroupInv
    PROVE  RegisteredInOrder
<1>1. BasesFirst
  <2>1. CASE status = "failed"
    BY <2>1, EmptySequence DEF BasesFirst, RegisterInv
  <2>2. CASE status # "failed"
    <3>1. /\ ListedOnce(classes, registered, Visited) /\ ListedInOrder(classes, registered)
      BY <2>2 DEF RegisterInv
    <3>2. \A i, j \in DOMAIN registered : registered[i] = registered[j] => i = j
      BY <3>1 DEF ListedOnce
    <3>3. \A i, j \in DOMAIN registered, c \in ToSet(classes) :
              c.name = registered[i] /\ c.base = registered[j] => j < i
      <4>1. SUFFICES ASSUME NEW i \in DOMAIN registered, NEW j \in DOMAIN registered,
                            NEW c \in ToSet(classes),
                            c.name = registered[i], c.base = registered[j]
                     PROVE  j < i
        OBVIOUS
      <4>2. PICK a \in DOMAIN classes : classes[a] = c
        BY DEF ToSet
      <4>3. PICK d \in ToSet(classes) : d.name = registered[j]
        BY DEF InputInv, ToSet
      <4>4. PICK b \in DOMAIN classes : classes[b] = d
        BY DEF ToSet
      <4>5. /\ Stands(classes, registered, i, a) /\ Stands(classes, registered, j, b)
            /\ BaseOf(classes, a, b)
        BY <4>1, <4>2, <4>3, <4>4 DEF Stands, BaseOf
      <4> QED
        BY <3>1, <4>5 DEF ListedInOrder
    <3>4. status = "open" => \A k \in 1 .. turn :
              classes[k].custom \/ classes[k].name \in ToSet(registered)
      BY <3>1 DEF ListedOnce, Visited
    <3> QED
      BY <3>2, <3>3, <3>4 DEF BasesFirst
  <2> QED
    BY <2>1, <2>2
<1>2. GroupsFollowBody
  <2>1. SUFFICES ASSUME Complete, NEW i \in Doing("property")
                 PROVE  LET k == CHOOSE x \in DOMAIN Shown :
                                     Exposed(class[x]) = bind_methods[i].name
                            g == LastBefore(Doing("group"), i)
                        IN  IF Shown[k] = 0 THEN g = 0
                            ELSE g # 0 /\ bind_methods[g].name = class[Shown[k]].bind
    BY DEF GroupsFollowBody
  <2>2. /\ status = "open" /\ DOMAIN class = 1 .. Len(class) /\ pos = Len(class)
        /\ Len(class) \in Nat
        /\ DOMAIN bind_methods = 1 .. Len(bind_methods) /\ Len(bind_methods) \in Nat
    BY <2>1, ClassFacts DEF Complete, InputInv, Sequence
  <2>3. /\ DOMAIN Shown = {k \in DOMAIN class : class[k].attribute = "property"}
        /\ \A k \in DOMAIN Shown : Shown[k] = LastBefore(GroupsOf(class), k)
    BY DEF Shown, GroupsOf
  <2>4. PICK k \in 1 .. pos : /\ class[k].attribute = "property"
                              /\ Exposed(class[k]) = bind_methods[i].name
                              /\ SameLevel(class, bind_methods, k, i)
    BY <2>1, <2>2 DEF GroupInv, ShownInGroups, Is, Doing
  <2>5. k \in DOMAIN Shown
    BY <2>2, <2>3, <2>4
  <2>6. \A x \in DOMAIN Shown : Exposed(class[x]) = bind_methods[i].name => x = k
    BY <2>3, <2>4, <2>5, ClassFacts DEF WellNamed, Unique
  <2>7. (CHOOSE x \in DOMAIN Shown : Exposed(class[x]) = bind_methods[i].name) = k
    BY <2>4, <2>5, <2>6
  <2>8. PICK g \in GroupsOf(class) \cup {0}, h \in Is(bind_methods, "group") \cup {0} :
            /\ LastIn(GroupsOf(class), k, g) /\ LastIn(Is(bind_methods, "group"), i, h)
            /\ SameGroup(class, bind_methods, g, h)
    BY <2>4 DEF SameLevel
  <2>9. Shown[k] = g
    <3>1. GroupsOf(class) \in SUBSET (Nat \ {0}) /\ k \in Nat
      BY <2>2 DEF GroupsOf
    <3>2. LastBefore(GroupsOf(class), k) = g
      BY <2>8, <3>1, LastIsChosen
    <3> QED
      BY <2>3, <2>5, <3>2
  <2>10. LastBefore(Doing("group"), i) = h
    <3>1. Is(bind_methods, "group") \in SUBSET (Nat \ {0}) /\ i \in Nat
      BY <2>1, <2>2 DEF Is, Doing
    <3>2. Doing("group") = Is(bind_methods, "group")
      BY DEF Doing, Is
    <3> QED
      BY <2>8, <3>1, <3>2, LastIsChosen
  <2> QED
    BY <2>7, <2>8, <2>9, <2>10 DEF SameGroup
<1> QED
  BY <1>1, <1>2 DEF RegisteredInOrder

(* They hold at the start.                                                 *)
LEMMA OrderInit == Init => RegisterInv /\ FunctionsBound /\ BoundBeforeNamed /\ GroupInv
<1> SUFFICES ASSUME Init PROVE RegisterInv /\ FunctionsBound /\ BoundBeforeNamed /\ GroupInv
  OBVIOUS
<1>1. status = "new" /\ turn = 1 /\ registered = <<>> /\ bind_methods = <<>>
  BY DEF Init
<1>2. Visited = 0
  BY <1>1 DEF Visited
<1>3. ListedOnce(classes, <<>>, 0)
  BY SequenceFacts, EmptySequence DEF ListedOnce
<1>4. ListedInOrder(classes, <<>>) /\ RoomFor(classes, <<>>, 0)
  BY EmptySequence DEF ListedInOrder, RoomFor
<1> QED
  BY <1>1, <1>2, <1>3, <1>4, EmptySequence
     DEF RegisterInv, FunctionsBound, BoundBeforeNamed, Doing, GroupInv

(* ClassDB's demands and the comments of the runs' properties: whatever    *)
(* the classes and the order in which their sources are visited, a base is *)
(* registered before its heirs, an accessor is bound before the property   *)
(* that names it, and a property is shown in the group it is written in;   *)
(* as long as the usages that leave no such order do not occur.            *)
THEOREM Ordered == ASSUME Orderly PROVE Spec => []RegisteredInOrder
<1> DEFINE Inv == /\ InputInv /\ TypeOK /\ RegisterInv
                  /\ FunctionsBound /\ BoundBeforeNamed /\ GroupInv
<1>1. Init => Inv
  BY InputInit, TypeInit, OrderInit
<1>2. Inv /\ [Next]_vars => Inv'
  BY InputStep, TypeStep, RegisterStep, FunctionsStep, BoundStep, GroupsStep
<1>3. Inv => RegisteredInOrder
  BY InOrder
<1> QED
  BY <1>1, <1>2, <1>3, PTL DEF Spec


---------------------------------------------------------------------------
(* The names of what a visit adds.  Functions are declared and defined,    *)
(* and methods bound, once.                                                *)
FunctionsIn(U) == {m \in ToSet(U) : m.is = "function"}
BindsIn(T) == {b \in ToSet(T) : b.do = "bind"}
NamesIn(R) == {r.name : r \in R}
Once(s, R) ==
    \A i, j \in DOMAIN s : s[i] \in R /\ s[j] \in R /\ s[i].name = s[j].name => i = j

(* Two parts without a name in common, each name in each once: once in     *)
(* both.                                                                   *)
LEMMA OnceJoined ==
    ASSUME NEW s, Sequence(s), NEW t, Sequence(t), NEW R, Once(s, R), Once(t, R),
           \A x \in R \cap ToSet(s), y \in R \cap ToSet(t) : x.name # y.name
    PROVE  Once(s \o t, R)
<1>1. /\ Len(s) \in Nat /\ DOMAIN s = 1 .. Len(s) /\ Len(t) \in Nat /\ DOMAIN t = 1 .. Len(t)
      /\ DOMAIN (s \o t) = 1 .. Len(s) + Len(t)
      /\ \A i \in 1 .. Len(s) : (s \o t)[i] = s[i]
      /\ \A i \in 1 .. Len(t) : (s \o t)[Len(s) + i] = t[i]
  BY Concatenated DEF Sequence
<1>2. SUFFICES ASSUME NEW i \in DOMAIN (s \o t), NEW j \in DOMAIN (s \o t),
                      (s \o t)[i] \in R, (s \o t)[j] \in R, (s \o t)[i].name = (s \o t)[j].name
               PROVE  i = j
  BY DEF Once
<1>3. \A k \in DOMAIN (s \o t) :
          \/ k \in DOMAIN s /\ (s \o t)[k] = s[k] /\ s[k] \in ToSet(s)
          \/ /\ k - Len(s) \in DOMAIN t /\ (s \o t)[k] = t[k - Len(s)]
             /\ t[k - Len(s)] \in ToSet(t)
  <2>1. TAKE k \in DOMAIN (s \o t)
  <2>2. CASE k <= Len(s)
    BY <1>1, <2>2 DEF ToSet
  <2>3. CASE k > Len(s)
    <3>1. k - Len(s) \in 1 .. Len(t) /\ Len(s) + (k - Len(s)) = k
      BY <1>1, <2>3
    <3> QED BY <1>1, <3>1 DEF ToSet
  <2> QED BY <1>1, <2>2, <2>3
<1> DEFINE InS(k) == k \in DOMAIN s /\ (s \o t)[k] = s[k] /\ s[k] \in ToSet(s)
           InT(k) == /\ k - Len(s) \in DOMAIN t /\ (s \o t)[k] = t[k - Len(s)]
                     /\ t[k - Len(s)] \in ToSet(t)
<1>4. (InS(i) \/ InT(i)) /\ (InS(j) \/ InT(j))
  BY <1>3
<1>5. CASE InS(i) /\ InS(j)
  BY <1>2, <1>5 DEF Once
<1>6. CASE InT(i) /\ InT(j)
  <2>1. i - Len(s) = j - Len(s)
    BY <1>2, <1>6 DEF Once
  <2> QED BY <1>1, <2>1
<1>7. CASE InS(i) /\ InT(j)
  BY <1>2, <1>7
<1>8. CASE InT(i) /\ InS(j)
  BY <1>2, <1>8
<1> QED
  BY <1>4, <1>5, <1>6, <1>7, <1>8

(* A name alone is there once.                                             *)
LEMMA OnceAlone == \A x, R : Once(<<x>>, R) /\ Once(<<>>, R)
<1>1. ASSUME NEW x, NEW R PROVE Once(<<x>>, R)
  <2>1. DOMAIN <<x>> = {1}
    OBVIOUS
  <2> QED BY <2>1 DEF Once
<1>2. ASSUME NEW R PROVE Once(<<>>, R)
  BY EmptySequence DEF Once
<1> QED BY <1>1, <1>2

(* Two that differ are there once each.                                    *)
LEMMA OncePair ==
    ASSUME NEW x, NEW y, NEW R, x \in R /\ y \in R => x.name # y.name
    PROVE  Once(<<x, y>>, R)
<1>1. DOMAIN <<x, y>> = {1, 2} /\ <<x, y>>[1] = x /\ <<x, y>>[2] = y
  OBVIOUS
<1> QED
  BY <1>1 DEF Once

(* The functions among the declarations, and the methods bound, of two     *)
(* parts.                                                                  *)
LEMMA PartsJoined ==
    ASSUME NEW s, Sequence(s), NEW t, Sequence(t)
    PROVE  /\ FunctionsIn(s \o t) = FunctionsIn(s) \cup FunctionsIn(t)
           /\ BindsIn(s \o t) = BindsIn(s) \cup BindsIn(t)
           /\ /\ Once(s, FunctionsIn(s)) /\ Once(t, FunctionsIn(t))
              /\ NamesIn(FunctionsIn(s)) \cap NamesIn(FunctionsIn(t)) = {}
              => Once(s \o t, FunctionsIn(s \o t))
           /\ /\ Once(s, BindsIn(s)) /\ Once(t, BindsIn(t))
              /\ NamesIn(BindsIn(s)) \cap NamesIn(BindsIn(t)) = {}
              => Once(s \o t, BindsIn(s \o t))
           /\ /\ Once(s, ToSet(s)) /\ Once(t, ToSet(t))
              /\ NamesIn(ToSet(s)) \cap NamesIn(ToSet(t)) = {}
              => Once(s \o t, ToSet(s \o t))
<1>1. ToSet(s \o t) = ToSet(s) \cup ToSet(t)
  BY SequenceFacts
<1>2. FunctionsIn(s \o t) = FunctionsIn(s) \cup FunctionsIn(t)
  BY <1>1 DEF FunctionsIn
<1>3. BindsIn(s \o t) = BindsIn(s) \cup BindsIn(t)
  BY <1>1 DEF BindsIn
<1>4. ASSUME Once(s, FunctionsIn(s)), Once(t, FunctionsIn(t)),
             NamesIn(FunctionsIn(s)) \cap NamesIn(FunctionsIn(t)) = {}
      PROVE  Once(s \o t, FunctionsIn(s \o t))
  <2> DEFINE R == FunctionsIn(s \o t)
  <2>1. R \cap ToSet(s) = FunctionsIn(s) /\ R \cap ToSet(t) = FunctionsIn(t)
    BY <1>1 DEF FunctionsIn
  <2>2. \A i \in DOMAIN s : s[i] \in ToSet(s)
    BY DEF ToSet
  <2>3. \A i \in DOMAIN t : t[i] \in ToSet(t)
    BY DEF ToSet
  <2>4. Once(s, R) /\ Once(t, R)
    BY <1>4, <2>1, <2>2, <2>3 DEF Once
  <2>5. \A x \in R \cap ToSet(s), y \in R \cap ToSet(t) : x.name # y.name
    BY <1>4, <2>1 DEF NamesIn
  <2> QED BY <2>4, <2>5, OnceJoined
<1>5. ASSUME Once(s, BindsIn(s)), Once(t, BindsIn(t)),
             NamesIn(BindsIn(s)) \cap NamesIn(BindsIn(t)) = {}
      PROVE  Once(s \o t, BindsIn(s \o t))
  <2> DEFINE R == BindsIn(s \o t)
  <2>1. R \cap ToSet(s) = BindsIn(s) /\ R \cap ToSet(t) = BindsIn(t)
    BY <1>1 DEF BindsIn
  <2>2. \A i \in DOMAIN s : s[i] \in ToSet(s)
    BY DEF ToSet
  <2>3. \A i \in DOMAIN t : t[i] \in ToSet(t)
    BY DEF ToSet
  <2>4. Once(s, R) /\ Once(t, R)
    BY <1>5, <2>1, <2>2, <2>3 DEF Once
  <2>5. \A x \in R \cap ToSet(s), y \in R \cap ToSet(t) : x.name # y.name
    BY <1>5, <2>1 DEF NamesIn
  <2> QED BY <2>4, <2>5, OnceJoined
<1>6. ASSUME Once(s, ToSet(s)), Once(t, ToSet(t)),
             NamesIn(ToSet(s)) \cap NamesIn(ToSet(t)) = {}
      PROVE  Once(s \o t, ToSet(s \o t))
  <2> DEFINE R == ToSet(s \o t)
  <2>2. \A i \in DOMAIN s : s[i] \in ToSet(s)
    BY DEF ToSet
  <2>3. \A i \in DOMAIN t : t[i] \in ToSet(t)
    BY DEF ToSet
  <2>4. Once(s, R) /\ Once(t, R)
    BY <1>6, <2>2, <2>3 DEF Once
  <2>5. \A x \in R \cap ToSet(s), y \in R \cap ToSet(t) : x.name # y.name
    BY <1>6 DEF NamesIn
  <2> QED BY <2>4, <2>5, OnceJoined
<1> QED
  BY <1>2, <1>3, <1>4, <1>5, <1>6

---------------------------------------------------------------------------
(* Names that are made differ.                                             *)
LEMMA FirstParts ==
    ASSUME NEW x, NEW y, NEW s, Sequence(s), NEW t, Sequence(t), x # y
    PROVE  <<x>> \o s # <<y>> \o t
<1>1. <<x>> \in Seq(ToSet(<<x>>)) /\ Len(<<x>>) = 1 /\ <<x>>[1] = x
      /\ <<y>> \in Seq(ToSet(<<y>>)) /\ Len(<<y>>) = 1 /\ <<y>>[1] = y
  BY Singleton
<1>2. (<<x>> \o s)[1] = x
  BY <1>1, Concatenated DEF Sequence
<1>3. (<<y>> \o t)[1] = y
  BY <1>1, Concatenated DEF Sequence
<1> QED BY <1>2, <1>3

(* A name with x before it is not one with y after it: it would be x all   *)
(* the way.                                                                *)
LEMMA BothEnds ==
    ASSUME NEW x, NEW y, NEW s, Sequence(s), x # y
    PROVE  <<x>> \o s # s \o <<y>>
<1> SUFFICES ASSUME <<x>> \o s = s \o <<y>> PROVE FALSE
  OBVIOUS
<1> DEFINE r == <<x>> \o s
           n == Len(s)
<1>1. <<x>> \in Seq(ToSet(<<x>>)) /\ Len(<<x>>) = 1 /\ <<x>>[1] = x
      /\ <<y>> \in Seq(ToSet(<<y>>)) /\ Len(<<y>>) = 1 /\ <<y>>[1] = y
  BY Singleton
<1>2. n \in Nat /\ r[1] = x /\ \A i \in 1 .. n : r[1 + i] = s[i]
  BY <1>1, Concatenated DEF Sequence
<1>3. (s \o <<y>>)[n + 1] = y /\ \A i \in 1 .. n : (s \o <<y>>)[i] = s[i]
  BY <1>1, Concatenated DEF Sequence
<1> HIDE DEF n
<1>4. r[n + 1] = y /\ \A i \in 1 .. n : r[i] = s[i]
  BY <1>3
<1> HIDE DEF r
<1> DEFINE Bad == {k \in Nat : k \in 1 .. n + 1 /\ r[k] # x}
<1>5. n + 1 \in Bad
  BY <1>2, <1>4
<1>6. PICK m \in Bad : \A k \in Bad : m <= k
  <2>1. Bad \in SUBSET Nat /\ Bad # {}
    BY <1>5
  <2> HIDE DEF Bad
  <2> QED BY <2>1, LeastOf
<1>7. m # 1 /\ m \in 1 .. n + 1 /\ r[m] # x
  BY <1>2, <1>6
<1>8. m - 1 \in 1 .. n /\ m - 1 \notin Bad
  BY <1>2, <1>6, <1>7
<1>9. r[m - 1] = x /\ 1 + (m - 1) = m
  BY <1>2, <1>8
<1> QED
  BY <1>2, <1>4, <1>7, <1>8, <1>9

(* The two functions every class gets have two names.                      *)
LEMMA CommonDiffer == Generated(class, BindMethods) # Generated(class, Notification)
<1> DEFINE p == <<"", "generated">>
           long(x) == p \o <<"", x>>
<1>1. \A x, y : <<x, y>> \in Seq(ToSet(<<x, y>>)) /\ Len(<<x, y>>) = 2 /\ <<x, y>>[2] = y
  <2>1. TAKE x, y
  <2>2. <<x, y>> \in Seq({x, y}) /\ Len(<<x, y>>) = 2 /\ <<x, y>>[2] = y
    OBVIOUS
  <2> QED BY <2>2, OwnSequence
<1>2. \A x : Len(long(x)) = 4 /\ long(x)[4] = x
  <2>1. TAKE x
  <2> DEFINE q == <<"", x>>
  <2>2. p \in Seq(ToSet(p)) /\ Len(p) = 2 /\ q \in Seq(ToSet(q)) /\ Len(q) = 2 /\ q[2] = x
    BY <1>1
  <2> HIDE DEF p, q
  <2>3. Len(p \o q) = 4 /\ (p \o q)[2 + 2] = q[2]
    BY <2>2, Concatenated
  <2>4. Len(p \o q) = 4 /\ (p \o q)[4] = x
    BY <2>2, <2>3
  <2>5. long(x) = p \o q
    BY DEF q
  <2> HIDE DEF long
  <2> QED BY <2>4, <2>5
<1>3. "bind_methods" # "notification"
  OBVIOUS
<1>4. /\ Generated(class, BindMethods) \in {BindMethods, long("bind_methods")}
      /\ Generated(class, Notification) \in {Notification, long("notification")}
  BY DEF Generated, BindMethods, Notification
<1>5. /\ Len(BindMethods) = 2 /\ BindMethods[2] = "bind_methods"
      /\ Len(Notification) = 2 /\ Notification[2] = "notification"
  BY <1>1 DEF BindMethods, Notification
<1>6. /\ Len(long("bind_methods")) = 4 /\ long("bind_methods")[4] = "bind_methods"
      /\ Len(long("notification")) = 4 /\ long("notification")[4] = "notification"
  BY <1>2
<1> HIDE DEF long
<1> QED
  BY <1>3, <1>4, <1>5, <1>6

(* The user's functions are known by their names.                          *)
LEMMA OneFunction ==
    ASSUME InputInv, NEW f \in Functions(class)
    PROVE  f.target # NoName /\ FunctionNamed(class, f.target) = f
<1>1. \A g \in Functions(class) : /\ g.target # NoName
                                  /\ \E i \in DOMAIN class : class[i] = g
  BY ClassFacts DEF Functions, WellFormed, IsFunction, ToSet
<1>2. \A g \in Functions(class) : g.target = f.target => g = f
  BY <1>1, ClassFacts DEF WellNamed, Unique, Declares
<1> QED
  BY <1>1, <1>2 DEF FunctionNamed

(* The exposed name is made of parts, as every name is.                    *)
LEMMA ExposedIsSequence ==
    ASSUME InputInv, NEW e \in ToSet(class)
    PROVE  Sequence(Exposed(e))
BY ClassFacts DEF WellFormed, Exposed

(* A getter and its setter never share a name.                             *)
LEMMA AccessorsDiffer ==
    ASSUME InputInv, NEW e \in ToSet(class), e.attribute = "property", Accepted(e)
    PROVE  Getter(e) # Setter(e)
<1>1. CASE Automatic(e)
  <2>1. Getter(e) = <<"get">> \o Exposed(e) /\ Setter(e) = <<"set">> \o Exposed(e)
    BY <1>1 DEF Automatic, Custom, Getter, Setter
  <2>2. "get" # "set"
    OBVIOUS
  <2> QED
    BY <2>1, <2>2, FirstParts, ExposedIsSequence
<1>2. CASE Custom(e)
  <2>1. /\ FunctionNamed(class, Getter(e)).takes = <<>>
        /\ \E x : FunctionNamed(class, Setter(e)).takes = <<x>>
    BY <1>2 DEF Accepted, BindableAccessors, Getter, Setter, Automatic, Custom
  <2>2. \A x : <<x>> # <<>>
    OBVIOUS
  <2> QED BY <2>1, <2>2
<1> QED
  BY <1>1, <1>2 DEF Automatic, Custom

(* The signal a setter emits is neither of the accessors.                  *)
LEMMA ChangedDiffers ==
    ASSUME InputInv, NEW e \in ToSet(class), AddsSignal(e)
    PROVE  ChangedSignal(e) \notin {Getter(e), Setter(e)}
<1>1. /\ ChangedSignal(e) = Exposed(e) \o <<"changed">>
      /\ Getter(e) = <<"get">> \o Exposed(e) /\ Setter(e) = <<"set">> \o Exposed(e)
  BY DEF AddsSignal, ChangedSignal, Automatic, Custom, Getter, Setter
<1>2. "get" # "changed" /\ "set" # "changed"
  OBVIOUS
<1> QED
  BY <1>1, <1>2, BothEnds, ExposedIsSequence

(* The signals and the properties that emit one keep their names.          *)
EvenNames == Usage \cap {"renamed signal", "renamed emitter"} = {}

---------------------------------------------------------------------------
(* What one visit declares and defines, and what all visits have.          *)
CodeOf(U, V, e) ==
    /\ Sequence(U) /\ Sequence(V)
    /\ Once(U, FunctionsIn(U)) /\ Once(V, ToSet(V))
    /\ NamesIn(ToSet(V)) \subseteq Defined(e)
    /\ NamesIn(FunctionsIn(U)) \subseteq NamesIn(ToSet(V))
    /\ e.attribute = "signal" => FunctionsIn(U) = {}
Resolves(d, R) ==
    d.reads \ d.parameters \subseteq (Fields(class) \cup FunctionNames(class)) \cup NamesIn(R)
EvenCode(U, V, e) ==
    /\ e.attribute = "signal" => e.target \in NamesIn(ToSet(V))
    /\ \A d \in ToSet(V) :
          /\ d.name \in NamesIn(FunctionsIn(U)) \/ (e.attribute = "signal" /\ d.name = e.target)
          /\ Resolves(d, ToSet(U))
Adds(U, V) ==
    /\ status = "open" /\ pos < Len(class) /\ pos' = pos + 1
    /\ UNCHANGED <<classes, turn, status>>
    /\ members' = members \o U /\ sources' = sources \o V

(* A visit that adds no code has none to disagree.                         *)
LEMMA NoCode ==
    ASSUME NEW e, e.attribute # "signal"
    PROVE  CodeOf(<<>>, <<>>, e) /\ EvenCode(<<>>, <<>>, e)
<1>1. FunctionsIn(<<>>) = {} /\ NamesIn({}) = {} /\ ToSet(<<>>) = {} /\ Sequence(<<>>)
  BY SequenceFacts DEF FunctionsIn, NamesIn
<1> QED BY <1>1, OnceAlone DEF CodeOf, EvenCode

(* A generated property: the accessors, and the function that emits.       *)
LEMMA AutoCode ==
    ASSUME InputInv, NEW e \in ToSet(class), e.attribute = "property", Automatic(e), Accepted(e)
    PROVE  CodeOf(AutoMembers(e), AutoSources(e), e)
<1> DEFINE f == IF e.readonly THEN <<Member(Initialized(e), "private", "field")>> ELSE <<>>
           g == IF AddsSignal(e)
                THEN <<Member(ChangedSignal(e), "private", "function")>> ELSE <<>>
           h == <<Member(Getter(e), e.get, "function"), Member(Setter(e), e.set, "function")>>
           v == IF AddsSignal(e)
                THEN <<SignalDefinition(ChangedSignal(e), ValuesEmitted(e))>> ELSE <<>>
           w == <<GetterDefinition(e), SetterDefinition(e)>>
           C == {n \in {ChangedSignal(e)} : AddsSignal(e)}
           A == {Getter(e), Setter(e)}
<1>1. AutoMembers(e) = (f \o g) \o h /\ AutoSources(e) = v \o w
  BY DEF AutoMembers, AutoSources
<1>2. Defined(e) = A \cup C
  <2>1. ~Scripted(e) /\ e.attribute # "signal"
    BY DEF Scripted
  <2> QED BY <2>1 DEF Defined
<1>3. A \cap C = {}
  BY ChangedDiffers
<1>4. \A n, x, k : Member(n, x, k).is = k /\ Member(n, x, k).name = n
  BY DEF Member
<1>5. /\ \A n, k : SignalDefinition(n, k).name = n
      /\ GetterDefinition(e).name = Getter(e) /\ SetterDefinition(e).name = Setter(e)
  BY DEF SignalDefinition, GetterDefinition, SetterDefinition, Define
<1>6. Sequence(f) /\ FunctionsIn(f) = {} /\ \A R : Once(f, R)
  <2>1. Sequence(f) /\ \A m \in ToSet(f) : m.is = "field"
    BY <1>4, SequenceFacts
  <2> QED BY <2>1, OnceAlone DEF FunctionsIn
<1>7. Sequence(g) /\ NamesIn(FunctionsIn(g)) = C /\ \A R : Once(g, R)
  <2>1. CASE AddsSignal(e)
    <3> DEFINE m == Member(ChangedSignal(e), "private", "function")
    <3>1. g = <<m>> /\ C = {ChangedSignal(e)} /\ m.is = "function" /\ m.name = ChangedSignal(e)
      BY <1>4, <2>1
    <3> HIDE DEF m, g
    <3>2. ToSet(g) = {m} /\ Sequence(g)
      BY <3>1, SequenceFacts
    <3>3. FunctionsIn(g) = {m}
      BY <3>1, <3>2 DEF FunctionsIn
    <3> QED BY <3>1, <3>2, <3>3, OnceAlone DEF NamesIn
  <2>2. CASE ~AddsSignal(e)
    <3>1. g = <<>> /\ C = {}
      BY <2>2
    <3> HIDE DEF g
    <3> QED BY <3>1, SequenceFacts, OnceAlone DEF FunctionsIn, NamesIn
  <2> QED BY <2>1, <2>2
<1>8. Sequence(h) /\ NamesIn(FunctionsIn(h)) = A /\ \A R : Once(h, R)
  <2> DEFINE m == Member(Getter(e), e.get, "function")
             n == Member(Setter(e), e.set, "function")
  <2>1. m.is = "function" /\ n.is = "function" /\ m.name = Getter(e) /\ n.name = Setter(e)
    BY <1>4
  <2>2. m.name # n.name
    BY <2>1, AccessorsDiffer
  <2>3. h = <<m, n>>
    OBVIOUS
  <2> HIDE DEF m, n, h
  <2>4. Sequence(h) /\ ToSet(h) = {m, n}
    BY <2>3, PairFacts
  <2>5. FunctionsIn(h) = {m, n}
    BY <2>1, <2>4 DEF FunctionsIn
  <2>6. NamesIn({m, n}) = A
    BY <2>1 DEF NamesIn
  <2> QED BY <2>2, <2>3, <2>4, <2>5, <2>6, OncePair
<1>9. Sequence(v) /\ NamesIn(ToSet(v)) = C /\ \A R : Once(v, R)
  <2> DEFINE m == SignalDefinition(ChangedSignal(e), ValuesEmitted(e))
  <2>1. m.name = ChangedSignal(e) /\ v = IF AddsSignal(e) THEN <<m>> ELSE <<>>
    BY <1>5
  <2> HIDE DEF m, v
  <2>2. CASE AddsSignal(e)
    <3>1. v = <<m>> /\ C = {ChangedSignal(e)}
      BY <2>1, <2>2
    <3>2. ToSet(v) = {m} /\ Sequence(v)
      BY <3>1, SequenceFacts
    <3> QED BY <2>1, <3>1, <3>2, OnceAlone DEF NamesIn
  <2>3. CASE ~AddsSignal(e)
    <3>1. v = <<>> /\ C = {}
      BY <2>1, <2>3
    <3> QED BY <3>1, SequenceFacts, OnceAlone DEF NamesIn
  <2> QED BY <2>2, <2>3
<1>10. Sequence(w) /\ NamesIn(ToSet(w)) = A /\ \A R : Once(w, R)
  <2> DEFINE m == GetterDefinition(e)
             n == SetterDefinition(e)
  <2>1. m.name = Getter(e) /\ n.name = Setter(e) /\ w = <<m, n>>
    BY <1>5
  <2>2. m.name # n.name
    BY <2>1, AccessorsDiffer
  <2> HIDE DEF m, n, w
  <2>3. Sequence(w) /\ ToSet(w) = {m, n}
    BY <2>1, PairFacts
  <2>4. NamesIn({m, n}) = A
    BY <2>1 DEF NamesIn
  <2> QED BY <2>1, <2>2, <2>3, <2>4, OncePair
<1> HIDE DEF f, g, h, v, w, C, A
<1>11. \A R, S : NamesIn(R \cup S) = NamesIn(R) \cup NamesIn(S)
  BY DEF NamesIn
<1>12. /\ Sequence(f \o g) /\ FunctionsIn(f \o g) = FunctionsIn(g)
       /\ Once(f \o g, FunctionsIn(f \o g))
  <2>1. NamesIn(FunctionsIn(f)) \cap NamesIn(FunctionsIn(g)) = {}
    BY <1>6 DEF NamesIn
  <2>2. Sequence(f \o g)
    BY <1>6, <1>7, SequenceFacts
  <2>3. FunctionsIn(f \o g) = FunctionsIn(f) \cup FunctionsIn(g)
    BY <1>6, <1>7, PartsJoined
  <2>4. Once(f \o g, FunctionsIn(f \o g))
    BY <1>6, <1>7, <2>1, PartsJoined
  <2> QED BY <1>6, <2>2, <2>3, <2>4
<1>13. /\ Sequence(AutoMembers(e)) /\ NamesIn(FunctionsIn(AutoMembers(e))) = C \cup A
       /\ Once(AutoMembers(e), FunctionsIn(AutoMembers(e)))
  <2> DEFINE k == f \o g
  <2>1. /\ Sequence(k) /\ NamesIn(FunctionsIn(k)) = C /\ Once(k, FunctionsIn(k))
        /\ AutoMembers(e) = k \o h
    BY <1>1, <1>7, <1>12
  <2> HIDE DEF k
  <2>2. NamesIn(FunctionsIn(k)) \cap NamesIn(FunctionsIn(h)) = {}
    BY <1>3, <1>8, <2>1
  <2>3. Sequence(k \o h)
    BY <1>8, <2>1, SequenceFacts
  <2>4. FunctionsIn(k \o h) = FunctionsIn(k) \cup FunctionsIn(h)
    BY <1>8, <2>1, PartsJoined
  <2>5. Once(k \o h, FunctionsIn(k \o h))
    BY <1>8, <2>1, <2>2, PartsJoined
  <2> QED BY <1>8, <1>11, <2>1, <2>3, <2>4, <2>5
<1>14. /\ Sequence(AutoSources(e)) /\ NamesIn(ToSet(AutoSources(e))) = C \cup A
       /\ Once(AutoSources(e), ToSet(AutoSources(e)))
  <2>1. NamesIn(ToSet(v)) \cap NamesIn(ToSet(w)) = {}
    BY <1>3, <1>9, <1>10
  <2>2. Sequence(v \o w) /\ ToSet(v \o w) = ToSet(v) \cup ToSet(w)
    BY <1>9, <1>10, SequenceFacts
  <2>3. Once(v \o w, ToSet(v \o w))
    BY <1>9, <1>10, <2>1, PartsJoined
  <2> QED BY <1>1, <1>9, <1>10, <1>11, <2>2, <2>3
<1> QED
  BY <1>2, <1>13, <1>14 DEF CodeOf

(* What the hypothesis says of an entry.                                   *)
LEMMA EvenEntry ==
    ASSUME EvenNames, InputInv, NEW e \in ToSet(class)
    PROVE  /\ e.attribute = "signal" => Exposed(e) = e.target
           /\ Automatic(e) /\ Emits(e) => Exposed(e) = e.target
<1>1. Evenly(class)
  BY DEF InputInv, Visitable, class
<1> DEFINE u == "renamed signal"
           v == "renamed emitter"
<1>2. /\ u \in BodyUsages \ Usage /\ v \in BodyUsages \ Usage
  BY DEF EvenNames, BodyUsages
<1>3. /\ UsedIn(u, class) <=> \E x \in ToSet(class) : x.attribute = "signal" /\ x.bind # NoName
      /\ UsedIn(v, class) <=> \E x \in ToSet(class) :
                                  Automatic(x) /\ x.bind # NoName /\ x.emit # "no"
  BY DEF UsedIn
<1> HIDE DEF u, v
<1>4. ~UsedIn(u, class) /\ ~UsedIn(v, class)
  BY <1>1, <1>2 DEF Evenly
<1>5. /\ e.attribute = "signal" => e.bind = NoName
      /\ Automatic(e) /\ Emits(e) => e.bind = NoName
  BY <1>3, <1>4 DEF Emits
<1> QED BY <1>5 DEF Exposed

(* Everything a generated property defines is declared, and the reverse.   *)
LEMMA AutoEven ==
    ASSUME EvenNames, InputInv, NEW e \in ToSet(class), e.attribute = "property",
           Automatic(e), Accepted(e)
    PROVE  EvenCode(AutoMembers(e), AutoSources(e), e)
<1> DEFINE U == AutoMembers(e)
           V == AutoSources(e)
           f == IF e.readonly THEN <<Member(Initialized(e), "private", "field")>> ELSE <<>>
           g == IF AddsSignal(e)
                THEN <<Member(ChangedSignal(e), "private", "function")>> ELSE <<>>
           h == <<Member(Getter(e), e.get, "function"), Member(Setter(e), e.set, "function")>>
           v == IF AddsSignal(e)
                THEN <<SignalDefinition(ChangedSignal(e), ValuesEmitted(e))>> ELSE <<>>
           w == <<GetterDefinition(e), SetterDefinition(e)>>
<1>1. U = (f \o g) \o h /\ V = v \o w
  BY DEF AutoMembers, AutoSources
<1>2. \A n, x, k : Member(n, x, k).is = k /\ Member(n, x, k).name = n
  BY DEF Member
<1>3. Sequence(f) /\ (e.readonly => \E m \in ToSet(f) : m.name = Initialized(e))
  BY <1>2, SequenceFacts
<1>4. /\ Sequence(g)
      /\ AddsSignal(e) => \E m \in ToSet(g) : m.is = "function" /\ m.name = ChangedSignal(e)
  BY <1>2, SequenceFacts
<1>5. /\ Sequence(h)
      /\ \A n \in {Getter(e), Setter(e)} : \E m \in ToSet(h) : m.is = "function" /\ m.name = n
  BY <1>2, PairFacts
<1>6. /\ Sequence(v)
      /\ \A d \in ToSet(v) : AddsSignal(e) /\ d.name = ChangedSignal(e) /\ d.reads = {}
  <2>1. \A n, k : SignalDefinition(n, k).name = n /\ SignalDefinition(n, k).reads = {}
    BY DEF SignalDefinition, Define
  <2> QED BY <2>1, SequenceFacts
<1>7. Sequence(w) /\ ToSet(w) = {GetterDefinition(e), SetterDefinition(e)}
  BY PairFacts
<1>8. /\ GetterDefinition(e).name = Getter(e) /\ GetterDefinition(e).reads = {e.target}
      /\ SetterDefinition(e).name = Setter(e)
      /\ SetterDefinition(e).parameters = {Parameter(e)}
      /\ SetterDefinition(e).reads \subseteq
             {e.target, Parameter(e)} \cup {n \in {Initialized(e)} : e.readonly}
                                      \cup {n \in {Exposed(e)} : Emits(e)}
  <2>1. GetterDefinition(e).name = Getter(e) /\ GetterDefinition(e).reads = {e.target}
    BY DEF GetterDefinition, Define
  <2>2. /\ SetterDefinition(e).name = Setter(e)
        /\ SetterDefinition(e).parameters = {Parameter(e)}
        /\ SetterDefinition(e).reads =
               {e.target, Parameter(e)} \cup
               (IF e.readonly THEN {Initialized(e)} ELSE {}) \cup
               (IF Emits(e) THEN {Exposed(e)} ELSE {})
    BY DEF SetterDefinition, Define
  <2> QED BY <2>1, <2>2
<1> HIDE DEF f, g, h, v, w, U, V
<1>9. ToSet(U) = (ToSet(f) \cup ToSet(g)) \cup ToSet(h) /\ ToSet(V) = ToSet(v) \cup ToSet(w)
  <2>1. Sequence(f \o g) /\ ToSet(f \o g) = ToSet(f) \cup ToSet(g)
    BY <1>3, <1>4, SequenceFacts
  <2>2. ToSet((f \o g) \o h) = ToSet(f \o g) \cup ToSet(h)
    BY <1>5, <2>1, SequenceFacts
  <2>3. ToSet(v \o w) = ToSet(v) \cup ToSet(w)
    BY <1>6, <1>7, SequenceFacts
  <2> QED BY <1>1, <2>1, <2>2, <2>3
<1>10. \A d \in ToSet(V) : d.name \in NamesIn(FunctionsIn(U))
  <2>1. \A n \in {Getter(e), Setter(e)} : n \in NamesIn(FunctionsIn(U))
    BY <1>5, <1>9 DEF NamesIn, FunctionsIn
  <2>2. AddsSignal(e) => ChangedSignal(e) \in NamesIn(FunctionsIn(U))
    BY <1>4, <1>9 DEF NamesIn, FunctionsIn
  <2> QED BY <1>6, <1>7, <1>8, <1>9, <2>1, <2>2
<1>11. e.target \in Fields(class) /\ (Emits(e) => Exposed(e) = e.target)
  BY EvenEntry DEF Fields
<1>12. e.readonly => Initialized(e) \in NamesIn(ToSet(U))
  BY <1>3, <1>9 DEF NamesIn
<1>13. \A d \in ToSet(V) : Resolves(d, ToSet(U))
  <2>1. ASSUME NEW d, d.reads = {} \/ d = GetterDefinition(e) PROVE Resolves(d, ToSet(U))
    BY <1>8, <1>11, <2>1 DEF Resolves
  <2>2. Resolves(SetterDefinition(e), ToSet(U))
    BY <1>8, <1>11, <1>12 DEF Resolves
  <2> QED BY <1>6, <1>7, <1>9, <2>1, <2>2
<1> QED
  BY <1>10, <1>13 DEF EvenCode, U, V

(* Every visit agrees with itself.                                         *)
LEMMA VisitCode ==
    ASSUME InputInv,
           \/ GenerateProperty \/ GenerateFunction \/ GenerateSignal
           \/ GenerateEnum \/ GenerateGroup \/ PassBy
    PROVE  \E U, V : /\ Adds(U, V) /\ CodeOf(U, V, Current)
                     /\ EvenNames => EvenCode(U, V, Current)
<1> DEFINE e == Current
<1>1. /\ status = "open" /\ pos < Len(class) /\ pos' = pos + 1
      /\ UNCHANGED <<classes, turn, status>>
  BY DEF GenerateProperty, GenerateFunction, GenerateSignal, GenerateEnum, GenerateGroup,
         PassBy, Visiting, Keep
<1>2. e \in ToSet(class) /\ WellFormed(e)
  BY <1>1, CurrentFacts
<1>3. Sequence(members) /\ Sequence(sources)
  BY DEF InputInv
<1>4. ASSUME members' = members, sources' = sources, e.attribute # "signal"
      PROVE  Adds(<<>>, <<>>) /\ CodeOf(<<>>, <<>>, e) /\ EvenCode(<<>>, <<>>, e)
  <2>1. members' = members \o <<>> /\ sources' = sources \o <<>>
    BY <1>3, <1>4, ConcatEmptySeq DEF Sequence
  <2> QED BY <1>1, <1>4, <2>1, NoCode DEF Adds
<1>5. CASE GenerateProperty
  <2>1. e.attribute = "property" /\ Accepted(e)
    BY <1>5 DEF GenerateProperty, Visiting, Current
  <2>2. CASE Automatic(e)
    <3>1. Adds(AutoMembers(e), AutoSources(e))
      <4>1. members' = members \o AutoMembers(e) /\ sources' = sources \o AutoSources(e)
        BY <1>5, <2>2 DEF GenerateProperty
      <4> QED BY <1>1, <4>1 DEF Adds
    <3> HIDE DEF e
    <3> QED BY <1>2, <2>1, <2>2, <3>1, AutoCode, AutoEven DEF e
  <2>3. CASE ~Automatic(e)
    <3>1. members' = members \o <<>> /\ sources' = sources \o <<>>
      BY <1>5, <2>3 DEF GenerateProperty
    <3>2. members' = members /\ sources' = sources
      BY <1>3, <3>1, ConcatEmptySeq DEF Sequence
    <3> QED BY <1>4, <2>1, <3>2
  <2> QED BY <2>2, <2>3
<1>6. CASE GenerateFunction
  <2>1. e.attribute = "function"
    BY <1>6 DEF GenerateFunction, Visiting, Current
  <2>2. CASE Scripted(e)
    <3> DEFINE m == Member(VirtualName(e), e.access, "function")
               n == Member(VirtualName(e), e.access, "virtual")
               d == Define(VirtualName(e), {}, {e.target}, {})
               U == <<m, n>>
               V == <<d>>
    <3>1. m.name = VirtualName(e) /\ m.is = "function" /\ n.is = "virtual"
      BY DEF Member
    <3>2. d.name = VirtualName(e) /\ d.parameters = {} /\ d.reads = {e.target}
      BY DEF Define
    <3>3. members' = members \o U /\ sources' = Append(sources, d)
      BY <1>6, <2>2 DEF GenerateFunction
    <3> HIDE DEF m, n, d
    <3>4. Sequence(U) /\ ToSet(U) = {m, n} /\ Sequence(V) /\ ToSet(V) = {d}
      BY SequenceFacts, PairFacts
    <3>5. Adds(U, V)
      BY <1>1, <1>3, <3>3, SequenceFacts DEF Adds
    <3>6. FunctionsIn(U) = {m}
      BY <3>1, <3>4 DEF FunctionsIn
    <3>7. Once(U, FunctionsIn(U)) /\ Once(V, ToSet(V))
      <4>1. n \notin FunctionsIn(U)
        BY <3>1, <3>6
      <4> QED BY <4>1, OncePair, OnceAlone
    <3> HIDE DEF U, V
    <3>8. NamesIn(ToSet(V)) = {VirtualName(e)} /\ NamesIn(FunctionsIn(U)) = {VirtualName(e)}
      BY <3>1, <3>2, <3>4, <3>6 DEF NamesIn
    <3>9. Defined(e) = {VirtualName(e)}
      <4>1. ~Automatic(e)
        BY <2>1 DEF Automatic
      <4> QED BY <2>1, <2>2, <4>1 DEF Defined
    <3>10. CodeOf(U, V, e)
      BY <2>1, <3>4, <3>7, <3>8, <3>9 DEF CodeOf
    <3>11. Resolves(d, ToSet(U))
      <4>1. e.target \in FunctionNames(class)
        BY <1>2, <2>1 DEF FunctionNames, Functions, IsFunction
      <4> QED BY <3>2, <4>1 DEF Resolves
    <3>12. EvenCode(U, V, e)
      BY <2>1, <3>2, <3>4, <3>8, <3>11 DEF EvenCode
    <3> QED BY <3>5, <3>10, <3>12
  <2>3. CASE ~Scripted(e)
    <3>1. members' = members /\ sources' = sources
      BY <1>6, <2>3 DEF GenerateFunction
    <3> QED BY <1>4, <2>1, <3>1
  <2> QED BY <2>2, <2>3
<1>7. CASE GenerateSignal
  <2> DEFINE d == SignalDefinition(Exposed(e), Len(e.takes))
             V == <<d>>
  <2>1. e.attribute = "signal" /\ sources' = Append(sources, d) /\ members' = members
    BY <1>7 DEF GenerateSignal, Visiting, Current
  <2>2. d.name = Exposed(e) /\ d.parameters = {} /\ d.reads = {}
    BY DEF SignalDefinition, Define
  <2> HIDE DEF d
  <2>3. Sequence(V) /\ ToSet(V) = {d} /\ Sequence(<<>>) /\ FunctionsIn(<<>>) = {}
    BY SequenceFacts DEF FunctionsIn
  <2>4. Adds(<<>>, V)
    BY <1>1, <1>3, <2>1, ConcatEmptySeq, SequenceFacts DEF Adds, Sequence
  <2>5. Once(V, ToSet(V)) /\ Once(<<>>, FunctionsIn(<<>>))
    BY OnceAlone
  <2> HIDE DEF V
  <2>6. NamesIn(ToSet(V)) = {Exposed(e)} /\ NamesIn({}) = {}
    BY <2>2, <2>3 DEF NamesIn
  <2>7. Defined(e) = {Exposed(e)}
    <3>1. ~Automatic(e) /\ ~Scripted(e)
      BY <2>1 DEF Automatic, Scripted
    <3> QED BY <2>1, <3>1 DEF Defined
  <2>8. CodeOf(<<>>, V, e)
    BY <2>3, <2>5, <2>6, <2>7 DEF CodeOf
  <2>9. EvenNames => Exposed(e) = e.target
    BY <1>2, <2>1, EvenEntry
  <2>10. EvenNames => EvenCode(<<>>, V, e)
    BY <2>1, <2>2, <2>3, <2>6, <2>9 DEF EvenCode, Resolves
  <2> QED BY <2>4, <2>8, <2>10
<1>8. CASE GenerateEnum \/ GenerateGroup \/ PassBy
  <2>1. e.attribute # "signal" /\ members' = members /\ sources' = sources
    BY <1>8 DEF GenerateEnum, GenerateGroup, PassBy, Visiting, Current
  <2> QED BY <1>4, <2>1
<1> QED
  BY <1>5, <1>6, <1>7, <1>8

(* The functions of the entries visited so far.                            *)
Made(n) == Common(class) \cup UNION {Defined(class[k]) : k \in 1 .. n}

CodeInv ==
    /\ Once(sources, ToSet(sources)) /\ Once(members, FunctionsIn(members))
    /\ NamesIn(ToSet(sources)) \subseteq Made(pos)
    /\ NamesIn(FunctionsIn(members)) \subseteq NamesIn(ToSet(sources))
    /\ NamesIn(FunctionsIn(members)) \cap FunctionNames(class) = {}
SignalNamed(n) == \E e \in ToSet(class) : e.attribute = "signal" /\ e.target = n
EvenInv ==
    /\ status = "open" => \A k \in 1 .. pos :
          class[k].attribute = "signal" => class[k].target \in NamesIn(ToSet(sources))
    /\ \A d \in ToSet(sources) :
          /\ d.name \in NamesIn(FunctionsIn(members)) \/ SignalNamed(d.name)
          /\ Resolves(d, ToSet(members))

(* The names of an entry are none of those before it.                      *)
LEMMA NewNames ==
    ASSUME InputInv, pos < Len(class)
    PROVE  /\ Defined(Current) \cap Made(pos) = {}
           /\ Made(pos + 1) = Made(pos) \cup Defined(Current)
           /\ Current.attribute # "signal" => Defined(Current) \cap FunctionNames(class) = {}
<1>1. /\ pos \in Nat /\ pos + 1 \in DOMAIN class /\ DOMAIN class = 1 .. Len(class)
      /\ Len(class) \in Nat /\ Current \in ToSet(class) /\ WellNamed(class)
  BY ClassFacts, CurrentFacts DEF InputInv
<1>2. \A k \in 1 .. pos : k \in DOMAIN class /\ k # pos + 1
  BY <1>1
<1>3. \A k \in 1 .. pos : Defined(Current) \cap Defined(class[k]) = {}
  BY <1>1, <1>2 DEF WellNamed, Current
<1>4. /\ Defined(Current) \cap Common(class) = {}
      /\ Current.attribute # "signal" => Defined(Current) \cap FunctionNames(class) = {}
  BY <1>1 DEF WellNamed
<1>5. 1 .. pos + 1 = (1 .. pos) \cup {pos + 1}
  BY <1>1
<1>6. Made(pos + 1) = Made(pos) \cup Defined(Current)
  BY <1>5 DEF Made, Current
<1> QED
  BY <1>3, <1>4, <1>6 DEF Made

(* A visit's code, added to the code of the visits before it.              *)
LEMMA CodeJoined ==
    ASSUME InputInv, CodeInv, NEW U, NEW V, Adds(U, V), CodeOf(U, V, Current)
    PROVE  /\ CodeInv' /\ class' = class
           /\ NamesIn(ToSet(sources')) = NamesIn(ToSet(sources)) \cup NamesIn(ToSet(V))
           /\ NamesIn(ToSet(members')) = NamesIn(ToSet(members)) \cup NamesIn(ToSet(U))
           /\ NamesIn(FunctionsIn(members')) =
                  NamesIn(FunctionsIn(members)) \cup NamesIn(FunctionsIn(U))
           /\ ToSet(sources') = ToSet(sources) \cup ToSet(V)
<1> DEFINE e == Current
<1>1. /\ Sequence(members) /\ Sequence(sources) /\ Sequence(U) /\ Sequence(V)
      /\ members' = members \o U /\ sources' = sources \o V /\ pos' = pos + 1
      /\ class' = class /\ pos < Len(class)
  BY DEF InputInv, CodeOf, Adds, class
<1>2. \A R, S : NamesIn(R \cup S) = NamesIn(R) \cup NamesIn(S)
  BY DEF NamesIn
<1>3. /\ ToSet(sources') = ToSet(sources) \cup ToSet(V)
      /\ ToSet(members') = ToSet(members) \cup ToSet(U)
      /\ FunctionsIn(members') = FunctionsIn(members) \cup FunctionsIn(U)
  BY <1>1, SequenceFacts, PartsJoined
<1>4. /\ NamesIn(ToSet(sources')) = NamesIn(ToSet(sources)) \cup NamesIn(ToSet(V))
      /\ NamesIn(ToSet(members')) = NamesIn(ToSet(members)) \cup NamesIn(ToSet(U))
      /\ NamesIn(FunctionsIn(members')) =
             NamesIn(FunctionsIn(members)) \cup NamesIn(FunctionsIn(U))
  BY <1>2, <1>3
<1>5. /\ NamesIn(ToSet(V)) \subseteq Defined(e)
      /\ NamesIn(FunctionsIn(U)) \subseteq NamesIn(ToSet(V))
      /\ Once(V, ToSet(V)) /\ Once(U, FunctionsIn(U))
      /\ e.attribute = "signal" => NamesIn(FunctionsIn(U)) = {}
  BY DEF CodeOf, NamesIn
<1> HIDE DEF e
<1>6. NamesIn(ToSet(sources)) \cap NamesIn(ToSet(V)) = {}
  BY <1>1, <1>5, NewNames DEF CodeInv, e
<1>7. Once(sources', ToSet(sources'))
  BY <1>1, <1>5, <1>6, PartsJoined DEF CodeInv
<1>8. Once(members', FunctionsIn(members'))
  <2>1. NamesIn(FunctionsIn(members)) \cap NamesIn(FunctionsIn(U)) = {}
    BY <1>5, <1>6 DEF CodeInv
  <2> QED BY <1>1, <1>5, <2>1, PartsJoined DEF CodeInv
<1>9. NamesIn(ToSet(sources')) \subseteq Made(pos)'
  <2>1. Made(pos)' = Made(pos) \cup Defined(e)
    <3>1. Made(pos)' = Made(pos + 1)
      BY <1>1 DEF Made
    <3> QED BY <1>1, <3>1, NewNames DEF e
  <2> QED BY <1>4, <1>5, <2>1 DEF CodeInv
<1>10. NamesIn(FunctionsIn(members')) \subseteq NamesIn(ToSet(sources'))
  BY <1>4, <1>5 DEF CodeInv
<1>11. NamesIn(FunctionsIn(members')) \cap FunctionNames(class) = {}
  <2>1. NamesIn(FunctionsIn(U)) \cap FunctionNames(class) = {}
    <3>1. CASE e.attribute = "signal"
      BY <1>5, <3>1
    <3>2. CASE e.attribute # "signal"
      <4>1. Defined(e) \cap FunctionNames(class) = {}
        BY <1>1, <3>2, NewNames DEF e
      <4> QED BY <1>5, <4>1
    <3> QED BY <3>1, <3>2
  <2> QED BY <1>4, <2>1 DEF CodeInv
<1>12. CodeInv'
  BY <1>1, <1>7, <1>8, <1>9, <1>10, <1>11 DEF CodeInv
<1> QED
  BY <1>1, <1>3, <1>4, <1>12

(* Every step leaves the code, empties it, opens a class or adds one       *)
(* entry's.                                                                *)
LEMMA EveryCode ==
    ASSUME InputInv, [Next]_vars
    PROVE  \/ Stays \/ Restarts \/ Opens
           \/ \E U, V : /\ Adds(U, V) /\ CodeOf(U, V, Current)
                        /\ EvenNames => EvenCode(U, V, Current)
<1>1. CASE OpenClass
  BY <1>1 DEF OpenClass, Opens
<1>2. CASE NextClass
  BY <1>2 DEF NextClass, Restarts
<1>3. CASE Reject
  BY <1>3 DEF Reject, Restarts
<1>4. CASE UNCHANGED vars
  BY <1>4 DEF Stays
<1> QED
  BY <1>1, <1>2, <1>3, <1>4, VisitCode DEF Next

(* No code.                                                                *)
LEMMA EmptyCode ==
    /\ FunctionsIn(<<>>) = {} /\ NamesIn({}) = {} /\ ToSet(<<>>) = {}
    /\ \A R : Once(<<>>, R)
BY SequenceFacts, OnceAlone DEF FunctionsIn, NamesIn

(* What is opened: the two functions every class has.                      *)
LEMMA OpenedCode ==
    ASSUME InputInv, Opens
    PROVE  /\ CodeInv' /\ class' = class /\ pos' = 0
           /\ NamesIn(FunctionsIn(members')) = NamesIn(ToSet(sources'))
           /\ \A d \in ToSet(sources') : d.reads = {}
<1> DEFINE x == Generated(class, BindMethods)
           y == Generated(class, Notification)
           p == Member(x, "public", "function")
           q == Member(y, "public", "function")
           r == Define(x, {}, {}, {})
           t == Define(y, {}, {}, {})
<1>1. /\ members' = <<p, q>> /\ sources' = <<r, t>> /\ class' = class /\ pos' = 0
  BY DEF Opens, Opened, InputInv, class
<1>2. /\ p.name = x /\ q.name = y /\ p.is = "function" /\ q.is = "function"
      /\ r.name = x /\ t.name = y /\ r.reads = {} /\ t.reads = {}
  BY DEF Member, Define
<1>3. x # y /\ Common(class) = {x, y}
  BY CommonDiffer DEF Common
<1> HIDE DEF p, q, r, t, x, y
<1>4. ToSet(members') = {p, q} /\ ToSet(sources') = {r, t}
  BY <1>1, PairFacts
<1>5. FunctionsIn(members') = {p, q}
  BY <1>2, <1>4 DEF FunctionsIn
<1>6. NamesIn({p, q}) = {x, y} /\ NamesIn({r, t}) = {x, y}
  BY <1>2 DEF NamesIn
<1>7. Once(members', FunctionsIn(members')) /\ Once(sources', ToSet(sources'))
  <2>1. \A R : Once(<<p, q>>, R) /\ Once(<<r, t>>, R)
    BY <1>2, <1>3, OncePair
  <2> QED BY <1>1, <2>1
<1>8. Common(class) \cap FunctionNames(class) = {}
  BY ClassFacts DEF WellNamed
<1>9. Common(class) \subseteq Made(pos)'
  BY <1>1 DEF Made
<1>10. CodeInv'
  BY <1>1, <1>3, <1>4, <1>5, <1>6, <1>7, <1>8, <1>9 DEF CodeInv
<1> QED
  BY <1>1, <1>2, <1>4, <1>5, <1>6, <1>10

(* No step defines or declares a function twice.                           *)
LEMMA CodeStep == InputInv /\ CodeInv /\ [Next]_vars => CodeInv'
<1> SUFFICES ASSUME InputInv, CodeInv, [Next]_vars PROVE CodeInv'
  OBVIOUS
<1>1. CASE Stays
  <2>1. class' = class /\ pos' = pos /\ members' = members /\ sources' = sources
    BY <1>1 DEF Stays, vars, result, class
  <2>2. Made(pos)' = Made(pos)
    BY <2>1 DEF Made
  <2> QED BY <2>1, <2>2 DEF CodeInv
<1>2. CASE Restarts
  BY <1>2, EmptyCode DEF Restarts, CodeInv
<1>3. CASE Opens
  BY <1>3, OpenedCode
<1>4. CASE \E U, V : Adds(U, V) /\ CodeOf(U, V, Current)
  BY <1>4, CodeJoined
<1> QED
  BY <1>1, <1>2, <1>3, <1>4, EveryCode

(* With the names kept, every step defines what it declares.               *)
LEMMA EvenStep ==
    ASSUME EvenNames
    PROVE  InputInv /\ CodeInv /\ EvenInv /\ [Next]_vars => EvenInv'
<1> SUFFICES ASSUME InputInv, CodeInv, EvenInv, [Next]_vars PROVE EvenInv'
  OBVIOUS
<1>1. CASE Stays
  <2>1. /\ class' = class /\ pos' = pos /\ members' = members /\ sources' = sources
        /\ status' = status
    BY <1>1 DEF Stays, vars, result, class
  <2>2. \A d, R : Resolves(d, R)' <=> Resolves(d, R)
    BY <2>1 DEF Resolves
  <2>3. \A n : SignalNamed(n)' <=> SignalNamed(n)
    BY <2>1 DEF SignalNamed
  <2> QED BY <2>1, <2>2, <2>3 DEF EvenInv
<1>2. CASE Restarts
  BY <1>2, EmptyCode DEF Restarts, EvenInv
<1>3. CASE Opens
  <2>1. /\ pos' = 0 /\ NamesIn(FunctionsIn(members')) = NamesIn(ToSet(sources'))
        /\ \A d \in ToSet(sources') : d.reads = {}
    BY <1>3, OpenedCode
  <2>2. \A d \in ToSet(sources') : d.name \in NamesIn(ToSet(sources'))
    BY DEF NamesIn
  <2>3. \A d \in ToSet(sources') : Resolves(d, ToSet(members))'
    BY <2>1 DEF Resolves
  <2> QED BY <2>1, <2>2, <2>3 DEF EvenInv
<1>4. ASSUME NEW U, NEW V, Adds(U, V), CodeOf(U, V, Current), EvenCode(U, V, Current)
      PROVE  EvenInv'
  <2>1. /\ class' = class
        /\ NamesIn(ToSet(sources')) = NamesIn(ToSet(sources)) \cup NamesIn(ToSet(V))
        /\ NamesIn(ToSet(members')) = NamesIn(ToSet(members)) \cup NamesIn(ToSet(U))
        /\ NamesIn(FunctionsIn(members')) =
               NamesIn(FunctionsIn(members)) \cup NamesIn(FunctionsIn(U))
        /\ ToSet(sources') = ToSet(sources) \cup ToSet(V)
    BY <1>4, CodeJoined
  <2>2. /\ pos' = pos + 1 /\ pos \in Nat /\ status = "open" /\ class[pos + 1] = Current
        /\ Current \in ToSet(class)
    BY <1>4, CurrentFacts, ClassFacts DEF Adds, InputInv, Current
  <2>3. \A k \in 1 .. pos' : class'[k].attribute = "signal" =>
            class'[k].target \in NamesIn(ToSet(sources'))
    <3>1. TAKE k \in 1 .. pos'
    <3>2. CASE k = pos + 1
      BY <1>4, <2>1, <2>2, <3>2 DEF EvenCode
    <3>3. CASE k \in 1 .. pos
      BY <2>1, <2>2, <3>3 DEF EvenInv
    <3> QED BY <2>2, <3>2, <3>3
  <2>4. \A d, R, S : Resolves(d, R) /\ NamesIn(R) \subseteq NamesIn(S) => Resolves(d, S)'
    BY <2>1 DEF Resolves
  <2>5. \A n : SignalNamed(n)' <=> SignalNamed(n)
    BY <2>1 DEF SignalNamed
  <2>6. ASSUME NEW d \in ToSet(sources')
        PROVE  /\ d.name \in NamesIn(FunctionsIn(members')) \/ SignalNamed(d.name)'
               /\ Resolves(d, ToSet(members))'
    <3>1. CASE d \in ToSet(sources)
      <4>1. /\ d.name \in NamesIn(FunctionsIn(members)) \/ SignalNamed(d.name)
            /\ Resolves(d, ToSet(members))
        BY <3>1 DEF EvenInv
      <4> QED BY <2>1, <2>4, <2>5, <4>1
    <3>2. CASE d \in ToSet(V)
      <4>1. /\ \/ d.name \in NamesIn(FunctionsIn(U))
               \/ Current.attribute = "signal" /\ d.name = Current.target
            /\ Resolves(d, ToSet(U))
        BY <1>4, <3>2 DEF EvenCode
      <4>2. d.name \in NamesIn(FunctionsIn(U)) \/ SignalNamed(d.name)
        BY <2>2, <4>1 DEF SignalNamed
      <4> QED BY <2>1, <2>4, <2>5, <4>1, <4>2
    <3> QED BY <2>1, <3>1, <3>2
  <2> QED
    BY <2>3, <2>6 DEF EvenInv
<1> QED
  BY <1>1, <1>2, <1>3, <1>4, EveryCode

(* The two invariants say that the sources compile.                        *)
LEMMA CodeAgrees ==
    ASSUME InputInv, CodeInv, EvenInv
    PROVE  SourcesCompile
<1>1. \A s : \A i \in DOMAIN s : s[i] \in ToSet(s)
  BY DEF ToSet
<1>2. ASSUME NEW n \in NamesIn(ToSet(sources))
      PROVE  \E j \in DOMAIN sources : Named(sources, n) = {j}
  <2>1. PICK j \in DOMAIN sources : sources[j].name = n
    BY <1>2 DEF NamesIn, ToSet
  <2>2. \A k \in DOMAIN sources : sources[k].name = n => k = j
    BY <1>1, <2>1 DEF CodeInv, Once
  <2> QED BY <2>1, <2>2 DEF Named
<1>3. DefinedIffDeclared
  <2> SUFFICES ASSUME Complete PROVE DefinedIffDeclared
    BY DEF DefinedIffDeclared
  <2>1. status = "open" /\ pos = Len(class) /\ DOMAIN class = 1 .. Len(class)
    BY ClassFacts DEF Complete
  <2>2. ASSUME NEW i \in DOMAIN members, members[i].is = "function"
        PROVE  \E j \in DOMAIN sources : Named(sources, members[i].name) = {j}
    <3>1. members[i].name \in NamesIn(FunctionsIn(members))
      BY <1>1, <2>2 DEF NamesIn, FunctionsIn
    <3> QED BY <1>2, <3>1 DEF CodeInv
  <2>3. ASSUME NEW e \in ToSet(class), e.attribute = "signal"
        PROVE  \E j \in DOMAIN sources : Named(sources, e.target) = {j}
    <3>1. PICK k \in 1 .. pos : class[k] = e
      BY <2>1 DEF ToSet
    <3>2. e.target \in NamesIn(ToSet(sources))
      BY <2>1, <2>3, <3>1 DEF EvenInv
    <3> QED BY <1>2, <3>2
  <2>4. ASSUME NEW j \in DOMAIN sources
        PROVE  \/ Declared(sources[j].name) # {}
               \/ \E e \in ToSet(class) :
                     e.attribute = "signal" /\ e.target = sources[j].name
    <3>1. \/ sources[j].name \in NamesIn(FunctionsIn(members))
          \/ SignalNamed(sources[j].name)
      BY <1>1 DEF EvenInv
    <3>2. CASE sources[j].name \in NamesIn(FunctionsIn(members))
      <4>1. PICK i \in DOMAIN members :
                members[i].is = "function" /\ members[i].name = sources[j].name
        BY <3>2 DEF NamesIn, FunctionsIn, ToSet
      <4> QED BY <4>1 DEF Declared, Named
    <3> QED BY <3>1, <3>2 DEF SignalNamed
  <2> QED
    BY <2>2, <2>3, <2>4 DEF DefinedIffDeclared
<1>4. BodiesResolve
  <2>1. SUFFICES ASSUME NEW i \in DOMAIN sources,
                        NEW n \in sources[i].reads \ sources[i].parameters,
                        n \notin Fields(class) \cup FunctionNames(class)
                 PROVE  Named(members, n) # {}
    BY DEF BodiesResolve
  <2>2. Resolves(sources[i], ToSet(members))
    BY <1>1 DEF EvenInv
  <2>3. n \in NamesIn(ToSet(members))
    BY <2>1, <2>2 DEF Resolves
  <2> QED BY <2>3 DEF NamesIn, ToSet, Named
<1> QED
  BY <1>3, <1>4 DEF SourcesCompile

(* They hold at the start.                                                 *)
LEMMA CodeInit == Init => CodeInv /\ EvenInv
<1> SUFFICES ASSUME Init PROVE CodeInv /\ EvenInv
  OBVIOUS
<1>1. members = <<>> /\ sources = <<>> /\ status = "new"
  BY DEF Init
<1> QED BY <1>1, EmptyCode DEF CodeInv, EvenInv

(* docs/macros/descriptions/GODOT_SIGNAL.rst and the compiler: whatever    *)
(* the class, what its body declares is defined, once, what is defined is  *)
(* declared, and the definitions read only what there is; as long as no    *)
(* signal, and no property that emits one, is exposed under another name.  *)
THEOREM Compiles == ASSUME EvenNames PROVE Spec => []SourcesCompile
<1> DEFINE Inv == InputInv /\ CodeInv /\ EvenInv
<1>1. Init => Inv
  BY InputInit, CodeInit
<1>2. Inv /\ [Next]_vars => Inv'
  BY InputStep, CodeStep, EvenStep
<1>3. Inv => SourcesCompile
  BY CodeAgrees
<1> QED
  BY <1>1, <1>2, <1>3, PTL DEF Spec

(* Custom properties do not share accessors.                               *)
OwnAccessors == "shared accessor" \notin Usage

(* What one visit binds and offers, and what all visits have.              *)
Said(T, what) == NamesIn({b \in ToSet(T) : b.do = what})
OfferedLists ==
    /\ DOMAIN names = {"property", "function", "signal"}
    /\ Sequence(names.property) /\ Sequence(names.function) /\ Sequence(names.signal)
MethodsOf(T, e) ==
    Sequence(T) /\ Once(T, BindsIn(T)) /\ NamesIn(BindsIn(T)) \subseteq Bound(class, e)
Offers(T) ==
    /\ OfferedLists'
    /\ ToSet(names'.property) \subseteq ToSet(names.property) \cup Said(T, "property")
    /\ ToSet(names'.signal) \subseteq ToSet(names.signal) \cup Said(T, "signal")
    /\ \A n \in ToSet(names'.function) \ ToSet(names.function) :
          FunctionNamed(class, n).bind = NoName => n \in Said(T, "bind")
    /\ ToSet(rpcs') \subseteq ToSet(rpcs) \cup Said(T, "bind")
Binds(T) ==
    /\ status = "open" /\ pos < Len(class) /\ pos' = pos + 1
    /\ UNCHANGED <<classes, turn, status>> /\ bind_methods' = bind_methods \o T

(* An accessor is bound once, unless it is a function of the user that is. *)
LEMMA AccessorMethods ==
    ASSUME InputInv, NEW e \in ToSet(class), e.attribute = "property", Accepted(e),
           NEW n \in {Getter(e), Setter(e)}
    PROVE  /\ Sequence(AccessorBind(e, n))
           /\ NamesIn(BindsIn(AccessorBind(e, n))) \subseteq {n} \cap Bound(class, e)
           /\ \A R : Once(AccessorBind(e, n), R)
<1>1. CASE Automatic(e) \/ FunctionNamed(class, n).attribute # "function"
  <2> DEFINE m == BindMethod(n, n)
  <2>1. AccessorBind(e, n) = <<m>> /\ m.name = n
    BY <1>1 DEF AccessorBind, BindMethod
  <2> HIDE DEF m
  <2>2. Sequence(<<m>>) /\ ToSet(<<m>>) = {m}
    BY SequenceFacts
  <2>3. n \in Bound(class, e)
    <3>1. CASE Automatic(e)
      <4>1. ~Custom(e) /\ e.attribute # "function"
        BY <3>1 DEF Automatic, Custom
      <4> QED BY <3>1, <4>1 DEF Bound
    <3>2. CASE ~Automatic(e)
      <4>1. Custom(e) /\ e.attribute # "function"
        BY <3>2 DEF Automatic, Custom
      <4>2. \A f \in Functions(class) : f.attribute = "function" => f.target # n
        BY <1>1, <3>2, OneFunction
      <4> QED BY <3>2, <4>1, <4>2 DEF Bound
    <3> QED BY <3>1, <3>2
  <2> QED BY <2>1, <2>2, <2>3, OnceAlone DEF BindsIn, NamesIn
<1>2. CASE ~(Automatic(e) \/ FunctionNamed(class, n).attribute # "function")
  <2>1. AccessorBind(e, n) = <<>>
    BY <1>2 DEF AccessorBind
  <2> QED BY <2>1, SequenceFacts, OnceAlone DEF BindsIn, NamesIn
<1> QED BY <1>1, <1>2

(* What a property binds and says.                                         *)
LEMMA PropertyMethods ==
    ASSUME InputInv, NEW e \in ToSet(class), e.attribute = "property", Accepted(e)
    PROVE  /\ MethodsOf(PropertyBinds(e), e)
           /\ Exposed(e) \in Said(PropertyBinds(e), "property")
           /\ AddsSignal(e) => ChangedSignal(e) \in Said(PropertyBinds(e), "signal")
<1> DEFINE p == AccessorBind(e, Getter(e))
           q == AccessorBind(e, Setter(e))
           s == AddSignal(ChangedSignal(e), ValuesEmitted(e))
           S == IF AddsSignal(e) THEN <<s>> ELSE <<>>
           a == AddProperty(Exposed(e), Setter(e), Getter(e))
<1>1. PropertyBinds(e) = ((p \o q) \o S) \o <<a>>
  BY DEF PropertyBinds, AccessorBinds
<1>2. /\ Sequence(p) /\ Sequence(q) /\ Once(p, BindsIn(p)) /\ Once(q, BindsIn(q))
      /\ NamesIn(BindsIn(p)) \subseteq {Getter(e)} \cap Bound(class, e)
      /\ NamesIn(BindsIn(q)) \subseteq {Setter(e)} \cap Bound(class, e)
  BY AccessorMethods
<1>3. s.do = "signal" /\ s.name = ChangedSignal(e) /\ a.do = "property" /\ a.name = Exposed(e)
  BY DEF AddSignal, AddProperty
<1> HIDE DEF p, q, s, a
<1>4. /\ Sequence(S) /\ BindsIn(S) = {} /\ Once(S, BindsIn(S))
      /\ AddsSignal(e) => s \in ToSet(S)
  <2>1. CASE AddsSignal(e)
    <3>1. S = <<s>>
      BY <2>1
    <3> HIDE DEF S
    <3> QED BY <1>3, <3>1, SequenceFacts, OnceAlone DEF BindsIn
  <2>2. CASE ~AddsSignal(e)
    <3>1. S = <<>>
      BY <2>2
    <3> HIDE DEF S
    <3> QED BY <2>2, <3>1, SequenceFacts, OnceAlone DEF BindsIn
  <2> QED BY <2>1, <2>2
<1> HIDE DEF S
<1>5. /\ Sequence(<<a>>) /\ ToSet(<<a>>) = {a} /\ BindsIn(<<a>>) = {}
      /\ Once(<<a>>, BindsIn(<<a>>))
  BY <1>3, SequenceFacts, OnceAlone DEF BindsIn
<1>6. NamesIn({}) = {} /\ \A R, Q : NamesIn(R \cup Q) = NamesIn(R) \cup NamesIn(Q)
  BY DEF NamesIn
<1> DEFINE t == p \o q
           u == t \o S
<1>7. /\ Sequence(t) /\ Once(t, BindsIn(t)) /\ NamesIn(BindsIn(t)) \subseteq Bound(class, e)
  <2>1. Getter(e) # Setter(e)
    BY AccessorsDiffer
  <2>2. NamesIn(BindsIn(p)) \cap NamesIn(BindsIn(q)) = {}
    BY <1>2, <2>1
  <2>3. Sequence(t)
    BY <1>2, SequenceFacts
  <2>4. BindsIn(t) = BindsIn(p) \cup BindsIn(q)
    BY <1>2, PartsJoined
  <2>5. Once(t, BindsIn(t))
    BY <1>2, <2>2, PartsJoined
  <2> QED BY <1>2, <1>6, <2>3, <2>4, <2>5
<1> HIDE DEF t
<1>8. /\ Sequence(u) /\ Once(u, BindsIn(u)) /\ NamesIn(BindsIn(u)) \subseteq Bound(class, e)
      /\ ToSet(u) = ToSet(t) \cup ToSet(S)
  <2>1. NamesIn(BindsIn(t)) \cap NamesIn(BindsIn(S)) = {}
    BY <1>4, <1>6
  <2>2. Sequence(u) /\ ToSet(u) = ToSet(t) \cup ToSet(S)
    BY <1>4, <1>7, SequenceFacts
  <2>3. BindsIn(u) = BindsIn(t) \cup BindsIn(S)
    BY <1>4, <1>7, PartsJoined
  <2>4. Once(u, BindsIn(u))
    BY <1>4, <1>7, <2>1, PartsJoined
  <2>5. BindsIn(u) = BindsIn(t)
    BY <1>4, <2>3
  <2> QED BY <1>7, <2>2, <2>4, <2>5
<1> HIDE DEF u
<1> DEFINE w == u \o <<a>>
<1>9. /\ Sequence(w) /\ Once(w, BindsIn(w)) /\ NamesIn(BindsIn(w)) \subseteq Bound(class, e)
      /\ ToSet(w) = ToSet(u) \cup {a}
  <2>1. NamesIn(BindsIn(u)) \cap NamesIn(BindsIn(<<a>>)) = {}
    BY <1>5, <1>6
  <2>2. Sequence(w) /\ ToSet(w) = ToSet(u) \cup {a}
    BY <1>5, <1>8, SequenceFacts
  <2>3. BindsIn(w) = BindsIn(u) \cup BindsIn(<<a>>)
    BY <1>5, <1>8, PartsJoined
  <2>4. Once(w, BindsIn(w))
    BY <1>5, <1>8, <2>1, PartsJoined
  <2>5. BindsIn(w) = BindsIn(u)
    BY <1>5, <2>3
  <2> QED BY <1>8, <2>2, <2>4, <2>5
<1>10. PropertyBinds(e) = w
  BY <1>1 DEF u, t
<1> HIDE DEF w
<1>11. a.name \in Said(w, "property")
  BY <1>3, <1>9 DEF Said, NamesIn
<1>12. AddsSignal(e) => s.name \in Said(w, "signal")
  BY <1>3, <1>4, <1>8, <1>9 DEF Said, NamesIn
<1> QED
  BY <1>3, <1>9, <1>10, <1>11, <1>12 DEF MethodsOf

(* One element more.                                                       *)
LEMMA OneMore ==
    ASSUME NEW s, Sequence(s), NEW x, NEW t, t = Append(s, x)
    PROVE  Sequence(t) /\ ToSet(t) = ToSet(s) \cup {x}
BY SequenceFacts

(* A visit without methods or names.                                       *)
LEMMA NoMethods ==
    ASSUME NEW T, Sequence(T), \A b \in ToSet(T) : b.do # "bind", NEW e
    PROVE  MethodsOf(T, e)
<1>1. BindsIn(T) = {} /\ NamesIn({}) = {}
  BY DEF BindsIn, NamesIn
<1> QED BY <1>1 DEF MethodsOf, Once

(* A visit that offers no name leaves the lists of names right.            *)
LEMMA SameOffers ==
    ASSUME OfferedLists, names' = names, rpcs' = rpcs, NEW T
    PROVE  Offers(T)
BY DEF Offers, OfferedLists

(* Every visit binds the names it offers, and only names of its entry.     *)
LEMMA VisitMethods ==
    ASSUME InputInv, OfferedLists,
           \/ GenerateProperty \/ GenerateFunction \/ GenerateSignal
           \/ GenerateEnum \/ GenerateGroup \/ PassBy
    PROVE  \E T : Binds(T) /\ MethodsOf(T, Current) /\ Offers(T)
<1> DEFINE e == Current
<1>1. /\ status = "open" /\ pos < Len(class) /\ pos' = pos + 1
      /\ UNCHANGED <<classes, turn, status>>
  BY DEF GenerateProperty, GenerateFunction, GenerateSignal, GenerateEnum, GenerateGroup,
         PassBy, Visiting, Keep
<1>2. e \in ToSet(class) /\ WellFormed(e) /\ Sequence(bind_methods) /\ Sequence(rpcs)
  BY <1>1, CurrentFacts DEF InputInv
<1>3. CASE GenerateProperty
  <2>1. /\ e.attribute = "property" /\ Accepted(e)
        /\ bind_methods' = bind_methods \o PropertyBinds(e) /\ rpcs' = rpcs
        /\ names' = [names EXCEPT
               !.property = Append(@, Exposed(e)),
               !.signal = IF AddsSignal(e) THEN Append(@, ChangedSignal(e)) ELSE @]
    BY <1>3 DEF GenerateProperty, Visiting, Current
  <2> HIDE DEF e
  <2>2. /\ MethodsOf(PropertyBinds(e), e) /\ Exposed(e) \in Said(PropertyBinds(e), "property")
        /\ AddsSignal(e) => ChangedSignal(e) \in Said(PropertyBinds(e), "signal")
    BY <1>2, <2>1, PropertyMethods
  <2>3. /\ DOMAIN names' = {"property", "function", "signal"}
        /\ names'.property = Append(names.property, Exposed(e))
        /\ names'.function = names.function
        /\ names'.signal = IF AddsSignal(e) THEN Append(names.signal, ChangedSignal(e))
                           ELSE names.signal
    BY <2>1 DEF OfferedLists
  <2>4. /\ Sequence(names'.property)
        /\ ToSet(names'.property) = ToSet(names.property) \cup {Exposed(e)}
    BY <2>3, OneMore DEF OfferedLists
  <2>5. /\ Sequence(names'.signal)
        /\ ToSet(names'.signal) \subseteq
               ToSet(names.signal) \cup {n \in {ChangedSignal(e)} : AddsSignal(e)}
    <3>1. CASE AddsSignal(e)
      <4>1. names'.signal = Append(names.signal, ChangedSignal(e))
        BY <2>3, <3>1
      <4>2. /\ Sequence(names'.signal)
            /\ ToSet(names'.signal) = ToSet(names.signal) \cup {ChangedSignal(e)}
        BY <4>1, OneMore DEF OfferedLists
      <4> QED BY <3>1, <4>2
    <3>2. CASE ~AddsSignal(e)
      BY <2>3, <3>2 DEF OfferedLists
    <3> QED BY <3>1, <3>2
  <2>6. Offers(PropertyBinds(e))
    BY <2>1, <2>2, <2>3, <2>4, <2>5 DEF Offers, OfferedLists
  <2> QED BY <1>1, <2>1, <2>2, <2>6 DEF Binds, e
<1>4. CASE GenerateFunction
  <2> DEFINE T == FunctionBinds(e)
             v == BindVirtual(VirtualName(e))
             m == BindMethod(Exposed(e), VirtualName(e))
             n == BindMethod(Exposed(e), e.target)
  <2>1. /\ e.attribute = "function" /\ bind_methods' = bind_methods \o T
        /\ rpcs' = IF e.rpc THEN Append(rpcs, Exposed(e)) ELSE rpcs
        /\ names' = [names EXCEPT !.function = Append(@, e.target)]
    BY <1>4 DEF GenerateFunction, Visiting, Current
  <2>2. /\ v.do = "virtual" /\ m.do = "bind" /\ m.name = Exposed(e)
        /\ n.do = "bind" /\ n.name = Exposed(e)
    BY DEF BindVirtual, BindMethod
  <2>3. T = IF Scripted(e) THEN <<v, m>> ELSE <<n>>
    BY DEF FunctionBinds
  <2> HIDE DEF v, m, n, e, T
  <2>4. /\ Sequence(T) /\ \A R : v \notin R => Once(T, R)
        /\ BindsIn(T) = {m} \/ BindsIn(T) = {n}
    <3>1. CASE T = <<v, m>>
      <4>1. Sequence(T) /\ ToSet(T) = {v, m}
        BY <3>1, PairFacts
      <4> QED BY <2>2, <3>1, <4>1, OncePair DEF BindsIn
    <3>2. CASE T = <<n>>
      <4>1. Sequence(T) /\ ToSet(T) = {n}
        BY <3>2, SequenceFacts
      <4> QED BY <2>2, <3>2, <4>1, OnceAlone DEF BindsIn
    <3> QED BY <2>3, <3>1, <3>2
  <2>5. NamesIn(BindsIn(T)) = {Exposed(e)}
    BY <2>2, <2>4 DEF NamesIn
  <2>6. Said(T, "bind") = {Exposed(e)}
    BY <2>5 DEF Said, BindsIn
  <2>7. Bound(class, e) = {Exposed(e)}
    <3>1. ~Automatic(e) /\ ~Custom(e)
      BY <2>1 DEF Automatic, Custom
    <3> QED BY <2>1, <3>1 DEF Bound
  <2>8. MethodsOf(T, e)
    <3>1. v \notin BindsIn(T)
      BY <2>2 DEF BindsIn
    <3> QED BY <2>4, <2>5, <2>7, <3>1 DEF MethodsOf
  <2>9. /\ DOMAIN names' = {"property", "function", "signal"}
        /\ names'.function = Append(names.function, e.target)
        /\ names'.property = names.property /\ names'.signal = names.signal
    BY <2>1 DEF OfferedLists
  <2>10. /\ Sequence(names'.function)
         /\ ToSet(names'.function) = ToSet(names.function) \cup {e.target}
    BY <2>9, OneMore DEF OfferedLists
  <2>11. FunctionNamed(class, e.target) = e
    BY <1>2, <2>1, OneFunction DEF Functions, IsFunction, e
  <2>12. ToSet(rpcs') \subseteq ToSet(rpcs) \cup {Exposed(e)}
    BY <1>2, <2>1, SequenceFacts
  <2>13. e.bind = NoName => Exposed(e) = e.target
    BY DEF Exposed
  <2>14. Offers(T)
    BY <2>6, <2>9, <2>10, <2>11, <2>12, <2>13 DEF Offers, OfferedLists
  <2> QED BY <1>1, <2>1, <2>8, <2>14 DEF Binds, e
<1>5. CASE GenerateSignal
  <2> DEFINE s == AddSignal(Exposed(e), Len(e.takes))
             T == <<s>>
  <2>1. /\ bind_methods' = Append(bind_methods, s) /\ rpcs' = rpcs
        /\ names' = [names EXCEPT !.signal = Append(@, Exposed(e))]
    BY <1>5 DEF GenerateSignal, Current
  <2>2. s.do = "signal" /\ s.name = Exposed(e)
    BY DEF AddSignal
  <2> HIDE DEF s, e
  <2>3. Sequence(T) /\ ToSet(T) = {s} /\ bind_methods' = bind_methods \o T
    BY <1>2, <2>1, SequenceFacts
  <2> HIDE DEF T
  <2>4. MethodsOf(T, e)
    BY <2>2, <2>3, NoMethods
  <2>5. Exposed(e) \in Said(T, "signal")
    BY <2>2, <2>3 DEF Said, NamesIn
  <2>6. /\ DOMAIN names' = {"property", "function", "signal"}
        /\ names'.signal = Append(names.signal, Exposed(e))
        /\ names'.property = names.property /\ names'.function = names.function
    BY <2>1 DEF OfferedLists
  <2>7. /\ Sequence(names'.signal)
        /\ ToSet(names'.signal) = ToSet(names.signal) \cup {Exposed(e)}
    BY <2>6, OneMore DEF OfferedLists
  <2>8. Offers(T)
    BY <2>1, <2>5, <2>6, <2>7 DEF Offers, OfferedLists
  <2> QED BY <1>1, <2>3, <2>4, <2>8 DEF Binds, e
<1>6. CASE GenerateEnum
  <2> DEFINE T == [i \in DOMAIN e.values |-> BindConstant(e.values[i])]
  <2>1. \A n : BindConstant(n).do = "constant"
    BY DEF BindConstant
  <2>2. /\ e.attribute = "enum" /\ bind_methods' = bind_methods \o T
        /\ names' = names /\ rpcs' = rpcs
    BY <1>6 DEF GenerateEnum, Visiting, Current
  <2>3. \A b \in ToSet(T) : b.do # "bind"
    BY <2>1 DEF ToSet
  <2>4. Len(e.values) \in Nat /\ DOMAIN e.values = 1 .. Len(e.values)
    BY <1>2, <2>2 DEF WellFormed, Sequence
  <2>5. Sequence(T)
    <3>1. T \in [1 .. Len(e.values) -> ToSet(T)]
      BY <2>4 DEF ToSet
    <3> HIDE DEF T, e
    <3> QED BY <2>4, <3>1, SeqDef DEF Sequence
  <2> HIDE DEF T, e
  <2>6. MethodsOf(T, e) /\ Offers(T)
    BY <2>2, <2>3, <2>5, NoMethods, SameOffers
  <2> QED BY <1>1, <2>2, <2>6 DEF Binds, e
<1>7. CASE GenerateGroup
  <2> DEFINE g == AddGroup(e.bind, IF e.level = 0 THEN 1 ELSE e.level)
  <2>1. /\ bind_methods' = Append(bind_methods, g) /\ names' = names /\ rpcs' = rpcs
    BY <1>7 DEF GenerateGroup, Current
  <2>2. g.do = "group"
    BY DEF AddGroup
  <2> HIDE DEF g, e
  <2>3. /\ Sequence(<<g>>) /\ ToSet(<<g>>) = {g} /\ bind_methods' = bind_methods \o <<g>>
    BY <1>2, <2>1, SequenceFacts
  <2>4. MethodsOf(<<g>>, e) /\ Offers(<<g>>)
    BY <2>1, <2>2, <2>3, NoMethods, SameOffers
  <2> QED BY <1>1, <2>3, <2>4 DEF Binds, e
<1>8. CASE PassBy
  <2>1. bind_methods' = bind_methods \o <<>> /\ names' = names /\ rpcs' = rpcs
    BY <1>2, <1>8, ConcatEmptySeq DEF PassBy, Sequence
  <2>2. MethodsOf(<<>>, e) /\ Offers(<<>>)
    BY <2>1, SequenceFacts, NoMethods, SameOffers
  <2> QED BY <1>1, <2>1, <2>2 DEF Binds
<1> QED
  BY <1>3, <1>4, <1>5, <1>6, <1>7, <1>8

(* The names under which methods are bound for the entries visited.        *)
BoundInv ==
    /\ Once(bind_methods, BindsIn(bind_methods))
    /\ NamesIn(BindsIn(bind_methods)) \subseteq UNION {Bound(class, class[k]) : k \in 1 .. pos}
OfferInv == OfferedLists /\ NamesAreBound

(* The names of the entry visited next are not those of the entries        *)
(* before.                                                                 *)
LEMMA OwnMethods ==
    ASSUME OwnAccessors, InputInv, pos < Len(class), NEW k \in 1 .. pos
    PROVE  Bound(class, class[k]) \cap Bound(class, Current) = {}
<1>1. /\ pos \in Nat /\ pos + 1 \in DOMAIN class /\ DOMAIN class = 1 .. Len(class)
      /\ Len(class) \in Nat /\ WellNamed(class)
  BY ClassFacts, CurrentFacts DEF InputInv
<1>2. k \in DOMAIN class /\ k # pos + 1
  BY <1>1
<1>3. CASE ~(Custom(class[k]) /\ Custom(Current))
  BY <1>1, <1>2, <1>3 DEF WellNamed, Current
<1>4. CASE Custom(class[k]) /\ Custom(Current)
  <2> DEFINE u == "shared accessor"
  <2>1. u \in BodyUsages \ Usage
    BY DEF OwnAccessors, BodyUsages
  <2>2. UsedIn(u, class) <=>
            \E i, j \in DOMAIN class :
                /\ i # j /\ Custom(class[i]) /\ Custom(class[j])
                /\ ToSet(class[i].accessors) \cap ToSet(class[j].accessors) # {}
    BY DEF UsedIn
  <2> HIDE DEF u
  <2>3. ~UsedIn(u, class)
    BY <2>1 DEF InputInv, Visitable, class, Evenly
  <2>4. ToSet(class[k].accessors) \cap ToSet(Current.accessors) = {}
    BY <1>1, <1>2, <1>4, <2>2, <2>3 DEF Current
  <2>5. \A e \in ToSet(class) : Custom(e) => Bound(class, e) \subseteq ToSet(e.accessors)
    <3>1. SUFFICES ASSUME NEW e \in ToSet(class), Custom(e)
                   PROVE  Bound(class, e) \subseteq ToSet(e.accessors)
      OBVIOUS
    <3>2. Bound(class, e) \subseteq {Getter(e), Setter(e)}
      <4>1. ~Automatic(e) /\ e.attribute # "function"
        BY <3>1 DEF Automatic, Custom
      <4> QED BY <3>1, <4>1 DEF Bound
    <3>3. Getter(e) = e.accessors[1] /\ Setter(e) = e.accessors[2]
      BY <3>1 DEF Getter, Setter
    <3>4. 1 \in DOMAIN e.accessors /\ 2 \in DOMAIN e.accessors
      <4>1. Sequence(e.accessors) /\ Len(e.accessors) = 2
        BY <3>1, ClassFacts DEF WellFormed, Custom
      <4> QED BY <4>1 DEF Sequence
    <3> QED BY <3>2, <3>3, <3>4 DEF ToSet
  <2>6. class[k] \in ToSet(class) /\ Current \in ToSet(class)
    BY <1>1, <1>2 DEF ToSet, Current
  <2> QED BY <1>4, <2>4, <2>5, <2>6
<1> QED
  BY <1>3, <1>4

(* Every step leaves the binds, empties them, opens a class or adds one    *)
(* entry's.                                                                *)
LEMMA EveryMethod ==
    ASSUME InputInv, OfferedLists, [Next]_vars
    PROVE  \/ Stays \/ Restarts \/ Opens
           \/ \E T : Binds(T) /\ MethodsOf(T, Current) /\ Offers(T)
<1>1. CASE OpenClass
  BY <1>1 DEF OpenClass, Opens
<1>2. CASE NextClass
  BY <1>2 DEF NextClass, Restarts
<1>3. CASE Reject
  BY <1>3 DEF Reject, Restarts
<1>4. CASE UNCHANGED vars
  BY <1>4 DEF Stays
<1> QED
  BY <1>1, <1>2, <1>3, <1>4, VisitMethods DEF Next

(* No names are offered when a class is opened.                            *)
LEMMA NoOffers ==
    ASSUME names' = NoNames, rpcs' = <<>>
    PROVE  OfferInv'
<1>1. /\ DOMAIN names' = {"property", "function", "signal"}
      /\ names'.property = <<>> /\ names'.function = <<>> /\ names'.signal = <<>>
  BY DEF NoNames
<1> QED BY <1>1, SequenceFacts DEF OfferInv, OfferedLists, NamesAreBound

(* The names bound, as the property reads them.                            *)
LEMMA SaidIsBound == \A what : BoundNames(what) = Said(bind_methods, what)
BY DEF BoundNames, Doing, Said, NamesIn, ToSet

(* A visit binds no name a second time.                                    *)
LEMMA BoundJoined ==
    ASSUME OwnAccessors, InputInv, BoundInv, NEW T, Binds(T), MethodsOf(T, Current)
    PROVE  BoundInv'
<1> DEFINE B(n) == UNION {Bound(class, class[k]) : k \in 1 .. n}
<1>1. /\ Sequence(bind_methods) /\ Sequence(T) /\ bind_methods' = bind_methods \o T
      /\ pos' = pos + 1 /\ class' = class /\ pos < Len(class) /\ pos \in Nat
  BY ClassFacts DEF InputInv, MethodsOf, Binds, class
<1>2. NamesIn(BindsIn(bind_methods)) \subseteq B(pos)
  BY DEF BoundInv
<1>3. NamesIn(BindsIn(T)) \subseteq Bound(class, Current) /\ Once(T, BindsIn(T))
  BY DEF MethodsOf
<1>4. B(pos) \cap Bound(class, Current) = {}
  BY <1>1, OwnMethods
<1>5. B(pos + 1) = B(pos) \cup Bound(class, Current)
  <2>1. 1 .. pos + 1 = (1 .. pos) \cup {pos + 1}
    BY <1>1
  <2> QED BY <2>1 DEF Current
<1>6. UNION {Bound(class', class'[k]) : k \in 1 .. pos'} = B(pos + 1)
  BY <1>1
<1> HIDE DEF B
<1>7. BindsIn(bind_methods') = BindsIn(bind_methods) \cup BindsIn(T)
  BY <1>1, PartsJoined
<1>8. NamesIn(BindsIn(bind_methods')) =
          NamesIn(BindsIn(bind_methods)) \cup NamesIn(BindsIn(T))
  BY <1>7 DEF NamesIn
<1>9. Once(bind_methods', BindsIn(bind_methods'))
  <2>1. NamesIn(BindsIn(bind_methods)) \cap NamesIn(BindsIn(T)) = {}
    BY <1>2, <1>3, <1>4
  <2> QED BY <1>1, <1>3, <2>1, PartsJoined DEF BoundInv
<1>10. NamesIn(BindsIn(bind_methods')) \subseteq
           UNION {Bound(class', class'[k]) : k \in 1 .. pos'}
  BY <1>2, <1>3, <1>5, <1>6, <1>8
<1> QED
  BY <1>9, <1>10 DEF BoundInv

(* A visit keeps the lists of names in step with the binds.                *)
LEMMA OfferJoined ==
    ASSUME InputInv, OfferInv, NEW T, Binds(T), MethodsOf(T, Current), Offers(T)
    PROVE  OfferInv'
<1>1. /\ Sequence(bind_methods) /\ Sequence(T) /\ bind_methods' = bind_methods \o T
      /\ class' = class
  BY DEF InputInv, MethodsOf, Binds, class
<1>2. ToSet(bind_methods') = ToSet(bind_methods) \cup ToSet(T)
  BY <1>1, SequenceFacts
<1>3. \A what : Said(bind_methods', what) = Said(bind_methods, what) \cup Said(T, what)
  BY <1>2 DEF Said, NamesIn
<1>4. \A what : BoundNames(what)' = BoundNames(what) \cup Said(T, what)
  <2>1. \A what : BoundNames(what)' = Said(bind_methods', what)
    BY DEF BoundNames, Doing, Said, NamesIn, ToSet
  <2> QED BY <1>3, <2>1, SaidIsBound
<1>5. NamesAreBound'
  <2>1. ToSet(names'.property) \subseteq BoundNames("property")'
    BY <1>4 DEF OfferInv, NamesAreBound, Offers
  <2>2. \A n \in ToSet(names'.function) : FunctionNamed(class', n).bind = NoName =>
            n \in BoundNames("bind")'
    BY <1>1, <1>4 DEF OfferInv, NamesAreBound, Offers
  <2>3. ToSet(names'.signal) \subseteq BoundNames("signal")'
    BY <1>4 DEF OfferInv, NamesAreBound, Offers
  <2>4. ToSet(rpcs') \subseteq BoundNames("bind")'
    BY <1>4 DEF OfferInv, NamesAreBound, Offers
  <2> QED BY <2>1, <2>2, <2>3, <2>4 DEF NamesAreBound
<1> QED
  BY <1>5 DEF OfferInv, Offers

NameInv == CodeInv /\ BoundInv /\ OfferInv

(* Every step keeps the three invariants.                                  *)
LEMMA NameStep ==
    ASSUME OwnAccessors
    PROVE  InputInv /\ NameInv /\ [Next]_vars => NameInv'
<1> SUFFICES ASSUME InputInv, NameInv, [Next]_vars PROVE NameInv'
  OBVIOUS
<1> USE DEF NameInv
<1>1. CodeInv'
  BY CodeStep
<1>2. CASE Stays
  <2>1. /\ class' = class /\ pos' = pos /\ bind_methods' = bind_methods /\ names' = names
        /\ rpcs' = rpcs
    BY <1>2 DEF Stays, vars, result, class
  <2>2. BoundInv'
    BY <2>1 DEF BoundInv
  <2>3. \A what : BoundNames(what)' = BoundNames(what)
    BY <2>1 DEF BoundNames, Doing
  <2>4. NamesAreBound'
    BY <2>1, <2>3 DEF OfferInv, NamesAreBound
  <2> QED BY <1>1, <2>1, <2>2, <2>4 DEF OfferInv, OfferedLists
<1>3. CASE Restarts \/ Opens
  <2>1. bind_methods' = <<>> /\ names' = NoNames /\ rpcs' = <<>>
    BY <1>3 DEF Restarts, Opens, Opened
  <2>2. BoundInv'
    <3>1. BindsIn(<<>>) = {} /\ NamesIn({}) = {} /\ \A R : Once(<<>>, R)
      BY SequenceFacts, OnceAlone DEF BindsIn, NamesIn
    <3> QED BY <2>1, <3>1 DEF BoundInv
  <2> QED BY <1>1, <2>1, <2>2, NoOffers
<1>4. CASE \E T : Binds(T) /\ MethodsOf(T, Current) /\ Offers(T)
  BY <1>1, <1>4, BoundJoined, OfferJoined
<1> QED
  BY <1>2, <1>3, <1>4, EveryMethod DEF OfferInv

(* They say that the names agree.                                          *)
LEMMA NamesDoAgree ==
    ASSUME InputInv, NameInv
    PROVE  NamesAgree
<1>1. \A s : \A i \in DOMAIN s : s[i] \in ToSet(s)
  BY DEF ToSet
<1>2. ASSUME NEW i \in Doing("bind"), NEW j \in Doing("bind"),
             bind_methods[i].name = bind_methods[j].name
      PROVE  i = j
  BY <1>1, <1>2 DEF NameInv, BoundInv, Once, Doing, BindsIn
<1>3. ASSUME NEW n, NEW i \in Declared(n), NEW j \in Declared(n)
      PROVE  i = j
  BY <1>1, <1>3 DEF NameInv, CodeInv, Once, Declared, Named, FunctionsIn
<1>4. ASSUME NEW i \in DOMAIN members, members[i].is = "function"
      PROVE  members[i].name \notin FunctionNames(class)
  <2>1. members[i].name \in NamesIn(FunctionsIn(members))
    BY <1>1, <1>4 DEF NamesIn, FunctionsIn
  <2> QED BY <2>1 DEF NameInv, CodeInv
<1>5. NoNameTwice
  BY <1>2, <1>3, <1>4 DEF NoNameTwice
<1> QED
  BY <1>5 DEF NamesAgree, NameInv, OfferInv

(* They hold at the start.                                                 *)
LEMMA NameInit == Init => NameInv
<1> SUFFICES ASSUME Init PROVE NameInv
  OBVIOUS
<1>1. bind_methods = <<>> /\ names = NoNames /\ rpcs = <<>>
  BY DEF Init
<1>2. BindsIn(<<>>) = {} /\ NamesIn({}) = {} /\ \A R : Once(<<>>, R)
  BY SequenceFacts, OnceAlone DEF BindsIn, NamesIn
<1>3. BoundInv
  BY <1>1, <1>2 DEF BoundInv
<1>4. /\ DOMAIN names = {"property", "function", "signal"}
      /\ names.property = <<>> /\ names.function = <<>> /\ names.signal = <<>>
  BY <1>1 DEF NoNames
<1>5. OfferInv
  BY <1>1, <1>4, SequenceFacts DEF OfferInv, OfferedLists, NamesAreBound
<1> QED BY <1>3, <1>5, CodeInit DEF NameInv

(* ClassDB and the compiler: whatever the class, no method is bound twice  *)
(* and no function declared twice or against one of the user's, and each   *)
(* name offered to C++ or configured for remote calls is one that is       *)
(* bound; as long as no two custom properties share an accessor.           *)
THEOREM Agree == ASSUME OwnAccessors PROVE Spec => []NamesAgree
<1> DEFINE Inv == InputInv /\ NameInv
<1>1. Init => Inv
  BY InputInit, NameInit
<1>2. Inv /\ [Next]_vars => Inv'
  BY InputStep, NameStep
<1>3. Inv => NamesAgree
  BY NamesDoAgree
<1> QED
  BY <1>1, <1>2, <1>3, PTL DEF Spec
===========================================================================
