----------------------------- MODULE SyntaxTree -----------------------------
(***************************************************************************)
(* The syntax tree of the library: nodes with links to their children and  *)
(* back, the database that finds a node by its id, and the files in which  *)
(* trees are kept (ConfigNodeReaderWriter): type data and parsed inputs.   *)
(*                                                                         *)
(* A node owns its children; a parent and the database only point to a     *)
(* node (WeakRef).  A node lives while someone in the program holds it or  *)
(* a node above it.                                                        *)
(***************************************************************************)
EXTENDS Naturals, FiniteSets, Sequences, SequencesExt

CONSTANTS
    MaxNodes,       \* bound: nodes alive at a time
    MaxMade,        \* bound: nodes alive after node_new
    MaxEdits,       \* bound: operations, but for reads, once a file is written
    Fresh           \* replace_child is only given a new child without a parent

ASSUME BoundAssumption == MaxNodes \in Nat /\ MaxMade \in Nat /\ MaxEdits \in Nat
ASSUME FreshAssumption == Fresh \in BOOLEAN

NoNode == 0
NoId == 0           \* INVALID_ID
Nodes == 1 .. MaxNodes
Ids == 1 .. 2 * MaxNodes + 1    \* for the nodes alive, those of the file and one more

VARIABLES
    held,           \* nodes the program has a Ref of
    name,           \* _class and the members of the node, but for its links
    children, parent, index,    \* _children, _parent, _index
    id,             \* _id
    nodes,          \* NodeDB::_nodes
    file,           \* the sections of the last file written
    edits,          \* operations, but for reads, since the file was written
    last            \* the last operation and the node it returned (or was called on)

tree == <<name, children, parent, index, id, nodes>>
vars == <<held, tree, file, edits, last>>

(* The variables of the tree, for operations that do several steps.        *)
Heap == [name |-> name, children |-> children, parent |-> parent,
         index |-> index, id |-> id, nodes |-> nodes]

---------------------------------------------------------------------------
(* Who lives.                                                              *)
Below(h, S) ==
    LET down[n \in 0 .. MaxNodes] ==
            IF n = 0 THEN S
            ELSE LET above == down[n - 1]
                 IN  above \cup UNION {ToSet(h.children[m]) : m \in above}
    IN  down[MaxNodes]
Live == {n \in Nodes : id[n] # NoId}     \* = Below(Heap, held), see TypeOK
IsBelow(n, m) == n \in Below(Heap, {m})

(* The subtree of n, each node before its children and these in order.     *)
Preorder(h, n) ==
    LET walk[k \in 0 .. MaxNodes] ==
            IF k = 0 THEN [m \in Nodes |-> <<>>]
            ELSE [m \in Nodes |->
                     LET kids == h.children[m]
                     IN  <<m>> \o FlattenSeq([i \in DOMAIN kids |-> walk[k - 1][kids[i]]])]
    IN  walk[MaxNodes][n]

(* Nodes that are no longer owned are gone, and nothing points to them.    *)
(* (The index of a node without a parent is not looked at; it is 0 here.)  *)
Collected(h, holding) ==
    LET alive == Below(h, holding)
    IN  [name |-> [n \in Nodes |-> IF n \in alive THEN h.name[n] ELSE NoNode],
         children |-> [n \in Nodes |-> IF n \in alive THEN h.children[n] ELSE <<>>],
         parent |-> [n \in Nodes |->
             IF n \in alive /\ h.parent[n] \in alive THEN h.parent[n] ELSE NoNode],
         index |-> [n \in Nodes |-> IF n \in alive /\ h.parent[n] \in alive THEN h.index[n] ELSE 0],
         id |-> [n \in Nodes |-> IF n \in alive THEN h.id[n] ELSE NoId],
         nodes |-> [i \in Ids |-> IF h.nodes[i] \in alive THEN h.nodes[i] ELSE NoNode]]

Becomes(h, holding) ==
    LET c == Collected(h, holding)
    IN  /\ held' = holding
        /\ name' = c.name /\ children' = c.children /\ parent' = c.parent
        /\ index' = c.index /\ id' = c.id /\ nodes' = c.nodes

(* The k lowest of S, and the elements of s at the places S, in order.     *)
Lowest(S, k) == [i \in 1 .. k |-> CHOOSE x \in S : Cardinality({y \in S : y < x}) = i - 1]
Part(s, S) == [k \in 1 .. Cardinality(S) |-> s[Lowest(S, Cardinality(S))[k]]]

(* generate_unique_id: an id neither a node nor the file has.  (It is      *)
(* drawn from 2^64, and never drawn again.)                                *)
FreshIds(k) ==
    Lowest(Ids \ ({id[n] : n \in Live} \cup {file[i].id : i \in DOMAIN file}), k)
FreeNodes(k) == Lowest(Nodes \ Live, k)

---------------------------------------------------------------------------
(* The operations of Context, as functions of the heap.                    *)

(* Mutant: the siblings after a removed child keep their index.            *)
RemovedInPlace(h, c) ==
    LET p == h.parent[c]  at == h.index[c] + 1
    IN  [h EXCEPT !.children[p] = RemoveAt(@, at), !.parent[c] = NoNode, !.index[c] = 0]

(* remove_child: the siblings after it move up.                            *)
Removed(h, c) ==
    LET p == h.parent[c]
        at == SelectInSeq(h.children[p], LAMBDA n : n = c)
        after == {h.children[p][i] : i \in at + 1 .. Len(h.children[p])}
    IN  [h EXCEPT !.children[p] = RemoveAt(@, at), !.parent[c] = NoNode,
                  !.index = [n \in Nodes |-> CASE n = c -> 0
                                               [] n \in after -> @[n] - 1
                                               [] OTHER -> @[n]]]

(* add_child: a child of another parent is taken from it.                  *)
Added(h, p, c) ==
    LET orphan == IF h.parent[c] = NoNode THEN h ELSE Removed(h, c)
    IN  IF h.parent[c] = p THEN h
        ELSE [orphan EXCEPT !.parent[c] = p, !.index[c] = Len(orphan.children[p]),
                            !.children[p] = Append(@, c)]

(* add_child_before.                                                       *)
AddedBefore(h, p, c, existing) ==
    LET at == h.index[existing] + 1
        moved == {h.children[p][i] : i \in at .. Len(h.children[p])}
    IN  [h EXCEPT !.parent[c] = p, !.children[p] = InsertAt(@, at, c),
                  !.index = [n \in Nodes |-> CASE n = c -> at - 1
                                               [] n \in moved -> @[n] + 1
                                               [] OTHER -> @[n]]]

(* request_id_change.                                                      *)
ChangedId(h, n, from, to) ==
    [h EXCEPT !.id[n] = to,
              !.nodes = [i \in Ids |-> CASE i = from -> NoNode
                                         [] i = to -> h.nodes[from]
                                         [] OTHER -> @[i]]]

(* Mutant: both keep their ids.                                            *)
KeptIds(h, c, new, fresh) == h

(* The new child takes the id of the old one, which gets another.          *)
SwappedIds(h, c, new, fresh) ==
    ChangedId(ChangedId(h, c, h.id[c], fresh), new, h.id[new], h.id[c])

(* replace_child, and its p_take_children.                                 *)
Replaced(h, p, c, new, take, fresh) ==
    LET at == SelectInSeq(h.children[p], LAMBDA n : n = c)
        linked == [h EXCEPT !.children[p][at] = new, !.index[new] = h.index[c],
                            !.parent = [@ EXCEPT ![new] = p, ![c] = NoNode]]
        swapped == SwappedIds(linked, c, new, fresh)
        kids == swapped.children[c]
        taken[i \in 0 .. Len(kids)] ==
            IF i = 0 THEN swapped ELSE Added(Removed(taken[i - 1], kids[i]), new, kids[i])
    IN  IF take THEN taken[Len(kids)] ELSE swapped

---------------------------------------------------------------------------
Nothing == [op |-> "none", node |-> NoNode]

Init ==
    /\ held = {} /\ file = <<>> /\ edits = 0 /\ last = Nothing
    /\ name = [n \in Nodes |-> NoNode]
    /\ children = [n \in Nodes |-> <<>>] /\ parent = [n \in Nodes |-> NoNode]
    /\ index = [n \in Nodes |-> 0] /\ id = [n \in Nodes |-> NoId]
    /\ nodes = [i \in Ids |-> NoNode]

(* An operation on the tree; all that happens before the file is written   *)
(* is to create nodes and to add them.                                     *)
Edit ==
    /\ file # <<>> /\ edits < MaxEdits /\ edits' = edits + 1
    /\ UNCHANGED file
Grow == IF file = <<>> THEN UNCHANGED <<file, edits>> ELSE Edit

(* node_new and NodeDB::create.  Nodes are told apart by a name.           *)
New ==
    /\ Live # Nodes /\ Cardinality(Live) < MaxMade /\ Grow /\ last' = Nothing
    /\ LET n == FreeNodes(1)[1]  i == FreshIds(1)[1]
       IN  Becomes([Heap EXCEPT !.name[n] = n, !.id[n] = i, !.nodes[i] = n], held \cup {n})

(* A Ref goes out of scope.                                                *)
Drop(n) ==
    /\ n \in held /\ Edit /\ last' = Nothing
    /\ Becomes(Heap, held \ {n})

(* A Ref of a node found in the tree.                                      *)
Hold(n) ==
    /\ n \in Live \ held /\ Edit /\ last' = Nothing
    /\ Becomes(Heap, held \cup {n})

AddChild(p, c) ==
    /\ p \in Live /\ c \in Live /\ ~IsBelow(p, c)
    /\ Grow /\ last' = Nothing
    /\ Becomes(Added(Heap, p, c), held)

AddChildBefore(c, existing) ==
    /\ existing \in Live /\ parent[existing] # NoNode
    /\ c \in Live /\ parent[c] = NoNode /\ ~IsBelow(existing, c)
    /\ Edit /\ last' = Nothing
    /\ Becomes(AddedBefore(Heap, parent[existing], c, existing), held)

RemoveChild(c) ==
    /\ c \in Live /\ parent[c] # NoNode
    /\ Edit /\ last' = Nothing
    /\ Becomes(Removed(Heap, c), held)

ReplaceChild(c, new, take) ==
    /\ c \in Live /\ parent[c] # NoNode
    /\ new \in held /\ (Fresh => parent[new] = NoNode) /\ ~IsBelow(c, new)
    /\ Edit /\ last' = [op |-> "replace", node |-> parent[c]]
    /\ Becomes(Replaced(Heap, parent[c], c, new, take, FreshIds(1)[1]), held)

(* Mutant: the copy lists the children of the original.                    *)
CopiedShallow(h, ns, to, ids) ==
    [h EXCEPT !.name[to[1]] = h.name[ns[1]], !.children[to[1]] = h.children[ns[1]],
              !.id[to[1]] = ids[1], !.nodes[ids[1]] = to[1]]

(* The nodes ns, copied to the nodes to, with ids of their own.            *)
Copied(h, ns, to, ids) ==
    LET copy(n) == IF n \in ToSet(ns) THEN to[SelectInSeq(ns, LAMBDA m : m = n)] ELSE NoNode
        original(n) == ns[SelectInSeq(to, LAMBDA m : m = n)]
        new == ToSet(to)
    IN  [name |-> [n \in Nodes |-> IF n \in new THEN h.name[original(n)] ELSE h.name[n]],
         children |-> [n \in Nodes |->
             IF n \in new THEN [i \in DOMAIN h.children[original(n)] |-> copy(h.children[original(n)][i])]
             ELSE h.children[n]],
         parent |-> [n \in Nodes |->
             IF n \notin new THEN h.parent[n]
             ELSE IF original(n) = ns[1] THEN NoNode ELSE copy(h.parent[original(n)])],
         index |-> [n \in Nodes |->
             IF n \notin new THEN h.index[n]
             ELSE IF original(n) = ns[1] THEN 0 ELSE h.index[original(n)]],
         id |-> [n \in Nodes |->
             IF n \in new THEN ids[SelectInSeq(to, LAMBDA m : m = n)] ELSE h.id[n]],
         nodes |-> [i \in Ids |->
             IF i \in ToSet(ids) THEN to[SelectInSeq(ids, LAMBDA j : j = i)] ELSE h.nodes[i]]]

(* Node::clone, with Context::copy_to.                                     *)
Clone(n) ==
    /\ n \in Live /\ Edit
    /\ LET ns == Preorder(Heap, n)
           to == FreeNodes(Len(ns))
       IN  /\ Cardinality(Nodes \ Live) >= Len(ns)
           /\ Becomes(Copied(Heap, ns, to, FreshIds(Len(ns))), held \cup {to[1]})
           /\ last' = [op |-> "clone", node |-> to[1]]

---------------------------------------------------------------------------
(* Files.                                                                  *)

(* dump_node: a section for each node, the root's without a parent.        *)
Dump(n) ==
    /\ n \in Live /\ file = <<>>
    /\ LET ns == Preorder(Heap, n)
       IN  file' = [i \in DOMAIN ns |->
               [id |-> id[ns[i]], name |-> name[ns[i]],
                parent |-> IF i = 1 THEN NoId ELSE id[parent[ns[i]]]]]
    /\ last' = Nothing /\ UNCHANGED <<held, tree, edits>>

Existing(s) == nodes[s.id] # NoNode
ChildOf(s, t) == s.parent = t.id /\ s.parent # NoId

(* Mutant: the children of a node that still lives are kept as well.       *)
KeptAll == file

(* What read_from_file keeps of the sections: not the children of a node   *)
(* that still lives, whose clone has them already.                         *)
Kept == Part(file, {i \in DOMAIN file :
                       ~ \E t \in ToSet(file) : ChildOf(file[i], t) /\ Existing(t)})
RootsOf(kept) == {s \in ToSet(kept) : ~ \E t \in ToSet(kept) : ChildOf(s, t)}

(* The nodes a section becomes: a new node, or a clone of the one that     *)
(* lives.  Each is described by the section, the id it stands for there,   *)
(* and those of its parent.                                                *)
PartsOf(s) ==
    IF ~Existing(s)
    THEN <<[of |-> <<s.id, s.id>>, name |-> s.name, parent |-> <<s.parent, s.parent>>]>>
    ELSE LET ns == Preorder(Heap, nodes[s.id])
         IN  [i \in DOMAIN ns |->
                [of |-> <<s.id, id[ns[i]]>>, name |-> name[ns[i]],
                 parent |-> IF i = 1 THEN <<s.parent, s.parent>>
                            ELSE <<s.id, id[parent[ns[i]]]>>]]
Parts(kept) == FlattenSeq([i \in DOMAIN kept |-> PartsOf(kept[i])])

(* The heap with the parts at the nodes to; clones have ids of their own.  *)
Built(parts, to, ids) ==
    LET at == [n \in Nodes |-> SelectInSeq(to, LAMBDA m : m = n)]
        up == [i \in DOMAIN parts |-> SelectInSeq(parts, LAMBDA x : x.of = parts[i].parent)]
        kids == [i \in DOMAIN parts |-> Part(to, {j \in DOMAIN parts : up[j] = i})]
        ofId == [i \in DOMAIN parts |->
                    IF nodes[parts[i].of[1]] = NoNode THEN parts[i].of[1] ELSE ids[i]]
    IN  [name |-> [n \in Nodes |-> IF at[n] > 0 THEN parts[at[n]].name ELSE name[n]],
         children |-> [n \in Nodes |-> IF at[n] > 0 THEN kids[at[n]] ELSE children[n]],
         parent |-> [n \in Nodes |->
             IF at[n] = 0 THEN parent[n] ELSE IF up[at[n]] = 0 THEN NoNode ELSE to[up[at[n]]]],
         index |-> [n \in Nodes |->
             IF at[n] = 0 THEN index[n]
             ELSE IF up[at[n]] = 0 THEN 0
             ELSE SelectInSeq(kids[up[at[n]]], LAMBDA m : m = n) - 1],
         id |-> [n \in Nodes |-> IF at[n] > 0 THEN ofId[at[n]] ELSE id[n]],
         nodes |-> [i \in Ids |->
             IF i \in ToSet(ofId) THEN to[SelectInSeq(ofId, LAMBDA j : j = i)] ELSE nodes[i]]]

Read ==
    /\ file # <<>>
    /\ LET kept == Kept
           parts == Parts(kept)
           to == FreeNodes(Len(parts))
           root == CHOOSE s \in RootsOf(kept) : TRUE
           top == to[SelectInSeq(parts, LAMBDA x : x.of[1] = root.id)]
       IN  /\ Cardinality(RootsOf(kept)) = 1
           /\ Cardinality(Nodes \ Live) >= Len(parts)
           /\ Becomes(Built(parts, to, FreshIds(Len(parts))), held \cup {top})
           /\ last' = [op |-> "read", node |-> top]
    /\ UNCHANGED <<file, edits>>

(* "Multiple root nodes found in read config file. Invalid."               *)
ReadFails ==
    /\ file # <<>> /\ Cardinality(RootsOf(Kept)) # 1
    /\ last' = [op |-> "read", node |-> NoNode]
    /\ UNCHANGED <<held, tree, file, edits>>

(* The process ends; the file stays.                                       *)
Restart ==
    /\ held # {}
    /\ Edit /\ last' = Nothing
    /\ Becomes(Heap, {})

Next ==
    \/ New
    \/ \E n \in Nodes : Drop(n) \/ Hold(n) \/ RemoveChild(n) \/ Clone(n) \/ Dump(n)
    \/ \E n, m \in Nodes : AddChild(n, m) \/ AddChildBefore(n, m)
    \/ \E n, m \in Nodes, take \in BOOLEAN : ReplaceChild(n, m, take)
    \/ Read \/ ReadFails \/ Restart

Spec == Init /\ [][Next]_vars

---------------------------------------------------------------------------
(* The names of a subtree and how they hang together.                      *)
Outline(h, n) ==
    LET ns == Preorder(h, n)
    IN  [i \in DOMAIN ns |->
            [name |-> h.name[ns[i]],
             parent |-> IF i = 1 THEN 0 ELSE SelectInSeq(ns, LAMBDA m : m = h.parent[ns[i]])]]
OutlineOfFile ==
    [i \in DOMAIN file |->
        [name |-> file[i].name, parent |-> SelectInSeq(file, LAMBDA s : s.id = file[i].parent)]]
ChildIds(n) == [i \in DOMAIN children[n] |-> id[children[n][i]]]

(* Every variable is of its kind, and a node that is not alive is blank.   *)
TypeOK ==
    /\ held \subseteq Nodes
    /\ \A n \in Nodes :
          /\ name[n] \in Nodes \cup {NoNode} /\ ToSet(children[n]) \subseteq Nodes
          /\ parent[n] \in Nodes \cup {NoNode} /\ index[n] \in Nat
          /\ id[n] \in Ids \cup {NoId}
    /\ Live = Below(Heap, held)
    /\ \A i \in Ids : nodes[i] \in Nodes \cup {NoNode}
    /\ last.node \in Nodes \cup {NoNode}

(* A child's link to its parent and the parent's list agree, and a child   *)
(* is listed once, at its index: the siblings that attributes are resolved *)
(* with (get_next_sibling) are found by it.                                *)
LinksAgree ==
    /\ \A p \in Live : \A i \in DOMAIN children[p] :
          parent[children[p][i]] = p /\ index[children[p][i]] = i - 1
    /\ \A c \in Live : parent[c] # NoNode => c \in ToSet(children[parent[c]])

(* A node is found by its id, and by no other.                             *)
IdsExact ==
    /\ \A n \in Live : nodes[id[n]] = n
    /\ \A i \in Ids : nodes[i] # NoNode => id[nodes[i]] = i

(* What every user of the tree relies on, after any operation.             *)
TreeIntact == TypeOK /\ LinksAgree /\ IdsExact

(* A replacement leaves the ids of the siblings as they are: those who     *)
(* remember a node by its id find what took its place.                     *)
ReplacementKeepsId ==
    [][last'.op = "replace" =>
          [i \in DOMAIN children'[last'.node] |-> id'[children'[last'.node][i]]]
              = ChildIds(last'.node)]_vars

(* Reading a file gives what was written, whichever of the nodes are still *)
(* alive, as long as these are as they were when the file was written.     *)
Intact ==
    \A s \in ToSet(file) : Existing(s) =>
        /\ name[nodes[s.id]] = s.name
        /\ ChildIds(nodes[s.id]) =
             LET kids == SelectSeq(file, LAMBDA x : x.parent = s.id)
             IN  [i \in DOMAIN kids |-> kids[i].id]
ReadBack ==
    [][last'.op = "read" /\ Intact =>
          last'.node # NoNode /\ Outline(Heap', last'.node) = OutlineOfFile]_vars

(* A clone or a tree that was read shares no node with another: changing   *)
(* it changes nothing else.                                                *)
CopiesAreApart ==
    [][last'.op \in {"clone", "read"} /\ last'.node # NoNode =>
          /\ Below(Heap', {last'.node}) \cap Live = {}
          /\ parent'[last'.node] = NoNode
          /\ \A n \in Live : Outline(Heap', n) = Outline(Heap, n) /\ id'[n] = id[n]]_vars
=============================================================================
