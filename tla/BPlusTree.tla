---- MODULE BPlusTree ----
(***************************************************************************)
(* The B+ tree of crates/nova-index/src/lib.rs in memory: insertion with   *)
(* splits up to the root, removal, which never merges nodes, and the       *)
(* checks verify makes before every sync and after every open.             *)
(*                                                                         *)
(* A node is its position in `nodes`.  A leaf maps its keys to the ids     *)
(* stored under them and points to the next leaf.  Keys are the numbers    *)
(* 1 .. MaxKey; what they order is left out, and so is the snapshot file,  *)
(* which holds the nodes as they are.                                      *)
(***************************************************************************)
EXTENDS Naturals, SequencesExt

CONSTANTS
    MaxKey,        \* bound: the keys are 1 .. MaxKey
    Storable,      \* the pairs of a key and an id that are ever inserted
    MaxKeys,       \* BPlusTree.max_keys: the capacity of a node
    Removable,     \* bound: the pairs that are ever removed
    MaxRemovals    \* bound: removals

Keys == 1 .. MaxKey
Ids == {pair[2] : pair \in Storable}

ASSUME TreeAssumption ==
    /\ MaxKey \in Nat /\ MaxRemovals \in Nat
    /\ Storable \subseteq Keys \X Ids /\ Removable \subseteq Storable
    /\ MaxKeys \in Nat /\ MaxKeys >= 3 /\ MaxKeys % 2 = 1

VARIABLES
    nodes,         \* BPlusTree.nodes
    root,          \* BPlusTree.root
    pairs,         \* history: the pairs that were inserted and not removed
    removals       \* pairs removed so far

vars == <<nodes, root, pairs, removals>>

NoLeaf == 0

Leaf(ids, next) == [ids |-> ids, next |-> next]
Inner(keys, children) == [keys |-> keys, children |-> children]
IsLeaf(node) == "ids" \in DOMAIN node

-----------------------------------------------------------------------------
(* Lookup *)

\* The child in whose range a key lies: a separator is the least key to its right.
ChildIndex(keys, key) == 1 + Cardinality({i \in DOMAIN keys : key >= keys[i]})

FindLeaf(key) ==
    LET below[n \in DOMAIN nodes] ==
          IF IsLeaf(nodes[n]) THEN n
          ELSE below[nodes[n].children[ChildIndex(nodes[n].keys, key)]]
    IN  below[root]

IdsUnder(leaf, key) == IF key \in DOMAIN leaf.ids THEN leaf.ids[key] ELSE {}

Get(key) == IdsUnder(nodes[FindLeaf(key)], key)

\* The key of a set that has a number of others below it.
Ranked(keys, rank) == CHOOSE key \in keys : Cardinality({k \in keys : k < key}) = rank

\* The keys of a set, from the least to the greatest.
InOrder(keys) == [i \in 1 .. Cardinality(keys) |-> Ranked(keys, i - 1)]

\* A link that leads nowhere, or not to a leaf, which no tree has.
EndsChain(n) == n = NoLeaf \/ ~IsLeaf(nodes[n])

\* The keys of a range: along the chain from the leaf of its start, to the first
\* key behind its end.
KeyRange(start, end) ==
    LET from[n \in 0 .. Len(nodes)] ==
          IF EndsChain(n) THEN <<>>
          ELSE LET held == DOMAIN nodes[n].ids IN
                 InOrder({key \in held : start <= key /\ key <= end})
                   \o IF \E key \in held : key > end THEN <<>> ELSE from[nodes[n].next]
    IN  from[FindLeaf(start)]

-----------------------------------------------------------------------------
(* Insertion *)

\* What an insertion into a subtree hands to its parent.
Whole(changed) == [nodes |-> changed, split |-> FALSE]
Split(changed, separator) == [nodes |-> changed, split |-> TRUE, separator |-> separator]

\* MUTANT of InsertLeaf: the new leaf does not take over the link of the old one.
UnlinkedInsertLeaf(n, key, id) ==
    LET ids == [k \in DOMAIN nodes[n].ids \cup {key} |->
                  IdsUnder(nodes[n], k) \cup IF k = key THEN {id} ELSE {}]
        separator == Ranked(DOMAIN ids, Cardinality(DOMAIN ids) \div 2)
        left == {k \in DOMAIN ids : k < separator}
        right == DOMAIN ids \ left
    IN  IF Cardinality(DOMAIN ids) <= MaxKeys
        THEN Whole([nodes EXCEPT ![n] = Leaf(ids, nodes[n].next)])
        ELSE Split(Append([nodes EXCEPT ![n] = Leaf(Restrict(ids, left), Len(nodes) + 1)],
                          Leaf(Restrict(ids, right), NoLeaf)),
                   separator)

\* A leaf with one key too many keeps the lower half and is linked to a new one.
InsertLeaf(n, key, id) ==
    LET ids == [k \in DOMAIN nodes[n].ids \cup {key} |->
                  IdsUnder(nodes[n], k) \cup IF k = key THEN {id} ELSE {}]
        separator == Ranked(DOMAIN ids, Cardinality(DOMAIN ids) \div 2)
        left == {k \in DOMAIN ids : k < separator}
        right == DOMAIN ids \ left
    IN  IF Cardinality(DOMAIN ids) <= MaxKeys
        THEN Whole([nodes EXCEPT ![n] = Leaf(ids, nodes[n].next)])
        ELSE Split(Append([nodes EXCEPT ![n] = Leaf(Restrict(ids, left), Len(nodes) + 1)],
                          Leaf(Restrict(ids, right), nodes[n].next)),
                   separator)

\* MUTANT of InsertChild: an inner node is split one separator late.
LateInsertChild(n, i, below) ==
    LET keys == InsertAt(nodes[n].keys, i, below.separator)
        children == InsertAt(nodes[n].children, i + 1, Len(below.nodes))
        middle == Len(keys) \div 2 + 1
        left == Inner(SubSeq(keys, 1, middle - 1), SubSeq(children, 1, middle))
        right == Inner(SubSeq(keys, middle + 1, Len(keys)),
                       SubSeq(children, middle + 1, Len(children)))
    IN  IF Len(keys) <= MaxKeys + 1
        THEN Whole([below.nodes EXCEPT ![n] = Inner(keys, children)])
        ELSE Split(Append([below.nodes EXCEPT ![n] = left], right), keys[middle])

\* The parent takes the separator and the new node, the last one, behind the
\* child that was split; with one separator too many it hands up the middle one.
InsertChild(n, i, below) ==
    LET keys == InsertAt(nodes[n].keys, i, below.separator)
        children == InsertAt(nodes[n].children, i + 1, Len(below.nodes))
        middle == Len(keys) \div 2 + 1
        left == Inner(SubSeq(keys, 1, middle - 1), SubSeq(children, 1, middle))
        right == Inner(SubSeq(keys, middle + 1, Len(keys)),
                       SubSeq(children, middle + 1, Len(children)))
    IN  IF Len(keys) <= MaxKeys
        THEN Whole([below.nodes EXCEPT ![n] = Inner(keys, children)])
        ELSE Split(Append([below.nodes EXCEPT ![n] = left], right), keys[middle])

InsertNode(key, id) ==
    LET into[n \in DOMAIN nodes] ==
          IF IsLeaf(nodes[n]) THEN InsertLeaf(n, key, id)
          ELSE LET i == ChildIndex(nodes[n].keys, key)
                   below == into[nodes[n].children[i]]
               IN  IF below.split THEN InsertChild(n, i, below) ELSE below
    IN  into[root]

InsertPair(key, id) ==
    /\ LET done == InsertNode(key, id) IN
         IF done.split
         THEN /\ nodes' = Append(done.nodes, Inner(<<done.separator>>, <<root, Len(done.nodes)>>))
              /\ root' = Len(done.nodes) + 1
         ELSE nodes' = done.nodes /\ root' = root
    /\ pairs' = pairs \cup {<<key, id>>}
    /\ UNCHANGED removals

-----------------------------------------------------------------------------
(* Removal *)

\* A key without ids leaves its leaf; the leaf stays, be it empty.
RemovePair(key, id) ==
    /\ removals < MaxRemovals
    /\ id \in Get(key)
    /\ LET n == FindLeaf(key)
           left == nodes[n].ids[key] \ {id}
           ids == IF left = {} THEN Restrict(nodes[n].ids, DOMAIN nodes[n].ids \ {key})
                  ELSE [nodes[n].ids EXCEPT ![key] = left]
       IN  nodes' = [nodes EXCEPT ![n] = Leaf(ids, nodes[n].next)]
    /\ pairs' = pairs \ {<<key, id>>}
    /\ removals' = removals + 1
    /\ UNCHANGED root

-----------------------------------------------------------------------------
(* verify *)

Increasing(keys) == \A i \in 1 .. Len(keys) - 1 : keys[i] < keys[i + 1]

\* verify_node: capacities, order and bounds, below separators above none (0)
\* and none (MaxKey + 1).
WithinBounds ==
    LET valid[check \in (DOMAIN nodes) \X (0 .. MaxKey + 1) \X (0 .. MaxKey + 1)] ==
          LET node == nodes[check[1]]
              lower == check[2]
              upper == check[3]
          IN  IF IsLeaf(node)
              THEN /\ Cardinality(DOMAIN node.ids) <= MaxKeys
                   /\ \A key \in DOMAIN node.ids : lower <= key /\ key < upper
              ELSE /\ node.keys # <<>> /\ Len(node.keys) <= MaxKeys
                   /\ Len(node.children) = Len(node.keys) + 1
                   /\ Increasing(node.keys)
                   /\ \A i \in DOMAIN node.children :
                        valid[<<node.children[i],
                                IF i = 1 THEN lower ELSE node.keys[i - 1],
                                IF i = Len(node.children) THEN upper ELSE node.keys[i]>>]
    IN  valid[<<root, 0, MaxKey + 1>>]

\* Every node once, and all leaves at one depth.
WellShaped ==
    LET visited[n \in DOMAIN nodes] ==
          {n} \cup IF IsLeaf(nodes[n]) THEN {}
                  ELSE UNION {visited[c] : c \in Range(nodes[n].children)}
        depths[n \in DOMAIN nodes] ==
          IF IsLeaf(nodes[n]) THEN {0}
          ELSE {depth + 1 : depth \in UNION {depths[c] : c \in Range(nodes[n].children)}}
    IN  /\ visited[root] = DOMAIN nodes
        /\ \A n \in {m \in DOMAIN nodes : ~IsLeaf(nodes[m])} :
             LET children == nodes[n].children IN
             \A i \in DOMAIN children :
                /\ n \notin visited[children[i]]
                /\ \A j \in DOMAIN children :
                     j # i => visited[children[i]] \cap visited[children[j]] = {}
        /\ Cardinality(depths[root]) = 1

\* verify_leaf_chain: from the leftmost leaf, through every leaf, in order.
Chained ==
    LET first[n \in DOMAIN nodes] ==
          IF IsLeaf(nodes[n]) THEN n ELSE first[nodes[n].children[1]]
        chain[n \in 0 .. Len(nodes)] ==
          IF EndsChain(n) THEN <<>> ELSE <<n>> \o chain[nodes[n].next]
        leaves == chain[first[root]]
    IN  /\ {n \in DOMAIN nodes : IsLeaf(nodes[n])} \subseteq Range(leaves)
        /\ \A i, j \in DOMAIN leaves : i < j =>
             \A left \in DOMAIN nodes[leaves[i]].ids, right \in DOMAIN nodes[leaves[j]].ids :
                left < right

Init ==
    /\ nodes = <<Leaf(<<>>, NoLeaf)>>
    /\ root = 1
    /\ pairs = {}
    /\ removals = 0

Next ==
    \/ \E pair \in Storable : InsertPair(pair[1], pair[2])
    \/ \E pair \in Removable : RemovePair(pair[1], pair[2])

Spec == Init /\ [][Next]_vars

-----------------------------------------------------------------------------
(* Properties *)

TypeOK ==
    /\ root \in DOMAIN nodes
    /\ \A n \in DOMAIN nodes :
         IF IsLeaf(nodes[n])
         THEN /\ DOMAIN nodes[n].ids \subseteq Keys
              /\ \A key \in DOMAIN nodes[n].ids :
                   nodes[n].ids[key] \subseteq Ids /\ nodes[n].ids[key] # {}
              /\ nodes[n].next \in 0 .. Len(nodes)
         ELSE nodes[n].keys \in Seq(Keys) /\ nodes[n].children \in Seq(DOMAIN nodes)
    /\ pairs \subseteq Storable
    /\ removals \in 0 .. MaxRemovals

\* A lookup finds exactly what was inserted under its key and not removed,
\* whatever splits and removals did to the leaf of the key since; a range yields
\* the keys with ids between its ends, once each and in order, across leaves of
\* different parents and emptied ones.
LookupsAgree ==
    /\ \A key \in Keys : Get(key) = {id \in Ids : <<key, id>> \in pairs}
    /\ \A start, end \in Keys : start <= end =>
         LET keys == KeyRange(start, end) IN
         /\ Increasing(keys)
         /\ Range(keys) = {key \in start .. end : \E id \in Ids : <<key, id>> \in pairs}

\* verify accepts every tree the operations make: no sync is refused, and no
\* snapshot is rejected when it is opened again.
AlwaysVerified == TypeOK /\ WithinBounds /\ WellShaped /\ Chained
====
