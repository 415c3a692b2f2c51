---- MODULE BPlusTree_proofs ----
(***************************************************************************)
(* Proofs about BPlusTree for any keys, ids and capacity, and any number   *)
(* of insertions and removals: lookups and ranges find what was inserted,  *)
(* and verify accepts the tree.                                            *)
(***************************************************************************)
EXTENDS BPlusTree, FiniteSetTheorems, WellFoundedInduction, TLAPS

-----------------------------------------------------------------------------
(* The invariant *)

LeafSet == [ids : UNION {[K -> SUBSET Ids] : K \in SUBSET Keys}, next : Nat]
InnerSet == [keys : Seq(Keys), children : Seq(Nat)]
NodeSet == LeafSet \cup InnerSet

\* 0 is below all keys, MaxKey + 1 above.
Bounds == 0 .. MaxKey + 1

\* A tree has for each node the keys that may be below it, those from lo up to but
\* without hi, and its level above the leaves.  Nodes of a level have no key in
\* common.
Bounded(m, lo, hi, level) ==
    /\ m \in Seq(NodeSet)
    /\ lo \in [DOMAIN m -> Bounds] /\ hi \in [DOMAIN m -> Bounds] /\ level \in [DOMAIN m -> Nat]
    /\ \A x \in DOMAIN m : lo[x] < hi[x]
    /\ \A x, y \in DOMAIN m : x # y /\ level[x] = level[y] => hi[x] <= lo[y] \/ hi[y] <= lo[x]

\* The leaves of a tree are linked in the order of their keys.
ValidLeaf(m, lo, hi, level, x) ==
    /\ level[x] = 0
    /\ \A key \in DOMAIN m[x].ids : lo[x] <= key /\ key < hi[x] /\ m[x].ids[key] # {}
    /\ Cardinality(DOMAIN m[x].ids) <= MaxKeys
    /\ hi[x] = MaxKey + 1 => m[x].next = NoLeaf
    /\ hi[x] # MaxKey + 1 =>
         m[x].next \in DOMAIN m /\ level[m[x].next] = 0 /\ lo[m[x].next] = hi[x]

\* The children share out the keys from low up to but without high at the separators.
Shares(D, lo, hi, level, keys, children, low, high, above) ==
    /\ Len(children) = Len(keys) + 1
    /\ \A i, j \in 1 .. Len(keys) : i < j => keys[i] < keys[j]
    /\ \A i \in 1 .. Len(children) :
         /\ children[i] \in D
         /\ level[children[i]] + 1 = above
         /\ lo[children[i]] = IF i = 1 THEN low ELSE keys[i - 1]
         /\ hi[children[i]] = IF i = Len(children) THEN high ELSE keys[i]

ValidInner(m, lo, hi, level, x) ==
    /\ Len(m[x].keys) \in 1 .. MaxKeys
    /\ Shares(DOMAIN m, lo, hi, level, m[x].keys, m[x].children, lo[x], hi[x], level[x])

Valid(m, lo, hi, level, x) ==
    /\ IsLeaf(m[x]) => ValidLeaf(m, lo, hi, level, x)
    /\ ~IsLeaf(m[x]) => ValidInner(m, lo, hi, level, x)

HasParent(m, x) ==
    \E p \in DOMAIN m : ~IsLeaf(m[p]) /\ \E i \in 1 .. Len(m[p].children) : m[p].children[i] = x

\* The root is above all other nodes, which have a parent.
Rooted(m, r, lo, hi, level) ==
    /\ r \in DOMAIN m /\ lo[r] = 0 /\ hi[r] = MaxKey + 1
    /\ \A x \in DOMAIN m : level[x] <= level[r]
    /\ \A x \in DOMAIN m : x # r => HasParent(m, x)

Tree(m, r, lo, hi, level) ==
    /\ Bounded(m, lo, hi, level)
    /\ \A x \in DOMAIN m : Valid(m, lo, hi, level, x)
    /\ Rooted(m, r, lo, hi, level)

Holds(node, key, id) == IsLeaf(node) /\ key \in DOMAIN node.ids /\ id \in node.ids[key]

\* The pair is in a leaf.
Has(m, key, id) == \E x \in DOMAIN m : Holds(m[x], key, id)

\* The inductive invariant.
IndInv ==
    /\ \E lo, hi, level : Tree(nodes, root, lo, hi, level)
    /\ pairs \subseteq Storable /\ removals \in 0 .. MaxRemovals
    /\ \A key \in Keys, id \in Ids : <<key, id>> \in pairs <=> Has(nodes, key, id)

-----------------------------------------------------------------------------
(* Induction and recursion *)

\* Of the places that split, bound or end a search, there is a first one.
LEMMA FirstOf ==
    ASSUME NEW n \in Nat, NEW S \in SUBSET (1 .. n), S # {}
    PROVE  \E m \in S : \A j \in S : m <= j
<1> DEFINE Smaller == {{j \in 1 .. n : j < m} : m \in S}
<1>1. IsWellFoundedOn(StrictSubsetOrdering(1 .. n), FiniteSubsetsOf(1 .. n))
  BY FS_StrictSubsetOrderingWellFounded
<1>2. IsFiniteSet(1 .. n)
  BY FS_Interval
<1>3. Smaller \subseteq FiniteSubsetsOf(1 .. n) /\ Smaller # {}
  <2>1. \A T \in SUBSET (1 .. n) : T \in FiniteSubsetsOf(1 .. n)
    BY <1>2, FS_Subset DEF FiniteSubsetsOf
  <2> QED
    BY <2>1
<1>4. PICK x \in Smaller : \A y \in Smaller : ~ (<<y, x>> \in StrictSubsetOrdering(1 .. n))
  BY <1>1, <1>3, WFMin
<1>5. PICK m \in S : x = {j \in 1 .. n : j < m}
  BY <1>4
<1>6. ASSUME NEW j \in S, ~(m <= j)
      PROVE  FALSE
  <2>1. j \in 1 .. n /\ m \in 1 .. n /\ j < m
    BY <1>6
  <2>2. {k \in 1 .. n : k < j} \subseteq x /\ j \in x /\ j \notin {k \in 1 .. n : k < j}
    BY <1>5, <2>1
  <2>3. <<{k \in 1 .. n : k < j}, x>> \in StrictSubsetOrdering(1 .. n)
    BY <1>5, <2>2 DEF StrictSubsetOrdering
  <2> QED
    BY <1>4, <1>6, <2>3
<1> QED
  BY <1>6

\* What holds of level 0, and of each level that follows one of which it holds,
\* holds of all levels.
LEMMA LevelByLevel ==
    ASSUME NEW n \in Nat, NEW S, 0 \in S,
           \A k \in 1 .. n : k - 1 \in S => k \in S
    PROVE  \A k \in 0 .. n : k \in S
<1> DEFINE Others == {k \in 1 .. n : k \notin S}
<1>1. ASSUME Others # {}
      PROVE  FALSE
  <2>1. PICK m \in Others : \A j \in Others : m <= j
    BY <1>1, FirstOf
  <2>2. m \in 1 .. n /\ m - 1 \in 0 .. n /\ m - 1 \notin Others
    BY <2>1
  <2>3. m - 1 \in S
    BY <2>2
  <2> QED
    BY <2>1, <2>2, <2>3
<1> QED
  BY <1>1

\* A step F of a descent through D, which reads a function only at lower ranks.
Descent(D, V, rank, top, F) ==
    /\ V # {} /\ rank \in [D -> Nat] /\ top \in Nat /\ \A x \in D : rank[x] <= top
    /\ F \in [D \X [D -> V] -> V]
    /\ \A x \in D : \A f, g \in [D -> V] :
         (\A y \in D : rank[y] < rank[x] => f[y] = g[y]) => F[<<x, f>>] = F[<<x, g>>]

\* A function of the nodes that is defined by its values at nodes of less rank
\* exists: the descents of insert, find_leaf and verify come to an end.
LEMMA Recursion ==
    ASSUME NEW D, NEW V, NEW rank, NEW top, NEW F, Descent(D, V, rank, top, F)
    PROVE  \E f \in [D -> V] : f = [x \in D |-> F[<<x, f>>]]
<1>0. /\ V # {} /\ rank \in [D -> Nat] /\ top \in Nat /\ \A x \in D : rank[x] <= top
      /\ F \in [D \X [D -> V] -> V]
      /\ \A x \in D : \A f, g \in [D -> V] :
           (\A y \in D : rank[y] < rank[x] => f[y] = g[y]) => F[<<x, f>>] = F[<<x, g>>]
  BY DEF Descent
<1>0a. \A x \in D, f \in [D -> V] : F[<<x, f>>] \in V
  BY <1>0
<1> DEFINE Solves(f, k) == \A x \in D : rank[x] < k => f[x] = F[<<x, f>>]
           S == {k \in 0 .. top + 1 : \E f \in [D -> V] : Solves(f, k)}
<1>1. 0 \in S
  <2>1. PICK v \in V : TRUE
    BY <1>0
  <2>2. [x \in D |-> v] \in [D -> V]
    OBVIOUS
  <2>3. \A x \in D : ~(rank[x] < 0)
    BY <1>0
  <2>4. \A f : Solves(f, 0)
    BY <2>3
  <2>5. 0 \in 0 .. top + 1
    BY <1>0
  <2> HIDE DEF Solves
  <2> QED
    BY <2>2, <2>4, <2>5
<1>2. ASSUME NEW k \in 1 .. top + 1, k - 1 \in S
      PROVE  k \in S
  <2>1. PICK f \in [D -> V] : Solves(f, k - 1)
    BY <1>2
  <2> DEFINE g == [x \in D |-> IF rank[x] = k - 1 THEN F[<<x, f>>] ELSE f[x]]
  <2>2. g \in [D -> V] /\ \A x \in D : g[x] = IF rank[x] = k - 1 THEN F[<<x, f>>] ELSE f[x]
    BY <1>0a
  <2> HIDE DEF g
  <2>3. ASSUME NEW x \in D, rank[x] < k
        PROVE  g[x] = F[<<x, g>>]
    <3>1. rank[x] \in Nat /\ k \in Nat /\ rank[x] < k
      BY <1>0, <1>2, <2>3
    <3>2. \A y \in D : rank[y] < rank[x] => f[y] = g[y]
      <4> SUFFICES ASSUME NEW y \in D, rank[y] < rank[x]
                   PROVE  f[y] = g[y]
        OBVIOUS
      <4>1. rank[y] # k - 1
        BY <1>0, <2>3, <3>1
      <4> QED
        BY <2>2, <4>1
    <3>3. F[<<x, f>>] = F[<<x, g>>]
      BY <1>0, <2>2, <3>2
    <3>4. g[x] = F[<<x, f>>]
      <4>1. CASE rank[x] = k - 1
        BY <2>2, <4>1
      <4>2. CASE rank[x] # k - 1
        <5>1. rank[x] < k - 1
          BY ONLY <3>1, <4>2
        <5> QED
          BY <2>1, <2>2, <4>2, <5>1
      <4> QED
        BY <4>1, <4>2
    <3> QED
      BY <3>3, <3>4
  <2>4. Solves(g, k)
    BY <2>3
  <2> QED
    BY <2>2, <2>4
<1> HIDE DEF S
<1>3. top + 1 \in S
  <2>1. \A k \in 1 .. top + 1 : k - 1 \in S => k \in S
    BY <1>2
  <2>2. \A k \in 0 .. top + 1 : k \in S
    <3> DEFINE n == top + 1
    <3>1. n \in Nat /\ \A k \in 1 .. n : k - 1 \in S => k \in S
      BY <1>0, <2>1
    <3> HIDE DEF n
    <3>2. \A k \in 0 .. n : k \in S
      BY <1>1, <3>1, LevelByLevel
    <3> QED
      BY <3>2 DEF n
  <2> QED
    BY <1>0, <2>2
<1>4. PICK f \in [D -> V] : Solves(f, top + 1)
  BY <1>3 DEF S
<1>5. \A x \in D : rank[x] < top + 1
  BY <1>0
<1>6. \A x \in D : f[x] = F[<<x, f>>]
  BY <1>4, <1>5
<1>7. f = [x \in D |-> F[<<x, f>>]]
  BY <1>6
<1> QED
  BY <1>7

-----------------------------------------------------------------------------
(* Sets of keys *)

\* The keys of a node are finitely many.
LEMMA KeySets ==
    ASSUME NEW A \in SUBSET Keys
    PROVE  IsFiniteSet(A) /\ Cardinality(A) \in Nat
<1>1. IsFiniteSet(Keys)
  BY FS_Interval, TreeAssumption DEF Keys
<1> QED
  BY <1>1, FS_Subset, FS_CardinalityType

\* A greater key has more keys below it.
LEMMA MoreBelow ==
    ASSUME NEW A \in SUBSET Keys, NEW j \in A, NEW k \in A, j < k
    PROVE  Cardinality({i \in A : i < j}) < Cardinality({i \in A : i < k})
<1> DEFINE few == {i \in A : i < j}
           many == {i \in A : i < k}
<1>1. \A i \in A : i \in Nat
  BY TreeAssumption DEF Keys
<1>2. few \cup {j} \subseteq many /\ j \notin few /\ few \in SUBSET Keys /\ many \in SUBSET Keys
  BY <1>1
<1>3. Cardinality(few \cup {j}) = Cardinality(few) + 1
  BY <1>2, KeySets, FS_AddElement
<1>4. Cardinality(few \cup {j}) <= Cardinality(many)
  BY <1>2, KeySets, FS_Subset
<1>5. Cardinality(few) \in Nat /\ Cardinality(many) \in Nat
  BY <1>2, KeySets
<1> HIDE DEF few, many
<1>6. Cardinality(few) < Cardinality(many)
  BY <1>3, <1>4, <1>5
<1> QED
  BY <1>6 DEF few, many

\* A leaf that is split has a key with half of its keys below it.
LEMMA RankedFacts ==
    ASSUME NEW A \in SUBSET Keys, NEW rank \in Nat, rank < Cardinality(A)
    PROVE  /\ Ranked(A, rank) \in A
           /\ Cardinality({k \in A : k < Ranked(A, rank)}) = rank
<1> DEFINE Below(n) == {k \in A : k < n}
           S == {n \in 1 .. MaxKey + 1 : Cardinality(Below(n)) > rank}
<1>1. \A k \in A : k \in 1 .. MaxKey
  BY DEF Keys
<1>2. \A n : Below(n) \in SUBSET Keys /\ IsFiniteSet(Below(n)) /\ Cardinality(Below(n)) \in Nat
  BY KeySets
<1>3. MaxKey + 1 \in S
  <2>1. Below(MaxKey + 1) = A
    BY <1>1, TreeAssumption
  <2>2. Cardinality(Below(MaxKey + 1)) > rank
    BY <2>1
  <2> HIDE DEF Below
  <2>3. MaxKey + 1 \in 1 .. MaxKey + 1
    BY TreeAssumption
  <2> QED
    BY <2>2, <2>3
<1>4. PICK m \in S : \A n \in S : m <= n
  <2> HIDE DEF Below
  <2>1. S \in SUBSET (1 .. MaxKey + 1) /\ S # {}
    BY <1>3
  <2>2. MaxKey + 1 \in Nat
    BY TreeAssumption
  <2> HIDE DEF S
  <2> QED
    BY <2>1, <2>2, FirstOf
<1>5. m \in 1 .. MaxKey + 1 /\ Cardinality(Below(m)) > rank
  BY <1>4
<1>6. m # 1
  <2>1. Below(1) = {}
    BY <1>1, TreeAssumption
  <2> QED
    BY <1>5, <2>1, FS_EmptySet
<1>7. m - 1 \in 1 .. MaxKey + 1 /\ m - 1 < m /\ m - 1 \in Nat
  BY <1>5, <1>6, TreeAssumption
<1>8. ~(Cardinality(Below(m - 1)) > rank)
  <2>1. m - 1 \notin S
    BY <1>4, <1>5, <1>7
  <2> QED
    BY <1>7, <2>1
<1>9. \A k \in A : k < m <=> k < m - 1 \/ k = m - 1
  BY <1>1, <1>5, TreeAssumption
<1> HIDE DEF S
<1>10. m - 1 \in A
  <2> SUFFICES ASSUME m - 1 \notin A
               PROVE  FALSE
    OBVIOUS
  <2>1. Below(m) = Below(m - 1)
    BY <1>9
  <2> QED
    BY <1>5, <1>8, <2>1
<1>11. Cardinality(Below(m)) <= Cardinality(Below(m - 1)) + 1
  <2>1. Below(m) = Below(m - 1) \cup {m - 1}
    BY <1>9, <1>10
  <2>2. m - 1 \notin Below(m - 1)
    BY <1>7
  <2> DEFINE B == Below(m - 1)
             x == m - 1
  <2>3. IsFiniteSet(B) /\ Cardinality(B) \in Nat /\ x \notin B /\ Below(m) = B \cup {x}
    BY <1>2, <2>1, <2>2
  <2> HIDE DEF Below, B, x
  <2>4. Cardinality(B \cup {x}) = Cardinality(B) + 1
    BY <2>3, FS_AddElement
  <2>5. Cardinality(Below(m)) <= Cardinality(B) + 1
    BY <2>3, <2>4
  <2> QED
    BY <2>5 DEF B, x
<1>12. Cardinality(Below(m - 1)) = rank
  <2> HIDE DEF Below
  <2> QED
    BY <1>2, <1>5, <1>8, <1>11
<1>13. \E k \in A : Cardinality({j \in A : j < k}) = rank
  BY <1>10, <1>12
<1> QED
  BY <1>13 DEF Ranked

\* range yields the keys of a leaf once each and in order.
LEMMA InOrderFacts ==
    ASSUME NEW A \in SUBSET Keys
    PROVE  /\ InOrder(A) \in Seq(Keys)
           /\ \A i \in 1 .. Len(InOrder(A)) : InOrder(A)[i] \in A
           /\ \A key \in A : \E i \in 1 .. Len(InOrder(A)) : InOrder(A)[i] = key
           /\ \A i, j \in 1 .. Len(InOrder(A)) : i < j => InOrder(A)[i] < InOrder(A)[j]
<1> DEFINE n == Cardinality(A)
           Below(k) == {j \in A : j < k}
<1>0. \A k \in A : k \in Nat
  BY TreeAssumption DEF Keys
<1>1. n \in Nat
  BY KeySets
<1>2. InOrder(A) = [i \in 1 .. n |-> Ranked(A, i - 1)]
  BY DEF InOrder
<1>3. ASSUME NEW i \in 1 .. n
      PROVE  Ranked(A, i - 1) \in A /\ Cardinality(Below(Ranked(A, i - 1))) = i - 1
  <2>1. i - 1 \in Nat /\ i - 1 < n
    BY <1>1
  <2> QED
    BY <2>1, RankedFacts
<1>4. InOrder(A) \in [1 .. n -> Keys]
  BY <1>2, <1>3
<1>5. InOrder(A) \in Seq(Keys) /\ Len(InOrder(A)) = n
  BY <1>1, <1>4
<1>6. \A i \in 1 .. n : InOrder(A)[i] \in A
  BY <1>2, <1>3
<1>7. ASSUME NEW key \in A
      PROVE  \E i \in 1 .. n : InOrder(A)[i] = key
  <2>1. Below(key) \in SUBSET Keys /\ Cardinality(Below(key)) \in Nat
    BY KeySets
  <2>2. Cardinality(Below(key)) < n
    <3>1. key \notin Below(key) /\ Below(key) \in SUBSET A
      BY TreeAssumption DEF Keys
    <3>2. Cardinality(Below(key)) <= n /\ Below(key) # A
      BY <3>1, KeySets, FS_Subset
    <3>3. Cardinality(Below(key)) # n
      BY <3>1, <3>2, KeySets, FS_Subset
    <3> HIDE DEF Below, n
    <3> QED
      BY <1>1, <2>1, <3>2, <3>3
  <2> DEFINE i == Cardinality(Below(key)) + 1
  <2>3. i \in 1 .. n /\ i - 1 = Cardinality(Below(key))
    BY <1>1, <2>1, <2>2
  <2>4. InOrder(A)[i] \in A /\ Cardinality(Below(InOrder(A)[i])) = Cardinality(Below(key))
    BY <1>2, <1>3, <2>3
  <2>5. ~(InOrder(A)[i] < key) /\ ~(key < InOrder(A)[i])
    <3>1. Cardinality(Below(InOrder(A)[i])) \in Nat
      BY <2>1, <2>4
    <3>2. \A j, k \in A : j < k => Cardinality(Below(j)) < Cardinality(Below(k))
      BY MoreBelow
    <3> HIDE DEF Below, i
    <3>3. ASSUME InOrder(A)[i] < key
          PROVE  FALSE
      BY <2>1, <2>4, <3>1, <3>2, <3>3
    <3>4. ASSUME key < InOrder(A)[i]
          PROVE  FALSE
      BY <2>1, <2>4, <3>1, <3>2, <3>4
    <3> QED
      BY <3>3, <3>4
  <2>6. InOrder(A)[i] \in Nat /\ key \in Nat
    <3> HIDE DEF i
    <3> QED
      BY <1>0, <2>4
  <2>7. InOrder(A)[i] = key
    <3> HIDE DEF i
    <3> QED
      BY <2>5, <2>6
  <2> QED
    BY <2>3, <2>7
<1>8. ASSUME NEW i \in 1 .. n, NEW j \in 1 .. n, i < j
      PROVE  InOrder(A)[i] < InOrder(A)[j]
  <2> DEFINE a == InOrder(A)[i]
             b == InOrder(A)[j]
  <2>1. a \in A /\ b \in A /\ Cardinality(Below(a)) = i - 1 /\ Cardinality(Below(b)) = j - 1
    BY <1>2, <1>3
  <2>2. a \in Nat /\ b \in Nat
    <3> HIDE DEF a, b
    <3> QED
      BY <1>0, <2>1
  <2>3. ~(b < a)
    <3>1. \A k, l \in A : k < l => Cardinality(Below(k)) < Cardinality(Below(l))
      BY MoreBelow
    <3> HIDE DEF Below, a, b
    <3> QED
      BY <1>1, <1>8, <2>1, <3>1
  <2>4. a # b
    BY <1>1, <1>8, <2>1
  <2> HIDE DEF a, b
  <2>5. a < b
    BY <2>2, <2>3, <2>4
  <2> QED
    BY <2>5 DEF a, b
<1> QED
  BY <1>5, <1>6, <1>7, <1>8

\* The child whose keys a key is among lies between the separators around the key.
LEMMA ChildIndexFacts ==
    ASSUME NEW keys \in Seq(Keys), NEW key \in Keys
    PROVE  /\ ChildIndex(keys, key) \in 1 .. Len(keys) + 1
           /\ (\A i, j \in 1 .. Len(keys) : i < j => keys[i] < keys[j]) =>
                \A j \in 1 .. Len(keys) : j < ChildIndex(keys, key) <=> key >= keys[j]
<1> DEFINE n == Len(keys)
           T == {i \in DOMAIN keys : key >= keys[i]}
           c == Cardinality(T)
<1>1. n \in Nat /\ DOMAIN keys = 1 .. n /\ ChildIndex(keys, key) = 1 + c
  BY DEF ChildIndex
<1>2. T \in SUBSET (1 .. n)
  BY <1>1
<1>3. c \in Nat /\ c <= n
  <2>1. IsFiniteSet(1 .. n) /\ Cardinality(1 .. n) = n
    BY <1>1, FS_Interval
  <2> QED
    BY <1>2, <2>1, FS_Subset, FS_CardinalityType
<1>4. ASSUME \A i, j \in 1 .. n : i < j => keys[i] < keys[j], NEW j \in 1 .. n
      PROVE  j < 1 + c <=> key >= keys[j]
  <2>1. \A i \in 1 .. n : keys[i] \in Nat /\ key \in Nat
    BY TreeAssumption DEF Keys
  <2>2. \E m \in 0 .. n : T = 1 .. m
    <3>1. CASE T = 1 .. n
      BY <1>1, <3>1
    <3>2. CASE T # 1 .. n
      <4> DEFINE Out == (1 .. n) \ T
      <4>1. Out \in SUBSET (1 .. n) /\ Out # {}
        BY <1>2, <3>2
      <4>2. PICK m \in Out : \A i \in Out : m <= i
        BY <1>1, <4>1, FirstOf
      <4>3. m \in 1 .. n /\ ~(key >= keys[m]) /\ m - 1 \in 0 .. n
        BY <1>1, <4>2
      <4>4. ASSUME NEW i \in 1 .. n
            PROVE  i \in T <=> i < m
        <5>1. CASE i < m
          <6>1. i \notin Out
            BY <1>1, <4>2, <4>3, <5>1
          <6> QED
            BY <5>1, <6>1
        <5>2. CASE i = m
          BY <1>1, <4>3, <5>2
        <5>3. CASE m < i
          <6>1. keys[m] < keys[i]
            BY <1>4, <4>3, <5>3
          <6>2. ~(key >= keys[i])
            BY <2>1, <4>3, <6>1
          <6> QED
            BY <1>1, <4>3, <5>3, <6>2
        <5> QED
          BY <1>1, <4>3, <5>1, <5>2, <5>3
      <4>5. T = 1 .. m - 1
        BY <1>1, <1>2, <4>3, <4>4
      <4> QED
        BY <4>3, <4>5
    <3> QED
      BY <3>1, <3>2
  <2>3. PICK m \in 0 .. n : T = 1 .. m
    BY <2>2
  <2>4. c = m
    <3>1. 1 \in Int /\ m \in Int /\ m >= 0
      BY <1>1
    <3>2. Cardinality(1 .. m) = IF 1 > m THEN 0 ELSE m - 1 + 1
      BY <3>1, FS_Interval
    <3>3. Cardinality(1 .. m) = m
      BY <3>1, <3>2
    <3> QED
      BY <2>3, <3>3
  <2>5. j \in T <=> j <= m
    BY <1>1, <2>3
  <2> QED
    BY <1>1, <2>4, <2>5
<1> HIDE DEF c
<1>5. 1 + c \in 1 .. n + 1
  BY <1>1, <1>3
<1> QED
  BY <1>1, <1>4, <1>5

-----------------------------------------------------------------------------
(* Nodes *)

\* What a leaf and an inner node hold.
LEMMA NodeFacts ==
    ASSUME NEW node \in NodeSet
    PROVE  /\ IsLeaf(node) => /\ node = Leaf(node.ids, node.next)
                              /\ DOMAIN node.ids \in SUBSET Keys
                              /\ node.ids \in [DOMAIN node.ids -> SUBSET Ids]
                              /\ node.next \in Nat
           /\ ~IsLeaf(node) => node.keys \in Seq(Keys) /\ node.children \in Seq(Nat)
<1>1. CASE node \in LeafSet
  <2>1. IsLeaf(node) /\ node = Leaf(node.ids, node.next)
    BY <1>1 DEF LeafSet, IsLeaf, Leaf
  <2>2. node.ids \in UNION {[K -> SUBSET Ids] : K \in SUBSET Keys} /\ node.next \in Nat
    BY <1>1 DEF LeafSet
  <2>3. PICK K \in SUBSET Keys : node.ids \in [K -> SUBSET Ids]
    BY <2>2
  <2> QED
    BY <2>1, <2>2, <2>3
<1>2. CASE node \in InnerSet
  <2>1. ~IsLeaf(node)
    BY <1>2 DEF InnerSet, IsLeaf
  <2>2. node.keys \in Seq(Keys) /\ node.children \in Seq(Nat)
    BY <1>2 DEF InnerSet
  <2> QED
    BY <2>1, <2>2
<1> QED
  BY <1>1, <1>2 DEF NodeSet

\* A leaf that an operation writes.
LEMMA LeafFacts ==
    ASSUME NEW K \in SUBSET Keys, NEW ids \in [K -> SUBSET Ids], NEW next \in Nat
    PROVE  /\ Leaf(ids, next) \in NodeSet /\ IsLeaf(Leaf(ids, next))
           /\ Leaf(ids, next).ids = ids /\ Leaf(ids, next).next = next
<1>1. ids \in UNION {[L -> SUBSET Ids] : L \in SUBSET Keys}
  OBVIOUS
<1>2. Leaf(ids, next) \in LeafSet
  BY <1>1 DEF Leaf, LeafSet
<1> QED
  BY <1>2 DEF Leaf, IsLeaf, NodeSet

\* An inner node that an operation writes.
LEMMA InnerFacts ==
    ASSUME NEW keys \in Seq(Keys), NEW children \in Seq(Nat)
    PROVE  /\ Inner(keys, children) \in NodeSet /\ ~IsLeaf(Inner(keys, children))
           /\ Inner(keys, children).keys = keys /\ Inner(keys, children).children = children
<1>1. Inner(keys, children) \in InnerSet
  BY DEF Inner, InnerSet
<1> QED
  BY <1>1 DEF Inner, IsLeaf, NodeSet

-----------------------------------------------------------------------------
(* Nodes that share out keys *)

\* Children that share out keys have them in order, within the bounds of the node.
LEMMA SharesFacts ==
    ASSUME NEW D, NEW lo \in [D -> Bounds], NEW hi \in [D -> Bounds], NEW level,
           \A x \in D : lo[x] < hi[x],
           NEW keys \in Seq(Keys), NEW children \in Seq(Nat),
           NEW low \in Bounds, NEW high \in Bounds, NEW above,
           Shares(D, lo, hi, level, keys, children, low, high, above)
    PROVE  /\ \A i \in 1 .. Len(keys) : low < keys[i] /\ keys[i] < high
           /\ \A i \in 1 .. Len(children) : low <= lo[children[i]] /\ hi[children[i]] <= high
           /\ \A i, j \in 1 .. Len(children) : i < j => hi[children[i]] <= lo[children[j]]
<1> DEFINE n == Len(keys)
<1>1. n \in Nat /\ Len(children) = n + 1
  BY DEF Shares
<1>2. /\ \A i \in 1 .. n : keys[i] \in Nat
      /\ low \in Nat /\ high \in Nat
      /\ \A x \in D : lo[x] \in Nat /\ hi[x] \in Nat
  BY TreeAssumption DEF Keys, Bounds
<1>3. \A i, j \in 1 .. n : i < j => keys[i] < keys[j]
  BY DEF Shares
<1>4. \A i \in 1 .. n + 1 :
         /\ children[i] \in D /\ lo[children[i]] < hi[children[i]]
         /\ lo[children[i]] = IF i = 1 THEN low ELSE keys[i - 1]
         /\ hi[children[i]] = IF i = n + 1 THEN high ELSE keys[i]
  BY <1>1 DEF Shares
<1> HIDE DEF n
<1>5. ASSUME NEW i \in 1 .. n
      PROVE  low < keys[i] /\ keys[i] < high
  <2>1. 1 \in 1 .. n /\ n \in 1 .. n /\ n + 1 \in 1 .. n + 1 /\ 1 \in 1 .. n + 1 /\ 1 # n + 1
    BY <1>1
  <2>2. low < keys[1]
    BY <1>4, <2>1
  <2>3. keys[n] < high
    <3>1. lo[children[n + 1]] = keys[n + 1 - 1] /\ n + 1 - 1 = n
      BY <1>1, <1>4, <2>1
    <3>2. hi[children[n + 1]] = high /\ lo[children[n + 1]] < hi[children[n + 1]]
      BY <1>4, <2>1
    <3> QED
      BY <3>1, <3>2
  <2>4. keys[1] <= keys[i]
    BY <1>1, <1>2, <1>3, <2>1
  <2>5. keys[i] <= keys[n]
    BY <1>1, <1>2, <1>3, <2>1
  <2>6. keys[1] \in Nat /\ keys[n] \in Nat /\ keys[i] \in Nat
    BY <1>2, <2>1
  <2> QED
    BY <1>2, <2>2, <2>3, <2>4, <2>5, <2>6
<1>6. ASSUME NEW i \in 1 .. n + 1
      PROVE  low <= lo[children[i]] /\ hi[children[i]] <= high
  <2>1. low <= lo[children[i]]
    <3>1. CASE i = 1
      BY <1>2, <1>4, <3>1
    <3>2. CASE i # 1
      <4>1. i - 1 \in 1 .. n
        BY <1>1, <3>2
      <4> QED
        BY <1>2, <1>4, <1>5, <3>2, <4>1, SMTT(30)
    <3> QED
      BY <3>1, <3>2
  <2>2. hi[children[i]] <= high
    <3>1. CASE i = n + 1
      BY <1>2, <1>4, <3>1
    <3>2. CASE i # n + 1
      <4>1. i \in 1 .. n
        BY <1>1, <3>2
      <4> QED
        BY <1>2, <1>4, <1>5, <3>2, <4>1
    <3> QED
      BY <3>1, <3>2
  <2> QED
    BY <2>1, <2>2
<1>7. ASSUME NEW i \in 1 .. n + 1, NEW j \in 1 .. n + 1, i < j
      PROVE  hi[children[i]] <= lo[children[j]]
  <2>1. i \in 1 .. n /\ j - 1 \in 1 .. n /\ i <= j - 1 /\ i # n + 1 /\ j # 1
    BY <1>1, <1>7
  <2>2. hi[children[i]] = keys[i] /\ lo[children[j]] = keys[j - 1]
    BY <1>4, <2>1
  <2>3. keys[i] <= keys[j - 1]
    BY <1>2, <1>3, <2>1
  <2> QED
    BY <2>2, <2>3
<1> QED
  BY <1>1, <1>5, <1>6, <1>7 DEF n

\* A key goes to the child whose share it is in.
LEMMA SharesChild ==
    ASSUME NEW D, NEW lo, NEW hi, NEW level,
           NEW keys \in Seq(Keys), NEW children \in Seq(Nat), NEW low, NEW high, NEW above,
           Shares(D, lo, hi, level, keys, children, low, high, above),
           NEW key \in Keys
    PROVE  /\ ChildIndex(keys, key) \in 1 .. Len(children)
           /\ low <= key => lo[children[ChildIndex(keys, key)]] <= key
           /\ key < high => key < hi[children[ChildIndex(keys, key)]]
<1> DEFINE n == Len(keys)
           i == ChildIndex(keys, key)
<1>1. n \in Nat /\ Len(children) = n + 1
  BY DEF Shares
<1>2. \A j \in 1 .. n : keys[j] \in Nat /\ key \in Nat
  BY TreeAssumption DEF Keys
<1>3. \A j \in 1 .. n + 1 :
         /\ lo[children[j]] = IF j = 1 THEN low ELSE keys[j - 1]
         /\ hi[children[j]] = IF j = n + 1 THEN high ELSE keys[j]
  BY <1>1 DEF Shares
<1>4. i \in 1 .. n + 1
  BY ChildIndexFacts
<1>5. \A j \in 1 .. n : j < i <=> key >= keys[j]
  <2>1. \A j, k \in 1 .. n : j < k => keys[j] < keys[k]
    BY DEF Shares
  <2> QED
    BY <2>1, ChildIndexFacts
<1> HIDE DEF n, i
<1>6. low <= key => lo[children[i]] <= key
  <2>1. CASE i = 1
    BY <1>3, <1>4, <2>1
  <2>2. CASE i # 1
    <3>1. i - 1 \in 1 .. n /\ i - 1 < i
      BY <1>1, <1>4, <2>2
    <3>2. key >= keys[i - 1] /\ lo[children[i]] = keys[i - 1]
      BY <1>3, <1>4, <1>5, <2>2, <3>1
    <3> QED
      BY <3>2
  <2> QED
    BY <2>1, <2>2
<1>7. key < high => key < hi[children[i]]
  <2>1. CASE i = n + 1
    BY <1>3, <1>4, <2>1
  <2>2. CASE i # n + 1
    <3>1. i \in 1 .. n /\ ~(i < i)
      BY <1>1, <1>4, <2>2
    <3>2. ~(key >= keys[i]) /\ hi[children[i]] = keys[i]
      BY <1>3, <1>4, <1>5, <2>2, <3>1
    <3> QED
      BY <1>2, <3>1, <3>2
  <2> QED
    BY <2>1, <2>2
<1> QED
  BY <1>1, <1>4, <1>6, <1>7 DEF n, i

\* A node whose children keep their shares is unchanged.
LEMMA SharesKept ==
    ASSUME NEW D, NEW lo, NEW hi, NEW level, NEW E, NEW lo2, NEW hi2, NEW level2,
           NEW keys, NEW children \in Seq(Nat), NEW low, NEW high, NEW above,
           Shares(D, lo, hi, level, keys, children, low, high, above),
           \A i \in 1 .. Len(children) :
              /\ children[i] \in E
              /\ lo2[children[i]] = lo[children[i]] /\ hi2[children[i]] = hi[children[i]]
              /\ level2[children[i]] = level[children[i]]
    PROVE  Shares(E, lo2, hi2, level2, keys, children, low, high, above)
  BY DEF Shares

\* A sequence with x inserted at place i holds x and all it held, in its order.
Inserted(S, s, i, x) ==
    LET t == InsertAt(s, i, x) IN
    /\ t \in Seq(S) /\ Len(t) = Len(s) + 1
    /\ \A j \in 1 .. Len(s) + 1 : t[j] = IF j < i THEN s[j] ELSE IF j = i THEN x ELSE s[j - 1]
    /\ \A j \in 1 .. Len(s) : \E k \in 1 .. Len(t) : t[k] = s[j]
    /\ \E k \in 1 .. Len(t) : t[k] = x

\* A separator, and the new node behind its child, go in among those of the parent.
LEMMA InsertAtFacts ==
    ASSUME NEW S, NEW s \in Seq(S), NEW i \in 1 .. Len(s) + 1, NEW x \in S
    PROVE  Inserted(S, s, i, x)
<1> DEFINE left == SubSeq(s, 1, i - 1)
           right == SubSeq(s, i, Len(s))
<1>1. Len(s) \in Nat /\ i \in Nat /\ i - 1 \in Nat /\ i - 1 <= Len(s)
  OBVIOUS
<1>2. left \in Seq(S) /\ Len(left) = i - 1 /\ \A j \in 1 .. i - 1 : left[j] = s[j]
  BY <1>1
<1>3. /\ right \in Seq(S) /\ Len(right) = Len(s) + 1 - i
      /\ \A j \in 1 .. Len(s) + 1 - i : right[j] = s[i + j - 1]
  BY <1>1
<1> HIDE DEF left, right
<1> DEFINE most == left \o <<x>>
<1>4. /\ most \in Seq(S) /\ Len(most) = i
      /\ \A j \in 1 .. i : most[j] = IF j < i THEN s[j] ELSE x
  BY <1>1, <1>2
<1> HIDE DEF most
<1>5. /\ most \o right \in Seq(S) /\ Len(most \o right) = Len(s) + 1
      /\ \A j \in 1 .. Len(s) + 1 : (most \o right)[j] = IF j <= i THEN most[j] ELSE right[j - i]
  <2>1. most \in Seq(S) /\ right \in Seq(S) /\ Len(most) + Len(right) = Len(s) + 1
    BY <1>1, <1>3, <1>4
  <2>2. most \o right \in Seq(S) /\ Len(most \o right) = Len(s) + 1
    BY <2>1
  <2>3. \A j \in 1 .. Len(most) + Len(right) :
          (most \o right)[j] = IF j <= Len(most) THEN most[j] ELSE right[j - Len(most)]
    BY <2>1
  <2> QED
    BY <1>4, <2>1, <2>2, <2>3
<1>6. ASSUME NEW j \in 1 .. Len(s) + 1
      PROVE  (most \o right)[j] = IF j < i THEN s[j] ELSE IF j = i THEN x ELSE s[j - 1]
  <2>1. CASE j <= i
    BY <1>1, <1>4, <1>5, <2>1
  <2>2. CASE ~(j <= i)
    <3>1. j - i \in 1 .. Len(s) + 1 - i /\ i + (j - i) - 1 = j - 1
      BY <1>1, <2>2
    <3>2. right[j - i] = s[i + (j - i) - 1]
      BY <1>3, <3>1
    <3> QED
      BY <1>1, <1>5, <2>2, <3>1, <3>2
  <2> QED
    BY <2>1, <2>2
<1>7. InsertAt(s, i, x) = most \o right
  BY DEF InsertAt, left, right, most
<1> DEFINE t == InsertAt(s, i, x)
<1>8. /\ t \in Seq(S) /\ Len(t) = Len(s) + 1
      /\ \A j \in 1 .. Len(s) + 1 : t[j] = IF j < i THEN s[j] ELSE IF j = i THEN x ELSE s[j - 1]
  BY <1>5, <1>6, <1>7
<1> HIDE DEF t
<1>9. ASSUME NEW j \in 1 .. Len(s)
      PROVE  \E k \in 1 .. Len(t) : t[k] = s[j]
  <2>1. CASE j < i
    <3>1. j \in 1 .. Len(t) /\ t[j] = s[j]
      BY <1>1, <1>8, <2>1
    <3> QED
      BY <3>1
  <2>2. CASE ~(j < i)
    <3>1. j + 1 \in 1 .. Len(t) /\ ~(j + 1 < i) /\ j + 1 # i /\ j + 1 - 1 = j
      BY <1>1, <1>8, <2>2
    <3>2. t[j + 1] = s[j + 1 - 1]
      BY <1>8, <3>1
    <3> QED
      BY <3>1, <3>2
  <2> QED
    BY <2>1, <2>2
<1>10. i \in 1 .. Len(t) /\ t[i] = x
  BY <1>1, <1>8
<1> QED
  BY <1>8, <1>9, <1>10 DEF t, Inserted

\* The i-th child was split at the separator, and the new node has the upper half.
Joins(D, lo, hi, level, E, lo2, hi2, level2, keys, children, i, new, separator) ==
    /\ D \subseteq E /\ i \in 1 .. Len(children) /\ new \in E /\ new \in Nat /\ separator \in Keys
    /\ \A x \in D : lo2[x] = lo[x] /\ level2[x] = level[x]
    /\ \A j \in 1 .. Len(children) : j # i => hi2[children[j]] = hi[children[j]]
    /\ hi2[children[i]] = separator /\ level2[new] = level[children[i]]
    /\ lo2[new] = separator /\ hi2[new] = hi[children[i]]
    /\ \A j \in 1 .. Len(keys) : j < i => keys[j] < separator
    /\ \A j \in 1 .. Len(keys) : j >= i => separator < keys[j]

\* A node that takes over the new half of a child shares out its keys among one
\* child more.
LEMMA SharesInsert ==
    ASSUME NEW D, NEW lo, NEW hi, NEW level, NEW E, NEW lo2, NEW hi2, NEW level2,
           NEW keys \in Seq(Keys), NEW children \in Seq(Nat), NEW low, NEW high, NEW above,
           Shares(D, lo, hi, level, keys, children, low, high, above),
           NEW i, NEW new, NEW separator,
           Joins(D, lo, hi, level, E, lo2, hi2, level2, keys, children, i, new, separator)
    PROVE  /\ InsertAt(keys, i, separator) \in Seq(Keys)
           /\ Len(InsertAt(keys, i, separator)) = Len(keys) + 1
           /\ InsertAt(children, i + 1, new) \in Seq(Nat)
           /\ Shares(E, lo2, hi2, level2, InsertAt(keys, i, separator),
                     InsertAt(children, i + 1, new), low, high, above)
<1>0. /\ D \subseteq E /\ i \in 1 .. Len(children) /\ new \in E /\ new \in Nat /\ separator \in Keys
      /\ \A x \in D : lo2[x] = lo[x] /\ level2[x] = level[x]
      /\ \A j \in 1 .. Len(children) : j # i => hi2[children[j]] = hi[children[j]]
      /\ hi2[children[i]] = separator /\ level2[new] = level[children[i]]
      /\ lo2[new] = separator /\ hi2[new] = hi[children[i]]
      /\ \A j \in 1 .. Len(keys) : j < i => keys[j] < separator
      /\ \A j \in 1 .. Len(keys) : j >= i => separator < keys[j]
  BY DEF Joins
<1> DEFINE n == Len(keys)
           keys2 == InsertAt(keys, i, separator)
           children2 == InsertAt(children, i + 1, new)
<1>1. n \in Nat /\ Len(children) = n + 1 /\ i \in 1 .. n + 1 /\ i + 1 \in 1 .. n + 2
  BY <1>0 DEF Shares
<1>2. \A j \in 1 .. n + 1 :
         /\ children[j] \in D /\ level[children[j]] + 1 = above
         /\ lo[children[j]] = IF j = 1 THEN low ELSE keys[j - 1]
         /\ hi[children[j]] = IF j = n + 1 THEN high ELSE keys[j]
  BY <1>1 DEF Shares
<1>3. \A j, k \in 1 .. n : j < k => keys[j] < keys[k]
  BY DEF Shares
<1>4. /\ keys2 \in Seq(Keys) /\ Len(keys2) = n + 1
      /\ \A j \in 1 .. n + 1 :
           keys2[j] = IF j < i THEN keys[j] ELSE IF j = i THEN separator ELSE keys[j - 1]
  <2>1. Inserted(Keys, keys, i, separator)
    BY <1>0, <1>1, InsertAtFacts
  <2> QED
    BY <2>1 DEF Inserted
<1>5. /\ children2 \in Seq(Nat) /\ Len(children2) = n + 2
      /\ \A j \in 1 .. n + 2 :
           children2[j] = IF j < i + 1 THEN children[j]
                          ELSE IF j = i + 1 THEN new ELSE children[j - 1]
  <2>1. i + 1 \in 1 .. Len(children) + 1 /\ Len(children) + 1 = n + 2
    BY <1>1
  <2>2. /\ children2 \in Seq(Nat) /\ Len(children2) = Len(children) + 1
        /\ \A j \in 1 .. Len(children) + 1 :
             children2[j] = IF j < i + 1 THEN children[j]
                            ELSE IF j = i + 1 THEN new ELSE children[j - 1]
    <3> DEFINE at == i + 1
               N == Nat
    <3>1. at \in 1 .. Len(children) + 1 /\ children \in Seq(N) /\ new \in N
      BY <1>0, <2>1
    <3> HIDE DEF at, N
    <3>2. /\ InsertAt(children, at, new) \in Seq(N)
          /\ Len(InsertAt(children, at, new)) = Len(children) + 1
          /\ \A j \in 1 .. Len(children) + 1 : InsertAt(children, at, new)[j] =
               IF j < at THEN children[j] ELSE IF j = at THEN new ELSE children[j - 1]
      <4>1. Inserted(N, children, at, new)
        BY ONLY <3>1, InsertAtFacts
      <4> QED
        BY <4>1 DEF Inserted
    <3> QED
      BY <3>2 DEF at, N
  <2> HIDE DEF children2, n
  <2> QED
    BY <2>1, <2>2
<1> HIDE DEF keys2, children2, n
<1>6. ASSUME NEW j \in 1 .. n + 1, NEW k \in 1 .. n + 1, j < k
      PROVE  keys2[j] < keys2[k]
  <2>1. \A l \in 1 .. n : keys[l] \in Nat
    BY TreeAssumption DEF Keys, n
  <2>2. \A l \in 1 .. n : (l < i => keys[l] < separator) /\ (l >= i => separator < keys[l])
    BY <1>0 DEF n
  <2>0. n \in Nat /\ i \in Nat /\ i <= n + 1 /\ j \in Nat /\ j >= 1 /\ k \in Nat /\ k <= n + 1
    BY <1>1
  <2>3. CASE k < i
    <3>1. j \in 1 .. n /\ k \in 1 .. n /\ j < i
      BY ONLY <1>6, <2>0, <2>3
    <3>2. keys2[j] = keys[j] /\ keys2[k] = keys[k]
      BY <1>4, <2>3, <3>1
    <3> QED
      BY <1>3, <1>6, <3>1, <3>2
  <2>4. CASE k = i
    <3>1. j \in 1 .. n /\ j < i
      BY ONLY <1>6, <2>0, <2>4
    <3>2. keys2[j] = keys[j] /\ keys2[k] = separator
      BY <1>4, <2>4, <3>1
    <3> QED
      BY <2>2, <3>1, <3>2
  <2>5. CASE k > i
    <3>0. k - 1 \in 1 .. n /\ k - 1 >= i /\ ~(k < i) /\ k # i
      BY ONLY <2>0, <2>5, <1>1
    <3>1. k - 1 \in 1 .. n /\ keys2[k] = keys[k - 1] /\ k - 1 >= i
      BY <1>4, <3>0
    <3>2. CASE j < i
      <4>1. j \in 1 .. n /\ j < k - 1
        BY ONLY <2>0, <2>5, <3>2
      <4>2. keys2[j] = keys[j]
        BY <1>4, <3>2
      <4> QED
        BY <1>3, <3>1, <4>1, <4>2
    <3>3. CASE j = i
      BY <1>1, <1>4, <2>2, <3>1, <3>3
    <3>4. CASE j > i
      <4>1. j - 1 \in 1 .. n /\ j - 1 < k - 1 /\ ~(j < i) /\ j # i
        BY <1>1, <1>6, <3>4
      <4>2. keys2[j] = keys[j - 1]
        BY <1>4, <4>1
      <4> QED
        BY <1>3, <3>1, <4>1, <4>2
    <3> QED
      BY <1>1, <3>2, <3>3, <3>4
  <2> QED
    BY <1>1, <2>3, <2>4, <2>5
<1>7. ASSUME NEW j \in 1 .. n + 2
      PROVE  /\ children2[j] \in E /\ level2[children2[j]] + 1 = above
             /\ lo2[children2[j]] = IF j = 1 THEN low ELSE keys2[j - 1]
             /\ hi2[children2[j]] = IF j = n + 2 THEN high ELSE keys2[j]
  <2>0. /\ \A x \in D : x \in E /\ lo2[x] = lo[x] /\ level2[x] = level[x]
        /\ \A k \in 1 .. n + 1 : k # i => hi2[children[k]] = hi[children[k]]
        /\ hi2[children[i]] = separator /\ level2[new] = level[children[i]] /\ new \in E
        /\ lo2[new] = separator /\ hi2[new] = hi[children[i]]
    BY <1>0, <1>1
  <2>1. CASE j < i
    <3>1. j \in 1 .. n + 1 /\ children2[j] = children[j] /\ j # i /\ j # n + 1 /\ j # n + 2
      BY <1>1, <1>5, <2>1
    <3>2. keys2[j] = keys[j] /\ (j # 1 => keys2[j - 1] = keys[j - 1])
      BY <1>1, <1>4, <2>1, <3>1
    <3>3. hi2[children[j]] = hi[children[j]]
      BY <2>0, <3>1
    <3>4. children[j] \in D /\ level2[children[j]] + 1 = above
      BY <1>2, <2>0, <3>1
    <3>5. lo2[children[j]] = IF j = 1 THEN low ELSE keys2[j - 1]
      BY <1>2, <2>0, <3>1, <3>2, <3>4
    <3>6. hi2[children[j]] = keys2[j]
      BY <1>2, <3>1, <3>2, <3>3
    <3>7. hi2[children2[j]] = IF j = n + 2 THEN high ELSE keys2[j]
      BY <3>1, <3>6
    <3>8. lo2[children2[j]] = IF j = 1 THEN low ELSE keys2[j - 1]
      BY <3>1, <3>5
    <3>9. children2[j] \in E /\ level2[children2[j]] + 1 = above
      BY <2>0, <3>1, <3>4
    <3> QED
      BY <3>7, <3>8, <3>9
  <2>2. CASE j = i
    <3>1. j \in 1 .. n + 1 /\ children2[j] = children[i] /\ j # n + 2
      BY <1>1, <1>5, <2>2
    <3>2. keys2[j] = separator /\ (j # 1 => keys2[j - 1] = keys[j - 1])
      BY <1>1, <1>4, <2>2, <3>1
    <3> QED
      BY <1>1, <1>2, <2>0, <2>2, <3>1, <3>2
  <2>3. CASE j = i + 1
    <3>0. j # 1 /\ j - 1 = i /\ ~(j < i + 1) /\ ~(i < i)
      BY <1>1, <2>3
    <3>1. children2[j] = new /\ j # 1 /\ j - 1 = i /\ keys2[j - 1] = separator
      BY <1>1, <1>4, <1>5, <2>3, <3>0
    <3>2. hi[children[i]] = IF j = n + 2 THEN high ELSE keys2[j]
      <4>1. CASE i = n + 1
        BY <1>1, <1>2, <2>3, <4>1
      <4>2. CASE i # n + 1
        <5>1. j \in 1 .. n + 1 /\ j # n + 2 /\ keys2[j] = keys[i]
          BY <1>1, <1>4, <2>3, <4>2
        <5> QED
          BY <1>1, <1>2, <4>2, <5>1
      <4> QED
        BY <4>1, <4>2
    <3>3. level2[new] + 1 = above
      BY <1>1, <1>2, <2>0
    <3> QED
      BY <2>0, <3>1, <3>2, <3>3
  <2>4. CASE j > i + 1
    <3>1. /\ j - 1 \in 1 .. n + 1 /\ children2[j] = children[j - 1]
          /\ j - 1 # i /\ j # 1 /\ j - 1 # 1
      BY <1>1, <1>5, <2>4, SMTT(30)
    <3>2. keys2[j - 1] = keys[j - 1 - 1]
      BY <1>1, <1>4, <2>4, <3>1
    <3>3. j # n + 2 => keys2[j] = keys[j - 1]
      <4>1. j # n + 2 => j \in 1 .. n + 1 /\ ~(j < i) /\ j # i
        BY <1>1, <2>4
      <4> QED
        BY <1>4, <4>1
    <3>4. j - 1 = n + 1 <=> j = n + 2
      BY <1>1
    <3>5. hi2[children[j - 1]] = hi[children[j - 1]]
      BY <2>0, <3>1
    <3>6. children[j - 1] \in D /\ level2[children[j - 1]] + 1 = above
      BY <1>2, <2>0, <3>1
    <3>7. lo2[children[j - 1]] = keys2[j - 1]
      <4>1. lo[children[j - 1]] = keys[j - 1 - 1]
        BY <1>2, <3>1
      <4> QED
        BY <2>0, <3>2, <3>6, <4>1
    <3>8. hi2[children[j - 1]] = IF j = n + 2 THEN high ELSE keys2[j]
      <4>1. hi[children[j - 1]] = IF j - 1 = n + 1 THEN high ELSE keys[j - 1]
        BY <1>2, <3>1
      <4> QED
        BY <3>3, <3>4, <3>5, <4>1
    <3>9. hi2[children2[j]] = IF j = n + 2 THEN high ELSE keys2[j]
      BY <3>1, <3>8
    <3>10. lo2[children2[j]] = IF j = 1 THEN low ELSE keys2[j - 1]
      BY <3>1, <3>7
    <3>11. children2[j] \in E /\ level2[children2[j]] + 1 = above
      BY <2>0, <3>1, <3>6
    <3> QED
      BY <3>9, <3>10, <3>11
  <2> QED
    BY <1>1, <2>1, <2>2, <2>3, <2>4
<1>8. Len(children2) = Len(keys2) + 1
  BY <1>1, <1>4, <1>5
<1>9. Shares(E, lo2, hi2, level2, keys2, children2, low, high, above)
  BY <1>4, <1>5, <1>6, <1>7, <1>8 DEF Shares
<1> QED
  BY <1>4, <1>5, <1>9 DEF keys2, children2, n

\* Both halves of a node that is split at a separator, which goes to neither.
Halves(D, lo, hi, level, keys, children, low, high, above, middle) ==
    /\ SubSeq(keys, 1, middle - 1) \in Seq(Keys)
    /\ Len(SubSeq(keys, 1, middle - 1)) = middle - 1
    /\ SubSeq(children, 1, middle) \in Seq(Nat)
    /\ Shares(D, lo, hi, level, SubSeq(keys, 1, middle - 1), SubSeq(children, 1, middle),
              low, keys[middle], above)
    /\ SubSeq(keys, middle + 1, Len(keys)) \in Seq(Keys)
    /\ Len(SubSeq(keys, middle + 1, Len(keys))) = Len(keys) - middle
    /\ SubSeq(children, middle + 1, Len(children)) \in Seq(Nat)
    /\ Shares(D, lo, hi, level, SubSeq(keys, middle + 1, Len(keys)),
              SubSeq(children, middle + 1, Len(children)), keys[middle], high, above)
    /\ \A j \in 1 .. Len(children) :
         \/ \E k \in 1 .. Len(SubSeq(children, 1, middle)) :
              SubSeq(children, 1, middle)[k] = children[j]
         \/ \E k \in 1 .. Len(SubSeq(children, middle + 1, Len(children))) :
              SubSeq(children, middle + 1, Len(children))[k] = children[j]

\* A node that is split at one of its separators shares out its keys among both halves.
LEMMA SharesSplit ==
    ASSUME NEW D, NEW lo, NEW hi, NEW level,
           NEW keys \in Seq(Keys), NEW children \in Seq(Nat), NEW low, NEW high, NEW above,
           Shares(D, lo, hi, level, keys, children, low, high, above),
           NEW middle \in 1 .. Len(keys)
    PROVE  Halves(D, lo, hi, level, keys, children, low, high, above, middle)
<1> DEFINE n == Len(keys)
           keys1 == SubSeq(keys, 1, middle - 1)
           children1 == SubSeq(children, 1, middle)
           keys2 == SubSeq(keys, middle + 1, Len(keys))
           children2 == SubSeq(children, middle + 1, Len(children))
<1>1. n \in Nat /\ Len(children) = n + 1 /\ middle \in 1 .. n
  BY DEF Shares
<1>2. \A j \in 1 .. n + 1 :
         /\ children[j] \in D /\ level[children[j]] + 1 = above
         /\ lo[children[j]] = IF j = 1 THEN low ELSE keys[j - 1]
         /\ hi[children[j]] = IF j = n + 1 THEN high ELSE keys[j]
  BY <1>1 DEF Shares
<1>3. \A j, k \in 1 .. n : j < k => keys[j] < keys[k]
  BY DEF Shares
<1>4. /\ keys1 \in Seq(Keys) /\ Len(keys1) = middle - 1
      /\ \A j \in 1 .. middle - 1 : keys1[j] = keys[j]
  BY <1>1
<1>5. /\ children1 \in Seq(Nat) /\ Len(children1) = middle
      /\ \A j \in 1 .. middle : children1[j] = children[j]
  BY <1>1
<1>6. /\ keys2 \in Seq(Keys) /\ Len(keys2) = n - middle
      /\ \A j \in 1 .. n - middle : keys2[j] = keys[middle + j]
  BY <1>1
<1>7. /\ children2 \in Seq(Nat) /\ Len(children2) = n + 1 - middle
      /\ \A j \in 1 .. n + 1 - middle : children2[j] = children[middle + j]
  BY <1>1, SMTT(30)
<1> HIDE DEF n, keys1, keys2, children1, children2
<1>8. Shares(D, lo, hi, level, keys1, children1, low, keys[middle], above)
  <2>1. Len(children1) = Len(keys1) + 1
    BY <1>1, <1>4, <1>5
  <2>2. \A j, k \in 1 .. Len(keys1) : j < k => keys1[j] < keys1[k]
    BY <1>1, <1>3, <1>4
  <2>3. ASSUME NEW j \in 1 .. Len(children1)
        PROVE  /\ children1[j] \in D /\ level[children1[j]] + 1 = above
               /\ lo[children1[j]] = IF j = 1 THEN low ELSE keys1[j - 1]
               /\ hi[children1[j]] = IF j = Len(children1) THEN keys[middle] ELSE keys1[j]
    <3>1. j \in 1 .. n + 1 /\ j # n + 1 /\ children1[j] = children[j]
      BY <1>1, <1>5
    <3>2. j # 1 => keys1[j - 1] = keys[j - 1]
      BY <1>1, <1>4, <1>5, <3>1
    <3>3. IF j = Len(children1) THEN j = middle ELSE keys1[j] = keys[j]
      BY <1>1, <1>4, <1>5, <3>1
    <3> QED
      BY <1>2, <3>1, <3>2, <3>3
  <2> QED
    BY <2>1, <2>2, <2>3 DEF Shares
<1>9. Shares(D, lo, hi, level, keys2, children2, keys[middle], high, above)
  <2>1. Len(children2) = Len(keys2) + 1
    BY <1>1, <1>6, <1>7
  <2>2. ASSUME NEW j \in 1 .. Len(keys2), NEW k \in 1 .. Len(keys2), j < k
        PROVE  keys2[j] < keys2[k]
    <3>1. middle + j \in 1 .. n /\ middle + k \in 1 .. n /\ middle + j < middle + k
      BY <1>1, <1>6, <2>2
    <3> QED
      BY <1>3, <1>6, <3>1
  <2>3. ASSUME NEW j \in 1 .. Len(children2)
        PROVE  /\ children2[j] \in D /\ level[children2[j]] + 1 = above
               /\ lo[children2[j]] = IF j = 1 THEN keys[middle] ELSE keys2[j - 1]
               /\ hi[children2[j]] = IF j = Len(children2) THEN high ELSE keys2[j]
    <3>1. /\ middle + j \in 1 .. n + 1 /\ middle + j # 1
          /\ children2[j] = children[middle + j]
          /\ middle + j = n + 1 <=> j = Len(children2)
      <4>1. j \in 1 .. n + 1 - middle /\ children2[j] = children[middle + j]
        BY <1>7
      <4>2. n \in Nat /\ middle \in 1 .. n /\ Len(children2) = n + 1 - middle
        BY <1>1, <1>7
      <4>3. /\ middle + j \in 1 .. n + 1 /\ middle + j # 1
            /\ middle + j = n + 1 <=> j = n + 1 - middle
        BY ONLY <4>1, <4>2
      <4> QED
        BY <4>1, <4>2, <4>3
    <3>2. IF j = 1 THEN middle + j - 1 = middle ELSE keys2[j - 1] = keys[middle + j - 1]
      <4>1. CASE j = 1
        BY <1>1, <4>1
      <4>2. CASE j # 1
        <5>1. j - 1 \in 1 .. n - middle /\ middle + (j - 1) = middle + j - 1
          BY <1>1, <1>7, <4>2
        <5>2. keys2[j - 1] = keys[middle + (j - 1)]
          BY <1>6, <5>1
        <5> QED
          BY <4>2, <5>1, <5>2
      <4> QED
        BY <4>1, <4>2
    <3>3. j # Len(children2) => keys2[j] = keys[middle + j]
      BY <1>1, <1>6, <1>7
    <3>4. children2[j] \in D /\ level[children2[j]] + 1 = above
      BY <1>2, <3>1
    <3>5. lo[children2[j]] = keys[middle + j - 1]
      BY <1>2, <3>1, SMTT(30)
    <3>6. hi[children2[j]] = IF middle + j = n + 1 THEN high ELSE keys[middle + j]
      BY <1>2, <3>1
    <3> QED
      BY <3>1, <3>2, <3>3, <3>4, <3>5, <3>6
  <2> QED
    BY <2>1, <2>2, <2>3 DEF Shares
<1>10. ASSUME NEW j \in 1 .. n + 1
       PROVE  \/ \E k \in 1 .. Len(children1) : children1[k] = children[j]
              \/ \E k \in 1 .. Len(children2) : children2[k] = children[j]
  <2>1. CASE j <= middle
    <3>1. j \in 1 .. Len(children1) /\ children1[j] = children[j]
      BY <1>1, <1>5, <2>1
    <3> QED
      BY <3>1
  <2>2. CASE ~(j <= middle)
    <3>1. j - middle \in 1 .. n + 1 - middle /\ middle + (j - middle) = j
      BY <1>1, <2>2
    <3>2. children2[j - middle] = children[middle + (j - middle)]
      BY <1>7, <3>1
    <3> QED
      BY <1>7, <3>1, <3>2
  <2> QED
    BY <2>1, <2>2
<1> QED
  BY <1>1, <1>4, <1>5, <1>6, <1>7, <1>8, <1>9, <1>10
     DEF Halves, n, keys1, keys2, children1, children2

-----------------------------------------------------------------------------
(* Descents *)

\* What holds of a node when it holds of all nodes of less rank holds of all nodes.
LEMMA ByLevels ==
    ASSUME NEW D, NEW rank \in [D -> Nat], NEW top \in Nat, \A x \in D : rank[x] <= top,
           NEW S, \A x \in D : (\A y \in D : rank[y] < rank[x] => y \in S) => x \in S
    PROVE  \A x \in D : x \in S
<1> DEFINE T == {k \in 0 .. top : \A x \in D : rank[x] <= k => x \in S}
<1>1. 0 \in T
  <2>1. \A x, y \in D : rank[x] <= 0 => ~(rank[y] < rank[x])
    OBVIOUS
  <2>2. \A x \in D : rank[x] <= 0 => x \in S
    BY <2>1
  <2> QED
    BY <2>2
<1>2. ASSUME NEW k \in 1 .. top, k - 1 \in T
      PROVE  k \in T
  <2>1. \A y \in D : rank[y] <= k - 1 => y \in S
    BY <1>2
  <2>2. \A x, y \in D : rank[x] <= k /\ rank[y] < rank[x] => rank[y] <= k - 1
    OBVIOUS
  <2>3. \A x \in D : rank[x] <= k => x \in S
    BY <2>1, <2>2
  <2>4. k \in 0 .. top
    OBVIOUS
  <2> QED
    BY <2>3, <2>4
<1> HIDE DEF T
<1>3. \A k \in 1 .. top : k - 1 \in T => k \in T
  BY <1>2
<1>4. top \in T
  BY <1>1, <1>3, LevelByLevel
<1> QED
  BY <1>4 DEF T

\* The parts of a tree.
LEMMA BoundedFacts ==
    ASSUME NEW m, NEW lo, NEW hi, NEW level, Bounded(m, lo, hi, level)
    PROVE  /\ m \in Seq(NodeSet) /\ Len(m) \in Nat /\ DOMAIN m = 1 .. Len(m)
           /\ lo \in [DOMAIN m -> Bounds] /\ hi \in [DOMAIN m -> Bounds]
           /\ level \in [DOMAIN m -> Nat]
           /\ \A x \in DOMAIN m : /\ m[x] \in NodeSet /\ level[x] \in Nat
                                  /\ lo[x] \in Nat /\ hi[x] \in Nat /\ lo[x] < hi[x]
<1>1. m \in Seq(NodeSet) /\ Len(m) \in Nat /\ DOMAIN m = 1 .. Len(m)
  BY DEF Bounded
<1>2. /\ lo \in [DOMAIN m -> Bounds] /\ hi \in [DOMAIN m -> Bounds]
      /\ level \in [DOMAIN m -> Nat] /\ \A x \in DOMAIN m : lo[x] < hi[x]
  BY DEF Bounded
<1>3. \A x \in Bounds : x \in Nat
  BY TreeAssumption DEF Bounds
<1>4. \A x \in DOMAIN m : m[x] \in NodeSet
  BY <1>1
<1>5. \A x \in DOMAIN m : lo[x] \in Bounds /\ hi[x] \in Bounds /\ level[x] \in Nat
  BY <1>2
<1> QED
  BY <1>1, <1>2, <1>3, <1>4, <1>5

\* A search goes down one level, to the child whose share the key is in.
LEMMA ChildFacts ==
    ASSUME NEW m, NEW lo, NEW hi, NEW level, Bounded(m, lo, hi, level),
           NEW x \in DOMAIN m, Valid(m, lo, hi, level, x), ~IsLeaf(m[x]), NEW key \in Keys
    PROVE  LET i == ChildIndex(m[x].keys, key)
               c == m[x].children[i]
           IN  /\ i \in 1 .. Len(m[x].children)
               /\ c \in DOMAIN m /\ level[c] + 1 = level[x] /\ level[c] < level[x]
               /\ lo[x] <= key => lo[c] <= key
               /\ key < hi[x] => key < hi[c]
<1> DEFINE i == ChildIndex(m[x].keys, key)
           c == m[x].children[i]
<1>1. Shares(DOMAIN m, lo, hi, level, m[x].keys, m[x].children, lo[x], hi[x], level[x])
  BY DEF Valid, ValidInner
<1>2. m[x].keys \in Seq(Keys) /\ m[x].children \in Seq(Nat)
  BY BoundedFacts, NodeFacts
<1>3. /\ i \in 1 .. Len(m[x].children)
      /\ lo[x] <= key => lo[c] <= key
      /\ key < hi[x] => key < hi[c]
  BY <1>1, <1>2, SharesChild
<1> HIDE DEF i
<1>4. c \in DOMAIN m /\ level[c] + 1 = level[x]
  BY <1>1, <1>3 DEF Shares
<1>5. level[c] < level[x]
  <2> HIDE DEF c
  <2>1. level[c] \in Nat
    BY <1>4, BoundedFacts
  <2> QED
    BY <1>4, <2>1
<1> QED
  BY <1>3, <1>4, <1>5 DEF i

\* The leaves are the nodes of level 0.
LEMMA LeafLevel ==
    ASSUME NEW m, NEW lo, NEW hi, NEW level, Bounded(m, lo, hi, level),
           NEW x \in DOMAIN m, Valid(m, lo, hi, level, x)
    PROVE  IsLeaf(m[x]) <=> level[x] = 0
<1>1. ASSUME IsLeaf(m[x])
      PROVE  level[x] = 0
  BY <1>1 DEF Valid, ValidLeaf
<1>2. ASSUME ~IsLeaf(m[x])
      PROVE  level[x] # 0
  <2>1. Shares(DOMAIN m, lo, hi, level, m[x].keys, m[x].children, lo[x], hi[x], level[x])
    BY <1>2 DEF Valid, ValidInner
  <2>2. m[x].keys \in Seq(Keys) /\ m[x].children \in Seq(Nat)
    BY <1>2, BoundedFacts, NodeFacts
  <2>3. 1 \in 1 .. Len(m[x].children)
    BY <2>1, <2>2 DEF Shares
  <2> DEFINE c == m[x].children[1]
  <2>4. c \in DOMAIN m /\ level[c] + 1 = level[x]
    BY <2>1, <2>3 DEF Shares
  <2> HIDE DEF c
  <2>5. level[c] \in Nat
    BY <2>4, BoundedFacts
  <2> QED
    BY <2>4, <2>5
<1> QED
  BY <1>1, <1>2

\* find_leaf comes to the leaf in whose share the key is.
LEMMA FindLeafFacts ==
    ASSUME NEW lo, NEW hi, NEW level, Tree(nodes, root, lo, hi, level), NEW key \in Keys
    PROVE  /\ FindLeaf(key) \in DOMAIN nodes /\ IsLeaf(nodes[FindLeaf(key)])
           /\ lo[FindLeaf(key)] <= key /\ key < hi[FindLeaf(key)]
<1> DEFINE D == DOMAIN nodes
           Child(x) == nodes[x].children[ChildIndex(nodes[x].keys, key)]
<1>1. Bounded(nodes, lo, hi, level) /\ \A x \in D : Valid(nodes, lo, hi, level, x)
  BY DEF Tree
<1>2. root \in D /\ lo[root] = 0 /\ hi[root] = MaxKey + 1 /\ \A x \in D : level[x] <= level[root]
  BY DEF Tree, Rooted
<1>3. \A x \in D : ~IsLeaf(nodes[x]) =>
        /\ Child(x) \in D /\ level[Child(x)] < level[x]
        /\ lo[x] <= key => lo[Child(x)] <= key
        /\ key < hi[x] => key < hi[Child(x)]
  BY <1>1, ChildFacts
<1>4. level \in [D -> Nat] /\ level[root] \in Nat
  BY <1>1, <1>2, BoundedFacts
<1> HIDE DEF D, Child
<1> DEFINE F == [p \in D \X [D -> D] |->
                   IF IsLeaf(nodes[p[1]]) THEN p[1] ELSE p[2][Child(p[1])]]
<1>5. F \in [D \X [D -> D] -> D]
  <2>1. ASSUME NEW p \in D \X [D -> D]
        PROVE  (IF IsLeaf(nodes[p[1]]) THEN p[1] ELSE p[2][Child(p[1])]) \in D
    <3>1. p[1] \in D /\ p[2] \in [D -> D]
      BY <2>1
    <3> QED
      BY <1>3, <3>1
  <2> QED
    BY <2>1
<1>6. \A x \in D, f \in [D -> D] :
        F[<<x, f>>] = IF IsLeaf(nodes[x]) THEN x ELSE f[Child(x)]
  OBVIOUS
<1> HIDE DEF F
<1>7. ASSUME NEW x \in D, NEW f \in [D -> D], NEW g \in [D -> D],
             \A y \in D : level[y] < level[x] => f[y] = g[y]
      PROVE  F[<<x, f>>] = F[<<x, g>>]
  BY <1>3, <1>6, <1>7
<1>8. \E f \in [D -> D] : f = [x \in D |-> F[<<x, f>>]]
  <2>1. D # {} /\ \A x \in D : level[x] <= level[root]
    BY <1>2 DEF D
  <2>2. \A x \in D : \A f, g \in [D -> D] :
          (\A y \in D : level[y] < level[x] => f[y] = g[y]) => F[<<x, f>>] = F[<<x, g>>]
    BY <1>7
  <2>3. Descent(D, D, level, level[root], F)
    BY <1>4, <1>5, <2>1, <2>2 DEF Descent
  <2> QED
    BY <2>3, Recursion
<1> DEFINE Descends(f) == f = [x \in D |-> IF IsLeaf(nodes[x]) THEN x ELSE f[Child(x)]]
           below == CHOOSE f : Descends(f)
<1>9. \E f : Descends(f)
  <2>1. PICK f \in [D -> D] : f = [x \in D |-> F[<<x, f>>]]
    BY <1>8
  <2>2. [x \in D |-> F[<<x, f>>]] = [x \in D |-> IF IsLeaf(nodes[x]) THEN x ELSE f[Child(x)]]
    BY <1>6
  <2>3. Descends(f)
    BY <2>1, <2>2
  <2> QED
    BY <2>3
<1>10. Descends(below)
  <2> HIDE DEF Descends
  <2> QED
    BY <1>9
<1>11. FindLeaf(key) = below[root]
  BY DEF FindLeaf, Child, D
<1> HIDE DEF below
<1>12. \A x \in D : below[x] = IF IsLeaf(nodes[x]) THEN x ELSE below[Child(x)]
  BY <1>10
<1> HIDE DEF Descends
<1> DEFINE Found == {x \in D : lo[x] <= key /\ key < hi[x] =>
                                 /\ below[x] \in D /\ IsLeaf(nodes[below[x]])
                                 /\ lo[below[x]] <= key /\ key < hi[below[x]]}
<1>13. ASSUME NEW x \in D, \A y \in D : level[y] < level[x] => y \in Found
       PROVE  x \in Found
  <2>1. CASE IsLeaf(nodes[x])
    BY <1>12, <2>1
  <2>2. CASE ~IsLeaf(nodes[x])
    <3>1. Child(x) \in D /\ Child(x) \in Found /\ below[x] = below[Child(x)]
      BY <1>3, <1>12, <1>13, <2>2
    <3> QED
      BY <1>3, <2>2, <3>1
  <2> QED
    BY <2>1, <2>2
<1>14. root \in Found
  <2>1. \A x \in D : level[x] <= level[root]
    BY <1>2 DEF D
  <2>2. \A x \in D : x \in Found
    <3> HIDE DEF Found
    <3> QED
      BY <1>4, <1>13, <2>1, ByLevels
  <2> QED
    BY <1>2, <2>2 DEF D
<1>15. lo[root] <= key /\ key < hi[root]
  BY <1>2, TreeAssumption DEF Keys
<1>16. /\ below[root] \in D /\ IsLeaf(nodes[below[root]])
       /\ lo[below[root]] <= key /\ key < hi[below[root]]
  BY <1>14, <1>15
<1> QED
  BY <1>11, <1>16 DEF D

\* A key is in no leaf but the one find_leaf leads to.
LEMMA OneLeaf ==
    ASSUME NEW lo, NEW hi, NEW level, Tree(nodes, root, lo, hi, level), NEW key \in Keys,
           NEW x \in DOMAIN nodes, IsLeaf(nodes[x]), key \in DOMAIN nodes[x].ids
    PROVE  x = FindLeaf(key)
<1> DEFINE n == FindLeaf(key)
<1>1. n \in DOMAIN nodes /\ IsLeaf(nodes[n]) /\ lo[n] <= key /\ key < hi[n]
  BY FindLeafFacts
<1> HIDE DEF n
<1>2. Bounded(nodes, lo, hi, level) /\ \A y \in DOMAIN nodes : Valid(nodes, lo, hi, level, y)
  BY DEF Tree
<1>3. lo[x] <= key /\ key < hi[x] /\ level[x] = 0 /\ level[n] = 0
  BY <1>1, <1>2 DEF Valid, ValidLeaf
<1>4. x # n => hi[x] <= lo[n] \/ hi[n] <= lo[x]
  BY <1>1, <1>2, <1>3 DEF Bounded
<1>5. lo[x] \in Nat /\ hi[x] \in Nat /\ lo[n] \in Nat /\ hi[n] \in Nat /\ key \in Nat
  BY <1>1, <1>2, BoundedFacts, TreeAssumption DEF Keys
<1>6. x = n
  BY <1>1, <1>3, <1>4, <1>5
<1> QED
  BY <1>6 DEF n

\* So get sees all ids of the key.
LEMMA GetFacts ==
    ASSUME NEW lo, NEW hi, NEW level, Tree(nodes, root, lo, hi, level), NEW key \in Keys
    PROVE  Get(key) = {id \in Ids : Has(nodes, key, id)}
<1> DEFINE n == FindLeaf(key)
<1>1. n \in DOMAIN nodes /\ IsLeaf(nodes[n]) /\ lo[n] <= key /\ key < hi[n]
  BY FindLeafFacts
<1>2. Bounded(nodes, lo, hi, level) /\ \A x \in DOMAIN nodes : Valid(nodes, lo, hi, level, x)
  BY DEF Tree
<1>3. ASSUME NEW x \in DOMAIN nodes, IsLeaf(nodes[x]), key \in DOMAIN nodes[x].ids
      PROVE  x = n
  BY <1>3, OneLeaf
<1> HIDE DEF n
<1>4. \A id : Has(nodes, key, id) <=> key \in DOMAIN nodes[n].ids /\ id \in nodes[n].ids[key]
  BY <1>1, <1>3 DEF Has, Holds
<1>5. key \in DOMAIN nodes[n].ids => nodes[n].ids[key] \in SUBSET Ids
  <2>1. nodes[n].ids \in [DOMAIN nodes[n].ids -> SUBSET Ids]
    BY <1>1, <1>2, BoundedFacts, NodeFacts
  <2> QED
    BY <2>1
<1>6. IdsUnder(nodes[n], key) = {id \in Ids : Has(nodes, key, id)}
  BY <1>4, <1>5 DEF IdsUnder
<1> QED
  BY <1>6 DEF Get, n

-----------------------------------------------------------------------------
(* Insertion *)

\* The nodes after one was split in two.
LEMMA SplitNodes ==
    ASSUME NEW m \in Seq(NodeSet), NEW n \in DOMAIN m, NEW a \in NodeSet, NEW b \in NodeSet
    PROVE  LET m2 == Append([m EXCEPT ![n] = a], b)
               K == Len(m) + 1
           IN  /\ m2 \in Seq(NodeSet) /\ Len(m2) = K /\ DOMAIN m2 = 1 .. K
               /\ K \in DOMAIN m2 /\ K \notin DOMAIN m /\ DOMAIN m2 = DOMAIN m \cup {K}
               /\ m2[n] = a /\ m2[K] = b
               /\ \A x \in DOMAIN m : x # n => m2[x] = m[x]
<1> DEFINE m1 == [m EXCEPT ![n] = a]
           K == Len(m) + 1
<1>1. Len(m) \in Nat /\ DOMAIN m = 1 .. Len(m)
  OBVIOUS
<1>2. /\ m1 \in Seq(NodeSet) /\ Len(m1) = Len(m)
      /\ m1[n] = a /\ \A x \in 1 .. Len(m) : x # n => m1[x] = m[x]
  BY <1>1
<1> HIDE DEF m1
<1>3. /\ Append(m1, b) \in Seq(NodeSet) /\ Len(Append(m1, b)) = K
      /\ Append(m1, b)[K] = b
      /\ \A x \in 1 .. Len(m) : Append(m1, b)[x] = m1[x]
  BY <1>1, <1>2
<1>4. DOMAIN Append(m1, b) = 1 .. K
  BY <1>3
<1>5. K \in 1 .. K /\ K \notin 1 .. Len(m) /\ 1 .. K = 1 .. Len(m) \cup {K}
  BY <1>1
<1> QED
  BY <1>1, <1>2, <1>3, <1>4, <1>5 DEF m1

\* The node n is split at a key between its bounds, which adds a node.
IsSplit(m, lo, hi, level, n, separator, m2) ==
    /\ Bounded(m, lo, hi, level)
    /\ n \in DOMAIN m /\ separator \in Keys /\ lo[n] < separator /\ separator < hi[n]
    /\ m2 \in Seq(NodeSet) /\ DOMAIN m2 = DOMAIN m \cup {Len(m) + 1}

\* Both halves of a node that is split take over its level and share out its keys.
LEMMA SplitBounded ==
    ASSUME NEW m, NEW lo, NEW hi, NEW level, NEW n, NEW separator, NEW m2,
           IsSplit(m, lo, hi, level, n, separator, m2)
    PROVE  \E lo2, hi2, level2 :
             /\ Bounded(m2, lo2, hi2, level2)
             /\ \A x \in DOMAIN m : /\ lo2[x] = lo[x] /\ level2[x] = level[x]
                                    /\ x # n => hi2[x] = hi[x]
             /\ hi2[n] = separator
             /\ lo2[Len(m) + 1] = separator /\ hi2[Len(m) + 1] = hi[n]
             /\ level2[Len(m) + 1] = level[n]
<1> DEFINE D == DOMAIN m
           K == Len(m) + 1
           lo2 == [x \in D \cup {K} |-> IF x = K THEN separator ELSE lo[x]]
           hi2 == [x \in D \cup {K} |-> IF x = K THEN hi[n] ELSE IF x = n THEN separator ELSE hi[x]]
           level2 == [x \in D \cup {K} |-> IF x = K THEN level[n] ELSE level[x]]
<1>0. /\ Bounded(m, lo, hi, level)
      /\ n \in D /\ separator \in Keys /\ lo[n] < separator /\ separator < hi[n]
      /\ m2 \in Seq(NodeSet) /\ DOMAIN m2 = D \cup {K}
  BY DEF IsSplit
<1>1. K \notin D
  BY <1>0, BoundedFacts
<1>2. /\ lo \in [D -> Bounds] /\ hi \in [D -> Bounds] /\ level \in [D -> Nat]
      /\ \A x \in D : lo[x] \in Nat /\ hi[x] \in Nat /\ lo[x] < hi[x]
  BY <1>0, BoundedFacts
<1>3. \A x, y \in D : x # y /\ level[x] = level[y] => hi[x] <= lo[y] \/ hi[y] <= lo[x]
  BY <1>0 DEF Bounded
<1>4. separator \in Bounds /\ separator \in Nat
  BY <1>0, TreeAssumption DEF Keys, Bounds
<1> HIDE DEF D, K
<1>5. n \in D /\ lo[n] < separator /\ separator < hi[n]
  BY <1>0
<1>6. /\ lo2 \in [D \cup {K} -> Bounds] /\ hi2 \in [D \cup {K} -> Bounds]
      /\ level2 \in [D \cup {K} -> Nat]
  BY <1>2, <1>4, <1>5
<1>7. /\ \A x \in D : /\ lo2[x] = lo[x] /\ level2[x] = level[x]
                      /\ hi2[x] = IF x = n THEN separator ELSE hi[x]
      /\ lo2[K] = separator /\ hi2[K] = hi[n] /\ level2[K] = level[n]
  BY <1>1
<1> HIDE DEF lo2, hi2, level2
<1>8. \A x \in D \cup {K} : lo2[x] < hi2[x]
  BY <1>2, <1>5, <1>7
<1>9. ASSUME NEW x \in D, NEW y \in D, x # y, level2[x] = level2[y]
      PROVE  hi2[x] <= lo2[y] \/ hi2[y] <= lo2[x]
  <2>1. hi[x] <= lo[y] \/ hi[y] <= lo[x]
    BY <1>3, <1>7, <1>9
  <2>2. hi2[x] <= hi[x] /\ hi2[y] <= hi[y]
    <3>1. ASSUME NEW z \in D
          PROVE  hi2[z] <= hi[z]
      <4>1. CASE z = n
        <5>1. hi2[z] = separator /\ separator < hi[z] /\ hi[z] \in Nat
          BY <1>2, <1>5, <1>7, <4>1
        <5> QED
          BY <1>4, <5>1
      <4>2. CASE z # n
        BY <1>2, <1>7, <4>2
      <4> QED
        BY <4>1, <4>2
    <3> QED
      BY <3>1
  <2>3. hi2[x] \in Nat /\ hi2[y] \in Nat
    BY <1>2, <1>4, <1>7
  <2> QED
    BY <1>2, <1>7, <2>1, <2>2, <2>3
<1>10. ASSUME NEW x \in D, level2[x] = level2[K]
       PROVE  hi2[x] <= lo2[K] \/ hi2[K] <= lo2[x]
  <2>1. CASE x = n
    BY <1>4, <1>5, <1>7, <2>1
  <2>2. CASE x # n
    <3>1. hi[x] <= lo[n] \/ hi[n] <= lo[x]
      BY <1>3, <1>5, <1>7, <1>10, <2>2
    <3> QED
      BY <1>2, <1>4, <1>5, <1>7, <2>2, <3>1
  <2> QED
    BY <2>1, <2>2
<1>11. \A x, y \in D \cup {K} :
          x # y /\ level2[x] = level2[y] => hi2[x] <= lo2[y] \/ hi2[y] <= lo2[x]
  BY <1>9, <1>10
<1>12. m2 \in Seq(NodeSet) /\ DOMAIN m2 = D \cup {K}
  BY <1>0
<1>13. Bounded(m2, lo2, hi2, level2)
  BY <1>6, <1>8, <1>11, <1>12 DEF Bounded
<1>14. /\ Bounded(m2, lo2, hi2, level2)
       /\ \A x \in D : /\ lo2[x] = lo[x] /\ level2[x] = level[x]
                       /\ x # n => hi2[x] = hi[x]
       /\ hi2[n] = separator /\ lo2[K] = separator /\ hi2[K] = hi[n] /\ level2[K] = level[n]
  BY <1>5, <1>7, <1>13
<1> HIDE DEF Bounded
<1> QED
  BY <1>14 DEF D, K

\* A node that is not changed, and whose children and bounds are not, is valid
\* as it was.
LEMMA ValidKept ==
    ASSUME NEW m, NEW lo, NEW hi, NEW level, Bounded(m, lo, hi, level),
           NEW x \in DOMAIN m, Valid(m, lo, hi, level, x),
           NEW m2, NEW lo2, NEW hi2, NEW level2, DOMAIN m \subseteq DOMAIN m2, m2[x] = m[x],
           \A y \in DOMAIN m : lo2[y] = lo[y] /\ level2[y] = level[y],
           hi2[x] = hi[x],
           ~IsLeaf(m[x]) => \A i \in 1 .. Len(m[x].children) :
                              hi2[m[x].children[i]] = hi[m[x].children[i]]
    PROVE  Valid(m2, lo2, hi2, level2, x)
<1>1. CASE IsLeaf(m[x])
  <2>1. ValidLeaf(m, lo, hi, level, x)
    BY <1>1 DEF Valid
  <2>2. ValidLeaf(m2, lo2, hi2, level2, x)
    BY <2>1 DEF ValidLeaf
  <2> QED
    BY <1>1, <2>2 DEF Valid
<1>2. CASE ~IsLeaf(m[x])
  <2>1. /\ Len(m[x].keys) \in 1 .. MaxKeys
        /\ Shares(DOMAIN m, lo, hi, level, m[x].keys, m[x].children, lo[x], hi[x], level[x])
    BY <1>2 DEF Valid, ValidInner
  <2>2. m[x].keys \in Seq(Keys) /\ m[x].children \in Seq(Nat)
    BY <1>2, BoundedFacts, NodeFacts
  <2>3. \A i \in 1 .. Len(m[x].children) : m[x].children[i] \in DOMAIN m
    BY <2>1 DEF Shares
  <2>4. Shares(DOMAIN m2, lo2, hi2, level2, m[x].keys, m[x].children, lo[x], hi[x], level[x])
    BY <1>2, <2>1, <2>2, <2>3, SharesKept
  <2>5. ValidInner(m2, lo2, hi2, level2, x)
    BY <2>1, <2>4 DEF ValidInner
  <2> QED
    BY <1>2, <2>5 DEF Valid
<1> QED
  BY <1>1, <1>2

\* The pairs of the nodes after one was replaced and another was added.
LEMMA HasSplit ==
    ASSUME NEW m, NEW n \in DOMAIN m, NEW m2, NEW K \in DOMAIN m2, K \notin DOMAIN m,
           DOMAIN m2 = DOMAIN m \cup {K}, \A x \in DOMAIN m : x # n => m2[x] = m[x],
           NEW key, NEW id
    PROVE  Has(m2, key, id) <=> \/ Holds(m2[n], key, id) \/ Holds(m2[K], key, id)
                                \/ \E x \in DOMAIN m : x # n /\ Holds(m[x], key, id)
<1>1. ASSUME NEW x \in DOMAIN m2
      PROVE  x = n \/ x = K \/ (x \in DOMAIN m /\ x # n /\ m2[x] = m[x])
  OBVIOUS
<1> QED
  BY <1>1 DEF Has

\* The pairs of the nodes after one was replaced.
LEMMA HasReplaced ==
    ASSUME NEW m, NEW n \in DOMAIN m, NEW m2, DOMAIN m2 = DOMAIN m,
           \A x \in DOMAIN m : x # n => m2[x] = m[x], NEW key, NEW id
    PROVE  Has(m2, key, id) <=> \/ Holds(m2[n], key, id)
                                \/ \E x \in DOMAIN m : x # n /\ Holds(m[x], key, id)
  BY DEF Has

\* The ids of a leaf with one pair more.
WithId(n, key, id) ==
    [k \in DOMAIN nodes[n].ids \cup {key} |->
       IdsUnder(nodes[n], k) \cup IF k = key THEN {id} ELSE {}]

\* A leaf with one pair more has at most one key more.
LEMMA WithIdFacts ==
    ASSUME NEW n \in DOMAIN nodes, nodes[n] \in NodeSet, IsLeaf(nodes[n]),
           NEW key \in Keys, NEW id \in Ids
    PROVE  LET ids == WithId(n, key, id)
               old == nodes[n].ids
           IN  /\ DOMAIN ids = DOMAIN old \cup {key} /\ DOMAIN ids \in SUBSET Keys
               /\ ids \in [DOMAIN ids -> SUBSET Ids]
               /\ id \in ids[key] /\ \A k \in DOMAIN old : k # key => ids[k] = old[k]
               /\ \A k, i : k \in DOMAIN ids /\ i \in ids[k] <=>
                               \/ k \in DOMAIN old /\ i \in old[k]
                               \/ k = key /\ i = id
               /\ Cardinality(DOMAIN ids) <= Cardinality(DOMAIN old) + 1
<1> DEFINE ids == WithId(n, key, id)
           old == nodes[n].ids
<1>1. DOMAIN old \in SUBSET Keys /\ old \in [DOMAIN old -> SUBSET Ids]
  BY NodeFacts
<1> HIDE DEF old
<1>2. /\ DOMAIN ids = DOMAIN old \cup {key}
      /\ \A k \in DOMAIN old \cup {key} :
           ids[k] = (IF k \in DOMAIN old THEN old[k] ELSE {}) \cup IF k = key THEN {id} ELSE {}
  BY DEF WithId, IdsUnder, old
<1>3. ids = [k \in DOMAIN old \cup {key} |->
               (IF k \in DOMAIN old THEN old[k] ELSE {}) \cup IF k = key THEN {id} ELSE {}]
  BY DEF WithId, IdsUnder, old
<1>4. ASSUME NEW k \in DOMAIN old \cup {key}
      PROVE  ((IF k \in DOMAIN old THEN old[k] ELSE {}) \cup IF k = key THEN {id} ELSE {})
                \in SUBSET Ids
  <2>1. (IF k \in DOMAIN old THEN old[k] ELSE {}) \in SUBSET Ids
    BY <1>1
  <2>2. (IF k = key THEN {id} ELSE {}) \in SUBSET Ids
    OBVIOUS
  <2> QED
    BY <2>1, <2>2
<1> HIDE DEF ids
<1>5. ids \in [DOMAIN old \cup {key} -> SUBSET Ids]
  BY <1>3, <1>4
<1>6. id \in ids[key] /\ \A k \in DOMAIN old : k # key => ids[k] = old[k]
  BY <1>2
<1>7. \A k, i : k \in DOMAIN ids /\ i \in ids[k] <=>
                   \/ k \in DOMAIN old /\ i \in old[k]
                   \/ k = key /\ i = id
  BY <1>2
<1>8. Cardinality(DOMAIN ids) <= Cardinality(DOMAIN old) + 1
  <2> DEFINE A == DOMAIN old
  <2>1. IsFiniteSet(A) /\ Cardinality(A) \in Nat /\ DOMAIN ids = A \cup {key}
    BY <1>1, <1>2, KeySets
  <2> HIDE DEF A
  <2>2. Cardinality(A \cup {key}) = IF key \in A THEN Cardinality(A) ELSE Cardinality(A) + 1
    BY <2>1, FS_AddElement
  <2>3. Cardinality(DOMAIN ids) <= Cardinality(A) + 1
    BY <2>1, <2>2
  <2> QED
    BY <2>3 DEF A
<1> QED
  BY <1>1, <1>2, <1>5, <1>6, <1>7, <1>8 DEF ids, old

\* The halves of a leaf with one key too many are not empty, and fit.
LEMMA HalvesFacts ==
    ASSUME NEW K \in SUBSET Keys, Cardinality(K) = MaxKeys + 1
    PROVE  LET separator == Ranked(K, Cardinality(K) \div 2)
               left == {k \in K : k < separator}
           IN  /\ separator \in K /\ left # {}
               /\ Cardinality(left) <= MaxKeys /\ Cardinality(K \ left) <= MaxKeys
<1> DEFINE c == Cardinality(K)
           half == c \div 2
           separator == Ranked(K, half)
           left == {k \in K : k < separator}
<1>1. IsFiniteSet(K) /\ c \in Nat /\ c >= 4 /\ c = MaxKeys + 1
  BY KeySets, TreeAssumption
<1>2. half \in Nat /\ half < c /\ half >= 1 /\ c - half <= MaxKeys /\ half <= MaxKeys
  <2> HIDE DEF c
  <2> QED
    BY <1>1, TreeAssumption
<1> HIDE DEF half
<1>3. separator \in K /\ Cardinality(left) = half
  BY <1>2, RankedFacts
<1> HIDE DEF separator
<1>4. left \in SUBSET K /\ K \cap left = left
  OBVIOUS
<1> HIDE DEF left
<1>5. IsFiniteSet(left)
  BY <1>1, <1>4, FS_Subset
<1>6. left # {}
  BY <1>2, <1>3, <1>5, FS_EmptySet
<1>7. Cardinality(K \ left) = c - half
  <2>1. Cardinality(K \ left) = Cardinality(K) - Cardinality(K \cap left)
    BY <1>1, FS_Difference
  <2> QED
    BY <1>3, <1>4, <2>1
<1> QED
  BY <1>2, <1>3, <1>6, <1>7 DEF half, separator, left

\* What an insertion into the subtree of n returns: the nodes of the levels above
\* are the same, a node that was added at the level of n is the last one and has
\* the upper part of its keys, and all below is valid.
Grows(n, r, key, id, lo, hi, level, lo2, hi2, level2) ==
    /\ r.split \in BOOLEAN
    /\ Bounded(r.nodes, lo2, hi2, level2) /\ DOMAIN nodes \subseteq DOMAIN r.nodes
    /\ \A x \in DOMAIN nodes :
         /\ lo2[x] = lo[x] /\ level2[x] = level[x]
         /\ level[x] = level[n] /\ x # n => hi2[x] = hi[x]
         /\ level[x] > level[n] => hi2[x] = hi[x] /\ r.nodes[x] = nodes[x]
    /\ \A x \in DOMAIN r.nodes \ DOMAIN nodes :
         \/ level2[x] < level[n]
         \/ level2[x] = level[n] /\ r.split = TRUE /\ x = Len(r.nodes)
    /\ r.split = FALSE => hi2[n] = hi[n]
    /\ r.split = TRUE =>
         /\ Len(r.nodes) \in DOMAIN r.nodes \ DOMAIN nodes /\ r.separator \in Keys
         /\ hi2[n] = r.separator /\ lo2[Len(r.nodes)] = r.separator
         /\ hi2[Len(r.nodes)] = hi[n] /\ level2[Len(r.nodes)] = level[n]
    /\ \A x \in DOMAIN r.nodes : level2[x] <= level[n] => Valid(r.nodes, lo2, hi2, level2, x)
    /\ \A x \in DOMAIN r.nodes : level2[x] < level[n] => HasParent(r.nodes, x)
    /\ \A k \in Keys, i \in Ids : Has(r.nodes, k, i) <=> Has(nodes, k, i) \/ (k = key /\ i = id)

\* Insertion into a leaf, which may be split.
LEMMA InsertLeafGrows ==
    ASSUME NEW lo, NEW hi, NEW level, Tree(nodes, root, lo, hi, level),
           NEW n \in DOMAIN nodes, IsLeaf(nodes[n]),
           NEW key \in Keys, NEW id \in Ids, lo[n] <= key, key < hi[n]
    PROVE  \E lo2, hi2, level2 :
             Grows(n, InsertLeaf(n, key, id), key, id, lo, hi, level, lo2, hi2, level2)
<1> DEFINE D == DOMAIN nodes
           ids == WithId(n, key, id)
           K == DOMAIN ids
           next == nodes[n].next
           separator == Ranked(K, Cardinality(K) \div 2)
           left == {k \in K : k < separator}
           right == K \ left
           r == InsertLeaf(n, key, id)
<1>1. Bounded(nodes, lo, hi, level) /\ \A x \in D : Valid(nodes, lo, hi, level, x)
  BY DEF Tree
<1>2. /\ level \in [D -> Nat] /\ nodes \in Seq(NodeSet) /\ D = 1 .. Len(nodes)
      /\ \A x \in D : /\ nodes[x] \in NodeSet /\ level[x] \in Nat
                      /\ lo[x] \in Nat /\ hi[x] \in Nat
  BY <1>1, BoundedFacts
<1>3. /\ level[n] = 0
      /\ \A k \in DOMAIN nodes[n].ids : lo[n] <= k /\ k < hi[n] /\ nodes[n].ids[k] # {}
      /\ Cardinality(DOMAIN nodes[n].ids) <= MaxKeys
      /\ hi[n] = MaxKey + 1 => next = NoLeaf
      /\ hi[n] # MaxKey + 1 => next \in D /\ level[next] = 0 /\ lo[next] = hi[n]
  BY <1>1 DEF Valid, ValidLeaf
<1>4. next \in Nat /\ Cardinality(DOMAIN nodes[n].ids) \in Nat
  BY <1>2, NodeFacts, KeySets
<1>5. /\ K = DOMAIN nodes[n].ids \cup {key} /\ K \in SUBSET Keys /\ ids \in [K -> SUBSET Ids]
      /\ id \in ids[key] /\ \A k \in DOMAIN nodes[n].ids : k # key => ids[k] = nodes[n].ids[k]
      /\ \A k, i : k \in K /\ i \in ids[k] <=>
                      \/ k \in DOMAIN nodes[n].ids /\ i \in nodes[n].ids[k]
                      \/ k = key /\ i = id
      /\ Cardinality(K) <= Cardinality(DOMAIN nodes[n].ids) + 1
  BY <1>2, WithIdFacts
<1>6. \A x \in D : level[x] <= 0 => level[x] = 0 /\ IsLeaf(nodes[x])
  <2> SUFFICES ASSUME NEW x \in D, level[x] <= 0 PROVE level[x] = 0 /\ IsLeaf(nodes[x])
    OBVIOUS
  <2>1. level[x] = 0
    BY <1>2
  <2> QED
    BY <1>1, <2>1, LeafLevel
<1>7. r = IF Cardinality(K) <= MaxKeys
          THEN Whole([nodes EXCEPT ![n] = Leaf(ids, next)])
          ELSE Split(Append([nodes EXCEPT ![n] = Leaf(Restrict(ids, left), Len(nodes) + 1)],
                            Leaf(Restrict(ids, right), next)),
                     separator)
  BY DEF InsertLeaf, WithId
<1> HIDE DEF ids, r
<1>8. \A k \in K : lo[n] <= k /\ k < hi[n] /\ ids[k] # {}
  BY <1>3, <1>5
<1>9. CASE Cardinality(K) <= MaxKeys
  <2> DEFINE m2 == [nodes EXCEPT ![n] = Leaf(ids, next)]
  <2>1. r.nodes = m2 /\ r.split = FALSE
    BY <1>7, <1>9 DEF Whole
  <2>2. /\ Leaf(ids, next) \in NodeSet /\ IsLeaf(Leaf(ids, next))
        /\ Leaf(ids, next).ids = ids /\ Leaf(ids, next).next = next
    BY <1>4, <1>5, LeafFacts
  <2>3. /\ m2 \in Seq(NodeSet) /\ DOMAIN m2 = D /\ m2[n] = Leaf(ids, next)
        /\ \A x \in D : x # n => m2[x] = nodes[x]
    BY <1>2, <2>2
  <2> HIDE DEF m2
  <2>4. Bounded(m2, lo, hi, level)
    BY <1>1, <2>3 DEF Bounded
  <2>5. Valid(m2, lo, hi, level, n)
    BY <1>3, <1>8, <1>9, <2>2, <2>3 DEF Valid, ValidLeaf
  <2>6. ASSUME NEW x \in D, level[x] <= 0
        PROVE  Valid(m2, lo, hi, level, x)
    <3>1. CASE x = n
      BY <2>5, <3>1
    <3>2. CASE x # n
      BY <1>1, <1>6, <2>3, <2>6, <3>2, ValidKept
    <3> QED
      BY <3>1, <3>2
  <2>7. ASSUME NEW k \in Keys, NEW i \in Ids
        PROVE  Has(m2, k, i) <=> Has(nodes, k, i) \/ (k = key /\ i = id)
    <3>1. Holds(m2[n], k, i) <=> Holds(nodes[n], k, i) \/ (k = key /\ i = id)
      BY <1>5, <2>2, <2>3 DEF Holds
    <3>2. Has(m2, k, i) <=> \/ Holds(m2[n], k, i)
                            \/ \E x \in DOMAIN nodes : x # n /\ Holds(nodes[x], k, i)
      BY <2>3, HasReplaced
    <3> QED
      BY <3>1, <3>2 DEF Has
  <2>8. \A x \in D : ~(level[x] < 0)
    BY <1>2
  <2>9. Grows(n, r, key, id, lo, hi, level, lo, hi, level)
    BY <1>3, <2>1, <2>3, <2>4, <2>6, <2>7, <2>8 DEF Grows, D
  <2> QED
    BY <2>9 DEF r
<1>10. CASE ~(Cardinality(K) <= MaxKeys)
  <2> DEFINE lower == Leaf(Restrict(ids, left), Len(nodes) + 1)
             upper == Leaf(Restrict(ids, right), next)
             m2 == Append([nodes EXCEPT ![n] = lower], upper)
             N == Len(nodes) + 1
  <2>1. r.nodes = m2 /\ r.split = TRUE /\ r.separator = separator
    BY <1>7, <1>10 DEF Split
  <2>2. /\ separator \in K /\ left # {}
        /\ Cardinality(left) <= MaxKeys /\ Cardinality(right) <= MaxKeys
    <3>1. Cardinality(K) = MaxKeys + 1
      <4>1. Cardinality(K) \in Nat
        BY <1>5, KeySets
      <4> QED
        BY <1>3, <1>4, <1>5, <1>10, <4>1, TreeAssumption
    <3> QED
      BY <1>5, <3>1, HalvesFacts
  <2> HIDE DEF separator
  <2>3. left \in SUBSET K /\ right \in SUBSET K /\ left \cup right = K
    OBVIOUS
  <2>4. /\ \A k \in left : k < separator
        /\ \A k \in right : separator <= k
    <3>1. \A k \in K : k \in Nat
      BY <1>5, TreeAssumption DEF Keys
    <3> QED
      BY <2>2, <3>1
  <2> HIDE DEF left, right, K
  <2>5. /\ Restrict(ids, left) \in [left -> SUBSET Ids] /\ Restrict(ids, right) \in [right -> SUBSET Ids]
        /\ \A k \in left : Restrict(ids, left)[k] = ids[k]
        /\ \A k \in right : Restrict(ids, right)[k] = ids[k]
    BY <1>5, <2>3 DEF Restrict
  <2>6. /\ lower \in NodeSet /\ IsLeaf(lower) /\ lower.ids = Restrict(ids, left) /\ lower.next = N
        /\ upper \in NodeSet /\ IsLeaf(upper) /\ upper.ids = Restrict(ids, right) /\ upper.next = next
    <3>1. left \in SUBSET Keys /\ right \in SUBSET Keys /\ N \in Nat
      BY <1>2, <1>5, <2>3
    <3> DEFINE lows == Restrict(ids, left)
               highs == Restrict(ids, right)
    <3>2. lows \in [left -> SUBSET Ids] /\ highs \in [right -> SUBSET Ids] /\ next \in Nat
      BY <1>4, <2>5
    <3> HIDE DEF lows, highs, N, next
    <3>3. /\ Leaf(lows, N) \in NodeSet /\ IsLeaf(Leaf(lows, N))
          /\ Leaf(lows, N).ids = lows /\ Leaf(lows, N).next = N
      BY <3>1, <3>2, LeafFacts
    <3>4. /\ Leaf(highs, next) \in NodeSet /\ IsLeaf(Leaf(highs, next))
          /\ Leaf(highs, next).ids = highs /\ Leaf(highs, next).next = next
      BY <3>1, <3>2, LeafFacts
    <3> QED
      BY <3>3, <3>4 DEF lows, highs, N
  <2> HIDE DEF lower, upper
  <2>7. /\ m2 \in Seq(NodeSet) /\ Len(m2) = N
        /\ N \in DOMAIN m2 /\ N \notin D /\ DOMAIN m2 = D \cup {N}
        /\ m2[n] = lower /\ m2[N] = upper
        /\ \A x \in D : x # n => m2[x] = nodes[x]
    BY <1>2, <2>6, SplitNodes
  <2> HIDE DEF m2, N
  <2>8. separator \in Keys /\ separator \in Nat /\ lo[n] < separator /\ separator < hi[n]
    <3>1. separator \in Keys /\ separator \in Nat
      BY <1>5, <2>2, TreeAssumption DEF Keys
    <3>2. PICK k \in left : TRUE
      BY <2>2
    <3>3. k \in K /\ k \in Nat /\ k < separator
      BY <1>5, <2>3, <2>4, <3>2, TreeAssumption DEF Keys
    <3> QED
      BY <1>2, <1>8, <2>2, <3>1, <3>3
  <2>9. PICK lo2, hi2, level2 :
          /\ Bounded(m2, lo2, hi2, level2)
          /\ \A x \in D : lo2[x] = lo[x] /\ level2[x] = level[x] /\ (x # n => hi2[x] = hi[x])
          /\ hi2[n] = separator
          /\ lo2[N] = separator /\ hi2[N] = hi[n] /\ level2[N] = level[n]
    <3>1. DOMAIN m2 = DOMAIN nodes \cup {Len(nodes) + 1}
      BY <2>7 DEF N
    <3>2. PICK lo2, hi2, level2 :
             /\ Bounded(m2, lo2, hi2, level2)
             /\ \A x \in DOMAIN nodes : /\ lo2[x] = lo[x] /\ level2[x] = level[x]
                                        /\ x # n => hi2[x] = hi[x]
             /\ hi2[n] = separator
             /\ lo2[Len(nodes) + 1] = separator /\ hi2[Len(nodes) + 1] = hi[n]
             /\ level2[Len(nodes) + 1] = level[n]
      <4>1. IsSplit(nodes, lo, hi, level, n, separator, m2)
        BY <1>1, <2>7, <2>8, <3>1 DEF IsSplit
      <4> QED
        BY <4>1, SplitBounded
    <3> HIDE DEF Bounded
    <3> QED
      BY <3>2 DEF N
  <2>10. Valid(m2, lo2, hi2, level2, n)
    <3>1. \A k \in left : lo[n] <= k /\ k < separator /\ ids[k] # {}
      BY <1>8, <2>3, <2>4
    <3>2. separator # MaxKey + 1
      BY <2>8, TreeAssumption DEF Keys
    <3>3. DOMAIN lower.ids = left
      BY <2>5, <2>6
    <3> QED
      BY <1>3, <2>2, <2>5, <2>6, <2>7, <2>9, <3>1, <3>2, <3>3 DEF Valid, ValidLeaf
  <2>11. Valid(m2, lo2, hi2, level2, N)
    <3>1. \A k \in right : separator <= k /\ k < hi[n] /\ ids[k] # {}
      BY <1>8, <2>3, <2>4
    <3>2. DOMAIN upper.ids = right
      BY <2>5, <2>6
    <3>3. hi[n] # MaxKey + 1 => next \in DOMAIN m2 /\ level2[next] = 0 /\ lo2[next] = hi[n]
      BY <1>3, <2>7, <2>9
    <3> QED
      BY <1>3, <2>2, <2>5, <2>6, <2>7, <2>9, <3>1, <3>2, <3>3 DEF Valid, ValidLeaf
  <2>12. ASSUME NEW x \in DOMAIN m2, level2[x] <= 0
         PROVE  Valid(m2, lo2, hi2, level2, x)
    <3>1. CASE x = n \/ x = N
      BY <2>10, <2>11, <3>1
    <3>2. CASE x \in D /\ x # n
      <4>1. IsLeaf(nodes[x]) /\ Valid(nodes, lo, hi, level, x)
        BY <1>1, <1>6, <2>9, <2>12, <3>2
      <4>2. /\ DOMAIN nodes \subseteq DOMAIN m2 /\ m2[x] = nodes[x] /\ hi2[x] = hi[x]
            /\ \A y \in DOMAIN nodes : lo2[y] = lo[y] /\ level2[y] = level[y]
        BY <2>7, <2>9, <3>2
      <4> QED
        BY <1>1, <3>2, <4>1, <4>2, ValidKept
    <3> QED
      BY <2>7, <3>1, <3>2
  <2>13. ASSUME NEW k \in Keys, NEW i \in Ids
         PROVE  Has(m2, k, i) <=> Has(nodes, k, i) \/ (k = key /\ i = id)
    <3>1. Holds(m2[n], k, i) \/ Holds(m2[N], k, i) <=> k \in K /\ i \in ids[k]
      BY <2>3, <2>5, <2>6, <2>7 DEF Holds
    <3>2. k \in K /\ i \in ids[k] <=> Holds(nodes[n], k, i) \/ (k = key /\ i = id)
      BY <1>5 DEF Holds, K
    <3>3. /\ N \in DOMAIN m2 /\ N \notin DOMAIN nodes /\ DOMAIN m2 = DOMAIN nodes \cup {N}
          /\ \A x \in DOMAIN nodes : x # n => m2[x] = nodes[x]
      BY <2>7
    <3> HIDE DEF D
    <3>4. Has(m2, k, i) <=> \/ Holds(m2[n], k, i) \/ Holds(m2[N], k, i)
                            \/ \E x \in DOMAIN nodes : x # n /\ Holds(nodes[x], k, i)
      BY <3>3, HasSplit
    <3> QED
      BY <3>1, <3>2, <3>4 DEF Has
  <2>14. \A x \in DOMAIN m2 : ~(level2[x] < 0)
    BY <2>9, BoundedFacts
  <2>15. Grows(n, r, key, id, lo, hi, level, lo2, hi2, level2)
    <3>1. /\ r.split \in BOOLEAN /\ r.split = TRUE /\ r.separator = separator /\ r.nodes = m2
          /\ Len(m2) = N
      BY <2>1, <2>7
    <3>2. \A x \in D : /\ lo2[x] = lo[x] /\ level2[x] = level[x]
                       /\ level[x] = level[n] /\ x # n => hi2[x] = hi[x]
                       /\ level[x] > level[n] => hi2[x] = hi[x] /\ m2[x] = nodes[x]
      BY <1>2, <2>7, <2>9
    <3>3. \A x \in DOMAIN m2 \ D : level2[x] = level[n] /\ x = N
      BY <2>7, <2>9
    <3>4. N \in DOMAIN m2 \ D
      BY <2>7
    <3>5. /\ \A x \in DOMAIN m2 : level2[x] <= level[n] => Valid(m2, lo2, hi2, level2, x)
          /\ \A x \in DOMAIN m2 : level2[x] < level[n] => HasParent(m2, x)
      BY <1>3, <2>12, <2>14
    <3>6. D \subseteq DOMAIN m2
      BY <2>7
    <3> QED
      BY <2>8, <2>9, <2>13, <3>1, <3>2, <3>3, <3>4, <3>5, <3>6 DEF Grows
  <2> QED
    BY <2>15 DEF r
<1> QED
  BY <1>9, <1>10

\* The child of n in whose share a key is.
ChildOf(n, key) == nodes[n].children[ChildIndex(nodes[n].keys, key)]

\* The insertion went through the inner node n and comes back from its child.
Returned(n, below, key, id, lo, hi, level, lo1, hi1, level1) ==
    /\ Tree(nodes, root, lo, hi, level)
    /\ n \in DOMAIN nodes /\ ~IsLeaf(nodes[n])
    /\ key \in Keys /\ id \in Ids /\ lo[n] <= key /\ key < hi[n]
    /\ Grows(ChildOf(n, key), below, key, id, lo, hi, level, lo1, hi1, level1)

\* No two places of a tree have a child in common.
LEMMA OneParent ==
    ASSUME NEW m, NEW lo, NEW hi, NEW level, Bounded(m, lo, hi, level),
           NEW x \in DOMAIN m, Valid(m, lo, hi, level, x), ~IsLeaf(m[x]),
           NEW y \in DOMAIN m, Valid(m, lo, hi, level, y), ~IsLeaf(m[y]),
           NEW i \in 1 .. Len(m[x].children), NEW j \in 1 .. Len(m[y].children),
           m[x].children[i] = m[y].children[j]
    PROVE  x = y /\ i = j
<1> DEFINE c == m[x].children[i]
<1>1. /\ Shares(DOMAIN m, lo, hi, level, m[x].keys, m[x].children, lo[x], hi[x], level[x])
      /\ Shares(DOMAIN m, lo, hi, level, m[y].keys, m[y].children, lo[y], hi[y], level[y])
  BY DEF Valid, ValidInner
<1>2. /\ m[x].keys \in Seq(Keys) /\ m[x].children \in Seq(Nat)
      /\ m[y].keys \in Seq(Keys) /\ m[y].children \in Seq(Nat)
  BY BoundedFacts, NodeFacts
<1>3. /\ lo \in [DOMAIN m -> Bounds] /\ hi \in [DOMAIN m -> Bounds]
      /\ \A z \in DOMAIN m : /\ lo[z] \in Nat /\ hi[z] \in Nat /\ lo[z] < hi[z]
                             /\ lo[z] \in Bounds /\ hi[z] \in Bounds
  BY BoundedFacts, SMTT(30)
<1>4. c \in DOMAIN m /\ level[c] + 1 = level[x] /\ level[c] + 1 = level[y]
  BY <1>1 DEF Shares
<1>5. /\ lo[x] <= lo[c] /\ hi[c] <= hi[x]
      /\ \A k, l \in 1 .. Len(m[x].children) :
           k < l => hi[m[x].children[k]] <= lo[m[x].children[l]]
  BY <1>1, <1>2, <1>3, SharesFacts
<1>6. lo[y] <= lo[c] /\ hi[c] <= hi[y]
  BY <1>1, <1>2, <1>3, SharesFacts
<1>7. x = y
  <2> SUFFICES ASSUME x # y
               PROVE  FALSE
    OBVIOUS
  <2>1. hi[x] <= lo[y] \/ hi[y] <= lo[x]
    BY <1>4 DEF Bounded
  <2> HIDE DEF c
  <2> QED
    BY <1>3, <1>4, <1>5, <1>6, <2>1
<1>8. i = j
  <2> SUFFICES ASSUME i # j
               PROVE  FALSE
    OBVIOUS
  <2>1. m[x].children[j] = c /\ j \in 1 .. Len(m[x].children) /\ (i < j \/ j < i)
    BY <1>7
  <2>2. hi[c] <= lo[c]
    BY <1>5, <2>1
  <2> HIDE DEF c
  <2> QED
    BY <1>3, <1>4, <2>2
<1> QED
  BY <1>7, <1>8

\* A node on the way back is as it was, the nodes next to it and below it are
\* valid, and all nodes below it have a parent or are the one it has to take over.
Around(n, below, key, lo, hi, level, lo1, hi1, level1) ==
    /\ n \in DOMAIN below.nodes /\ below.nodes[n] = nodes[n]
    /\ lo1[n] = lo[n] /\ hi1[n] = hi[n] /\ level1[n] = level[n]
    /\ \A j \in 1 .. Len(nodes[n].children) :
         j # ChildIndex(nodes[n].keys, key) =>
           hi1[nodes[n].children[j]] = hi[nodes[n].children[j]]
    /\ \A x \in DOMAIN below.nodes \ DOMAIN nodes : level1[x] < level[n]
    /\ \A x \in DOMAIN below.nodes :
         level1[x] <= level[n] /\ x # n => Valid(below.nodes, lo1, hi1, level1, x)
    /\ below.split = FALSE => Valid(below.nodes, lo1, hi1, level1, n)
    /\ \A z \in DOMAIN below.nodes : level1[z] < level[n] =>
         \/ below.split = TRUE /\ z = Len(below.nodes)
         \/ \E k \in 1 .. Len(nodes[n].children) : nodes[n].children[k] = z
         \/ \E p \in DOMAIN below.nodes :
              /\ p # n /\ ~IsLeaf(below.nodes[p])
              /\ \E k \in 1 .. Len(below.nodes[p].children) : below.nodes[p].children[k] = z

\* An insertion leaves all around the nodes on its way as it was.
LEMMA ReturnedFacts ==
    ASSUME NEW n, NEW below, NEW key, NEW id, NEW lo, NEW hi, NEW level,
           NEW lo1, NEW hi1, NEW level1,
           Returned(n, below, key, id, lo, hi, level, lo1, hi1, level1)
    PROVE  Around(n, below, key, lo, hi, level, lo1, hi1, level1)
<1> DEFINE D == DOMAIN nodes
           E == DOMAIN below.nodes
           i == ChildIndex(nodes[n].keys, key)
           c == ChildOf(n, key)
<1>1. /\ Tree(nodes, root, lo, hi, level) /\ n \in D /\ ~IsLeaf(nodes[n])
      /\ key \in Keys /\ Grows(c, below, key, id, lo, hi, level, lo1, hi1, level1)
  BY DEF Returned
<1>2. Bounded(nodes, lo, hi, level) /\ \A x \in D : Valid(nodes, lo, hi, level, x)
  BY <1>1 DEF Tree
<1>3. /\ i \in 1 .. Len(nodes[n].children) /\ c = nodes[n].children[i]
      /\ c \in D /\ level[c] + 1 = level[n] /\ level[c] < level[n]
  BY <1>1, <1>2, ChildFacts DEF ChildOf
<1>4. /\ Bounded(below.nodes, lo1, hi1, level1) /\ D \subseteq E
      /\ \A x \in D :
           /\ lo1[x] = lo[x] /\ level1[x] = level[x]
           /\ level[x] = level[c] /\ x # c => hi1[x] = hi[x]
           /\ level[x] > level[c] => hi1[x] = hi[x] /\ below.nodes[x] = nodes[x]
  BY <1>1 DEF Grows
<1>5. /\ \A x \in E \ D : \/ level1[x] < level[c]
                          \/ level1[x] = level[c] /\ below.split = TRUE /\ x = Len(below.nodes)
      /\ below.split = FALSE => hi1[c] = hi[c]
      /\ \A x \in E : level1[x] <= level[c] => Valid(below.nodes, lo1, hi1, level1, x)
      /\ \A x \in E : level1[x] < level[c] => HasParent(below.nodes, x)
  BY <1>1 DEF Grows
<1> HIDE DEF c, i
<1>6. /\ \A x \in D : level[x] \in Nat
      /\ \A x \in E : level1[x] \in Nat
  BY <1>2, <1>4, BoundedFacts
<1>7. n \in E /\ below.nodes[n] = nodes[n] /\ lo1[n] = lo[n] /\ hi1[n] = hi[n] /\ level1[n] = level[n]
  BY <1>1, <1>3, <1>4, <1>6
<1>8. ASSUME NEW j \in 1 .. Len(nodes[n].children), j # i
      PROVE  hi1[nodes[n].children[j]] = hi[nodes[n].children[j]]
  <2> DEFINE z == nodes[n].children[j]
  <2>1. Shares(DOMAIN nodes, lo, hi, level, nodes[n].keys, nodes[n].children, lo[n], hi[n], level[n])
    BY <1>1, <1>2 DEF Valid, ValidInner
  <2>2. z \in D /\ level[z] + 1 = level[n]
    BY <2>1 DEF Shares
  <2>3. z # c
    BY <1>1, <1>2, <1>3, <1>8, OneParent
  <2> HIDE DEF z
  <2>4. level[z] = level[c]
    BY <1>3, <1>6, <2>2
  <2>5. hi1[z] = hi[z]
    BY <1>4, <2>2, <2>3, <2>4
  <2> QED
    BY <2>5 DEF z
<1>9. \A x \in E \ D : level1[x] < level[n]
  <2>1. level[c] \in Nat /\ level[n] \in Nat
    BY <1>1, <1>3, <1>6
  <2> QED
    BY <1>3, <1>5, <1>6, <2>1
<1>10. ASSUME NEW x \in D, level[x] = level[n], x # n \/ below.split = FALSE
       PROVE  Valid(below.nodes, lo1, hi1, level1, x)
  <2>1. hi1[x] = hi[x] /\ below.nodes[x] = nodes[x]
    BY <1>3, <1>4, <1>6, <1>10
  <2>2. ASSUME ~IsLeaf(nodes[x]), NEW j \in 1 .. Len(nodes[x].children)
        PROVE  hi1[nodes[x].children[j]] = hi[nodes[x].children[j]]
    <3> DEFINE z == nodes[x].children[j]
    <3>1. Shares(DOMAIN nodes, lo, hi, level, nodes[x].keys, nodes[x].children, lo[x], hi[x], level[x])
      BY <1>2, <2>2 DEF Valid, ValidInner
    <3>2. z \in D /\ level[z] + 1 = level[n]
      BY <1>10, <3>1 DEF Shares
    <3>3. x # n => z # c
      BY <1>1, <1>2, <1>3, <2>2, OneParent
    <3> HIDE DEF z
    <3>4. level[z] = level[c]
      BY <1>3, <1>6, <3>2
    <3>5. hi1[z] = hi[z]
      BY <1>4, <1>5, <1>10, <3>2, <3>3, <3>4
    <3> QED
      BY <3>5 DEF z
  <2>3. ~IsLeaf(nodes[x]) => \A j \in 1 .. Len(nodes[x].children) :
                              hi1[nodes[x].children[j]] = hi[nodes[x].children[j]]
    BY <2>2
  <2>4. \A y \in DOMAIN nodes : lo1[y] = lo[y] /\ level1[y] = level[y]
    BY <1>4
  <2> QED
    BY <1>2, <1>4, <2>1, <2>3, <2>4, ValidKept
<1>11. ASSUME NEW x \in E, level1[x] <= level[n], x # n
       PROVE  Valid(below.nodes, lo1, hi1, level1, x)
  <2>1. CASE level1[x] <= level[c]
    BY <1>5, <2>1
  <2>2. CASE ~(level1[x] <= level[c])
    <3>1. level1[x] = level[n]
      <4>1. level1[x] \in Nat /\ level[c] \in Nat /\ level[n] \in Nat
        BY <1>1, <1>3, <1>6
      <4> QED
        BY <1>3, <1>11, <2>2, <4>1
    <3>2. x \in D
      BY <1>6, <1>9, <3>1
    <3>3. level[x] = level[n]
      BY <1>4, <3>1, <3>2
    <3> QED
      BY <1>10, <1>11, <3>2, <3>3
  <2> QED
    BY <2>1, <2>2
<1>12. ASSUME NEW z \in E, level1[z] < level[n]
       PROVE  \/ below.split = TRUE /\ z = Len(below.nodes)
              \/ \E k \in 1 .. Len(nodes[n].children) : nodes[n].children[k] = z
              \/ \E p \in E :
                   /\ p # n /\ ~IsLeaf(below.nodes[p])
                   /\ \E k \in 1 .. Len(below.nodes[p].children) : below.nodes[p].children[k] = z
  <2>1. CASE level1[z] < level[c]
    <3>1. PICK p \in E : /\ ~IsLeaf(below.nodes[p])
                         /\ \E k \in 1 .. Len(below.nodes[p].children) : below.nodes[p].children[k] = z
      BY <1>5, <2>1 DEF HasParent
    <3> QED
      BY <1>7, <3>1
  <2>2. CASE ~(level1[z] < level[c]) /\ z \in D
    <3>1. level[z] < level[n]
      BY <1>4, <1>12, <2>2
    <3>2. z # root
      <4>1. root \in D /\ level[n] <= level[root]
        BY <1>1 DEF Tree, Rooted
      <4> QED
        BY <1>1, <1>6, <3>1, <4>1
    <3>3. PICK p \in D : /\ ~IsLeaf(nodes[p])
                         /\ \E k \in 1 .. Len(nodes[p].children) : nodes[p].children[k] = z
      BY <1>1, <2>2, <3>2 DEF Tree, Rooted, HasParent
    <3>4. level[z] + 1 = level[p]
      BY <1>2, <3>3 DEF Valid, ValidInner, Shares
    <3>5. level[p] > level[c]
      <4>1. level[z] \in Nat /\ level[p] \in Nat /\ level[c] \in Nat /\ level1[z] = level[z]
        BY <1>3, <1>4, <1>6, <2>2, <3>3
      <4> QED
        BY <2>2, <3>4, <4>1
    <3>6. below.nodes[p] = nodes[p] /\ p \in E
      BY <1>4, <3>3, <3>5
    <3> QED
      BY <3>3, <3>6
  <2>3. CASE ~(level1[z] < level[c]) /\ z \notin D
    BY <1>5, <2>3
  <2> QED
    BY <2>1, <2>2, <2>3
<1>13. below.split = FALSE => Valid(below.nodes, lo1, hi1, level1, n)
  BY <1>1, <1>10
<1> QED
  BY <1>7, <1>8, <1>9, <1>11, <1>12, <1>13 DEF Around, i

\* The separators and the children of n with those of a child that was split.
NewKeys(n, below, key) ==
    InsertAt(nodes[n].keys, ChildIndex(nodes[n].keys, key), below.separator)
NewChildren(n, below, key) ==
    InsertAt(nodes[n].children, ChildIndex(nodes[n].keys, key) + 1, Len(below.nodes))

\* With the new half of its child the node n shares out its keys again, and all
\* nodes below it have a parent.
TakenOver(n, below, key, lo, hi, level, lo1, hi1, level1) ==
    /\ NewKeys(n, below, key) \in Seq(Keys) /\ Len(NewKeys(n, below, key)) \in 2 .. MaxKeys + 1
    /\ NewChildren(n, below, key) \in Seq(Nat)
    /\ Shares(DOMAIN below.nodes, lo1, hi1, level1,
              NewKeys(n, below, key), NewChildren(n, below, key), lo[n], hi[n], level[n])
    /\ \A z \in DOMAIN below.nodes : level1[z] < level[n] =>
         \/ \E k \in 1 .. Len(NewChildren(n, below, key)) : NewChildren(n, below, key)[k] = z
         \/ \E p \in DOMAIN below.nodes :
              /\ p # n /\ ~IsLeaf(below.nodes[p])
              /\ \E k \in 1 .. Len(below.nodes[p].children) : below.nodes[p].children[k] = z

\* A node whose child was split takes over the separator and the new half.
LEMMA TakesOver ==
    ASSUME NEW n, NEW below, NEW key, NEW id, NEW lo, NEW hi, NEW level,
           NEW lo1, NEW hi1, NEW level1,
           Returned(n, below, key, id, lo, hi, level, lo1, hi1, level1), below.split = TRUE
    PROVE  TakenOver(n, below, key, lo, hi, level, lo1, hi1, level1)
<1> DEFINE D == DOMAIN nodes
           E == DOMAIN below.nodes
           i == ChildIndex(nodes[n].keys, key)
           c == ChildOf(n, key)
           old == nodes[n].keys
           olds == nodes[n].children
           separator == below.separator
           new == Len(below.nodes)
           keys == InsertAt(old, i, separator)
           children == InsertAt(olds, i + 1, new)
<1>1. /\ Tree(nodes, root, lo, hi, level) /\ n \in D /\ ~IsLeaf(nodes[n])
      /\ key \in Keys /\ Grows(c, below, key, id, lo, hi, level, lo1, hi1, level1)
  BY DEF Returned
<1>2. Bounded(nodes, lo, hi, level) /\ \A x \in D : Valid(nodes, lo, hi, level, x)
  BY <1>1 DEF Tree
<1>3. /\ i \in 1 .. Len(olds) /\ c = olds[i]
      /\ c \in D /\ level[c] + 1 = level[n] /\ level[c] < level[n]
  BY <1>1, <1>2, ChildFacts DEF ChildOf
<1>4. /\ Bounded(below.nodes, lo1, hi1, level1) /\ D \subseteq E
      /\ \A x \in D : lo1[x] = lo[x] /\ level1[x] = level[x]
      /\ new \in E /\ separator \in Keys
      /\ hi1[c] = separator /\ lo1[new] = separator
      /\ hi1[new] = hi[c] /\ level1[new] = level[c]
  BY <1>1 DEF Grows
<1>5. /\ Len(old) \in 1 .. MaxKeys
      /\ Shares(D, lo, hi, level, old, olds, lo[n], hi[n], level[n])
  BY <1>1, <1>2 DEF Valid, ValidInner
<1>6. old \in Seq(Keys) /\ olds \in Seq(Nat) /\ new \in Nat
  BY <1>1, <1>2, <1>4, BoundedFacts, NodeFacts
<1>7. /\ \A j \in 1 .. Len(olds) : j # i => hi1[olds[j]] = hi[olds[j]]
      /\ \A z \in E : level1[z] < level[n] =>
           \/ below.split = TRUE /\ z = new
           \/ \E k \in 1 .. Len(olds) : olds[k] = z
           \/ \E p \in E :
                /\ p # n /\ ~IsLeaf(below.nodes[p])
                /\ \E k \in 1 .. Len(below.nodes[p].children) : below.nodes[p].children[k] = z
  <2>1. Around(n, below, key, lo, hi, level, lo1, hi1, level1)
    BY ReturnedFacts
  <2> QED
    BY <2>1 DEF Around
<1>8. lo[c] < separator /\ separator < hi[c]
  <2> HIDE DEF c, separator, new
  <2>1. lo1[c] < hi1[c] /\ lo1[new] < hi1[new]
    BY <1>3, <1>4, BoundedFacts
  <2> QED
    BY <1>3, <1>4, <2>1
<1>9. Len(olds) = Len(old) + 1
  BY <1>5 DEF Shares
<1> HIDE DEF i, c, old, olds, separator, new
<1>10. /\ lo[c] = IF i = 1 THEN lo[n] ELSE old[i - 1]
       /\ hi[c] = IF i = Len(olds) THEN hi[n] ELSE old[i]
       /\ \A j, k \in 1 .. Len(old) : j < k => old[j] < old[k]
  BY <1>3, <1>5 DEF Shares
<1>11. separator \in Nat /\ \A j \in 1 .. Len(old) : old[j] \in Nat
  BY <1>4, <1>6, TreeAssumption DEF Keys
<1>12. ASSUME NEW j \in 1 .. Len(old)
       PROVE  /\ j < i => old[j] < separator
              /\ j >= i => separator < old[j]
  <2>1. ASSUME j < i
        PROVE  old[j] < separator
    <3>1. i # 1 /\ i - 1 \in 1 .. Len(old) /\ j <= i - 1
      BY <1>3, <1>6, <1>9, <2>1
    <3>2. old[i - 1] < separator
      BY <1>8, <1>10, <3>1
    <3>3. old[j] <= old[i - 1]
      BY <1>10, <1>11, <3>1
    <3> QED
      BY <1>11, <3>1, <3>2, <3>3
  <2>2. ASSUME j >= i
        PROVE  separator < old[j]
    <3>1. i # Len(olds) /\ i \in 1 .. Len(old)
      BY <1>3, <1>6, <1>9, <2>2
    <3>2. separator < old[i]
      BY <1>8, <1>10, <3>1
    <3>3. old[i] <= old[j]
      BY <1>10, <1>11, <2>2, <3>1
    <3> QED
      BY <1>11, <3>1, <3>2, <3>3
  <2> QED
    BY <2>1, <2>2
<1>13. /\ keys \in Seq(Keys) /\ Len(keys) = Len(old) + 1 /\ children \in Seq(Nat)
       /\ Shares(E, lo1, hi1, level1, keys, children, lo[n], hi[n], level[n])
  <2>1. hi1[olds[i]] = separator /\ hi1[new] = hi[olds[i]] /\ level1[new] = level[olds[i]]
    BY <1>3, <1>4
  <2>2. /\ \A j \in 1 .. Len(old) : j < i => old[j] < separator
        /\ \A j \in 1 .. Len(old) : j >= i => separator < old[j]
    BY <1>12
  <2> HIDE DEF D, E
  <2>3. Joins(D, lo, hi, level, E, lo1, hi1, level1, old, olds, i, new, separator)
    BY <1>3, <1>4, <1>6, <1>7, <2>1, <2>2 DEF Joins
  <2> QED
    BY <1>5, <1>6, <2>3, SharesInsert
<1>14. /\ \A j \in 1 .. Len(olds) : \E k \in 1 .. Len(children) : children[k] = olds[j]
       /\ \E k \in 1 .. Len(children) : children[k] = new
  <2> DEFINE at == i + 1
             N == Nat
  <2>1. at \in 1 .. Len(olds) + 1 /\ olds \in Seq(N) /\ new \in N
    BY <1>3, <1>6
  <2> HIDE DEF at, N
  <2>2. /\ \A j \in 1 .. Len(olds) :
             \E k \in 1 .. Len(InsertAt(olds, at, new)) : InsertAt(olds, at, new)[k] = olds[j]
        /\ \E k \in 1 .. Len(InsertAt(olds, at, new)) : InsertAt(olds, at, new)[k] = new
    <3>1. Inserted(N, olds, at, new)
      BY <2>1, InsertAtFacts
    <3> QED
      BY <3>1 DEF Inserted
  <2> QED
    BY <2>2 DEF at
<1>15. Len(keys) \in 2 .. MaxKeys + 1
  <2> HIDE DEF keys
  <2> QED
    BY <1>5, <1>13, TreeAssumption DEF old
<1>17. keys = NewKeys(n, below, key) /\ children = NewChildren(n, below, key)
  BY DEF NewKeys, NewChildren, keys, children, old, olds, i, separator, new
<1> HIDE DEF keys, children
<1>16. ASSUME NEW z \in E, level1[z] < level[n]
       PROVE  \/ \E k \in 1 .. Len(children) : children[k] = z
              \/ \E p \in E :
                   /\ p # n /\ ~IsLeaf(below.nodes[p])
                   /\ \E k \in 1 .. Len(below.nodes[p].children) : below.nodes[p].children[k] = z
  BY <1>7, <1>14, <1>16
<1> QED
  BY <1>13, <1>15, <1>16, <1>17 DEF TakenOver

\* Insertion goes on unchanged above a child that was not split.
LEMMA UnsplitGrows ==
    ASSUME NEW n, NEW below, NEW key, NEW id, NEW lo, NEW hi, NEW level,
           NEW lo1, NEW hi1, NEW level1,
           Returned(n, below, key, id, lo, hi, level, lo1, hi1, level1), below.split = FALSE
    PROVE  Grows(n, below, key, id, lo, hi, level, lo1, hi1, level1)
<1> DEFINE D == DOMAIN nodes
           E == DOMAIN below.nodes
           c == ChildOf(n, key)
<1>1. /\ Tree(nodes, root, lo, hi, level) /\ n \in D /\ ~IsLeaf(nodes[n]) /\ key \in Keys
      /\ Grows(c, below, key, id, lo, hi, level, lo1, hi1, level1)
  BY DEF Returned
<1>2. Bounded(nodes, lo, hi, level) /\ \A x \in D : Valid(nodes, lo, hi, level, x)
  BY <1>1 DEF Tree
<1>3. c \in D /\ level[c] < level[n]
  BY <1>1, <1>2, ChildFacts DEF ChildOf
<1>4. /\ Bounded(below.nodes, lo1, hi1, level1) /\ D \subseteq E
      /\ \A x \in D :
           /\ lo1[x] = lo[x] /\ level1[x] = level[x]
           /\ level[x] > level[c] => hi1[x] = hi[x] /\ below.nodes[x] = nodes[x]
      /\ \A k \in Keys, i \in Ids : Has(below.nodes, k, i) <=> Has(nodes, k, i) \/ (k = key /\ i = id)
  BY <1>1 DEF Grows
<1> HIDE DEF c
<1>5. Around(n, below, key, lo, hi, level, lo1, hi1, level1)
  BY ReturnedFacts
<1>6. /\ hi1[n] = hi[n]
      /\ \A x \in E \ D : level1[x] < level[n]
      /\ \A x \in E : level1[x] <= level[n] => Valid(below.nodes, lo1, hi1, level1, x)
      /\ n \in E /\ below.nodes[n] = nodes[n]
  BY <1>5 DEF Around
<1>7. ASSUME NEW z \in E, level1[z] < level[n]
      PROVE  HasParent(below.nodes, z)
  <2>1. \/ \E k \in 1 .. Len(nodes[n].children) : nodes[n].children[k] = z
        \/ \E p \in DOMAIN below.nodes :
             /\ p # n /\ ~IsLeaf(below.nodes[p])
             /\ \E k \in 1 .. Len(below.nodes[p].children) : below.nodes[p].children[k] = z
    BY <1>5, <1>7 DEF Around
  <2> QED
    BY <1>1, <1>6, <2>1 DEF HasParent
<1>8. ASSUME NEW x \in D
      PROVE  /\ level[x] = level[n] /\ x # n => hi1[x] = hi[x]
             /\ level[x] > level[n] => hi1[x] = hi[x] /\ below.nodes[x] = nodes[x]
  <2>1. level[x] \in Nat /\ level[n] \in Nat /\ level[c] \in Nat
    BY <1>1, <1>2, <1>3, BoundedFacts
  <2>2. level[x] = level[n] \/ level[x] > level[n] => level[x] > level[c]
    BY <1>3, <2>1
  <2> QED
    BY <1>4, <2>2
<1> QED
  BY <1>4, <1>6, <1>7, <1>8 DEF Grows

\* The pairs of the nodes after an inner one was replaced and another was added.
LEMMA HasInner ==
    ASSUME NEW m, NEW n \in DOMAIN m, ~IsLeaf(m[n]), NEW m2, DOMAIN m \subseteq DOMAIN m2,
           \A x \in DOMAIN m : x # n => m2[x] = m[x],
           ~IsLeaf(m2[n]), \A x \in DOMAIN m2 \ DOMAIN m : ~IsLeaf(m2[x]), NEW key, NEW id
    PROVE  Has(m2, key, id) <=> Has(m, key, id)
<1>1. ASSUME Has(m2, key, id)
      PROVE  Has(m, key, id)
  <2>1. PICK x \in DOMAIN m2 : Holds(m2[x], key, id)
    BY <1>1 DEF Has
  <2>2. x \in DOMAIN m /\ x # n
    BY <2>1 DEF Holds
  <2> QED
    BY <2>1, <2>2 DEF Has
<1>2. ASSUME Has(m, key, id)
      PROVE  Has(m2, key, id)
  <2>1. PICK x \in DOMAIN m : Holds(m[x], key, id)
    BY <1>2 DEF Has
  <2>2. x # n
    BY <2>1 DEF Holds
  <2> QED
    BY <2>1, <2>2 DEF Has
<1> QED
  BY <1>1, <1>2

\* A node with room for another separator stays whole.
LEMMA RoomGrows ==
    ASSUME NEW n, NEW below, NEW key, NEW id, NEW lo, NEW hi, NEW level,
           NEW lo1, NEW hi1, NEW level1,
           Returned(n, below, key, id, lo, hi, level, lo1, hi1, level1), below.split = TRUE,
           Len(NewKeys(n, below, key)) <= MaxKeys
    PROVE  Grows(n, InsertChild(n, ChildIndex(nodes[n].keys, key), below), key, id,
                 lo, hi, level, lo1, hi1, level1)
<1> DEFINE D == DOMAIN nodes
           E == DOMAIN below.nodes
           c == ChildOf(n, key)
           i == ChildIndex(nodes[n].keys, key)
           keys == NewKeys(n, below, key)
           children == NewChildren(n, below, key)
           m2 == [below.nodes EXCEPT ![n] = Inner(keys, children)]
           r == InsertChild(n, i, below)
<1>1. /\ Tree(nodes, root, lo, hi, level) /\ n \in D /\ ~IsLeaf(nodes[n]) /\ key \in Keys
      /\ Grows(c, below, key, id, lo, hi, level, lo1, hi1, level1)
  BY DEF Returned
<1>2. Bounded(nodes, lo, hi, level) /\ \A x \in D : Valid(nodes, lo, hi, level, x)
  BY <1>1 DEF Tree
<1>3. c \in D /\ level[c] < level[n]
  BY <1>1, <1>2, ChildFacts DEF ChildOf
<1>4. /\ Bounded(below.nodes, lo1, hi1, level1) /\ D \subseteq E
      /\ \A x \in D :
           /\ lo1[x] = lo[x] /\ level1[x] = level[x]
           /\ level[x] > level[c] => hi1[x] = hi[x] /\ below.nodes[x] = nodes[x]
      /\ \A k \in Keys, j \in Ids : Has(below.nodes, k, j) <=> Has(nodes, k, j) \/ (k = key /\ j = id)
  BY <1>1 DEF Grows
<1>5. Around(n, below, key, lo, hi, level, lo1, hi1, level1)
  BY ReturnedFacts
<1>6. /\ lo1[n] = lo[n] /\ hi1[n] = hi[n] /\ level1[n] = level[n]
      /\ \A x \in E \ D : level1[x] < level[n]
      /\ \A x \in E : level1[x] <= level[n] /\ x # n => Valid(below.nodes, lo1, hi1, level1, x)
      /\ n \in E /\ below.nodes[n] = nodes[n]
  BY <1>5 DEF Around
<1>7. /\ keys \in Seq(Keys) /\ Len(keys) \in 2 .. MaxKeys + 1 /\ children \in Seq(Nat)
      /\ Shares(E, lo1, hi1, level1, keys, children, lo[n], hi[n], level[n])
      /\ \A z \in E : level1[z] < level[n] =>
           \/ \E k \in 1 .. Len(children) : children[k] = z
           \/ \E p \in E :
                /\ p # n /\ ~IsLeaf(below.nodes[p])
                /\ \E k \in 1 .. Len(below.nodes[p].children) : below.nodes[p].children[k] = z
  <2>1. TakenOver(n, below, key, lo, hi, level, lo1, hi1, level1)
    BY TakesOver
  <2> QED
    BY <2>1 DEF TakenOver
<1>8. r = Whole(m2) /\ r.nodes = m2 /\ r.split = FALSE
  BY DEF InsertChild, Whole, NewKeys, NewChildren
<1> HIDE DEF c, i, r, keys, children
<1>9. /\ Inner(keys, children) \in NodeSet /\ ~IsLeaf(Inner(keys, children))
      /\ Inner(keys, children).keys = keys /\ Inner(keys, children).children = children
  BY <1>7, InnerFacts
<1>10. /\ m2 \in Seq(NodeSet) /\ DOMAIN m2 = E /\ m2[n] = Inner(keys, children)
       /\ \A x \in E : x # n => m2[x] = below.nodes[x]
  <2>1. below.nodes \in Seq(NodeSet)
    BY <1>4 DEF Bounded
  <2> QED
    BY <1>6, <1>9, <2>1
<1> HIDE DEF m2
<1>11. Bounded(m2, lo1, hi1, level1)
  BY <1>4, <1>10 DEF Bounded
<1>12. Valid(m2, lo1, hi1, level1, n)
  <2>1. Len(keys) \in 1 .. MaxKeys
    BY <1>7, TreeAssumption DEF keys
  <2> QED
    BY <1>6, <1>7, <1>9, <1>10, <2>1 DEF Valid, ValidInner
<1>13. ASSUME NEW x \in E, level1[x] <= level[n]
       PROVE  Valid(m2, lo1, hi1, level1, x)
  <2>1. CASE x = n
    BY <1>12, <2>1
  <2>2. CASE x # n
    <3>1. Valid(below.nodes, lo1, hi1, level1, x)
      BY <1>6, <1>13, <2>2
    <3> QED
      BY <1>4, <1>10, <2>2, <3>1, ValidKept
  <2> QED
    BY <2>1, <2>2
<1>14. ASSUME NEW z \in E, level1[z] < level[n]
       PROVE  HasParent(m2, z)
  <2>1. CASE \E k \in 1 .. Len(children) : children[k] = z
    BY <1>6, <1>9, <1>10, <2>1 DEF HasParent
  <2>2. CASE \E p \in E :
               /\ p # n /\ ~IsLeaf(below.nodes[p])
               /\ \E k \in 1 .. Len(below.nodes[p].children) : below.nodes[p].children[k] = z
    BY <1>10, <2>2 DEF HasParent
  <2> QED
    BY <1>7, <1>14, <2>1, <2>2
<1>15. ASSUME NEW k, NEW j
       PROVE  Has(m2, k, j) <=> Has(below.nodes, k, j)
  <2>1. ~IsLeaf(below.nodes[n]) /\ ~IsLeaf(m2[n])
    BY <1>1, <1>6, <1>9, <1>10
  <2> QED
    BY <1>6, <1>10, <2>1, HasInner
<1>16. ASSUME NEW x \in D
       PROVE  /\ level[x] = level[n] /\ x # n => hi1[x] = hi[x]
              /\ level[x] > level[n] => hi1[x] = hi[x] /\ m2[x] = nodes[x]
  <2>1. level[x] \in Nat /\ level[n] \in Nat /\ level[c] \in Nat
    BY <1>1, <1>2, <1>3, BoundedFacts
  <2>2. /\ level[x] = level[n] \/ level[x] > level[n] => level[x] > level[c]
        /\ level[x] > level[n] => x # n
    BY <1>3, <2>1
  <2> QED
    BY <1>4, <1>10, <2>2
<1>17. Grows(n, r, key, id, lo, hi, level, lo1, hi1, level1)
  <2>1. /\ Bounded(m2, lo1, hi1, level1) /\ D \subseteq DOMAIN m2 /\ ~r.split /\ r.nodes = m2
        /\ DOMAIN m2 = E
    BY <1>4, <1>8, <1>10, <1>11
  <2> QED
    BY <1>4, <1>6, <1>8, <1>10, <1>13, <1>14, <1>15, <1>16, <2>1, ZenonT(60) DEF Grows
<1> QED
  BY <1>17 DEF r, i

\* The middle one of the separators of an overfull node leaves some on both sides.
LEMMA MiddleFacts ==
    ASSUME NEW n, n = MaxKeys + 1
    PROVE  LET middle == n \div 2 + 1
           IN  /\ middle \in 1 .. n
               /\ middle - 1 \in 1 .. MaxKeys /\ n - middle \in 1 .. MaxKeys
<1>1. MaxKeys \in Nat /\ MaxKeys >= 3 /\ n \in Nat
  BY TreeAssumption
<1>2. n \div 2 \in Nat /\ 2 * (n \div 2) <= n /\ n <= 2 * (n \div 2) + 1
  BY <1>1
<1> DEFINE half == n \div 2
<1> HIDE DEF half
<1>3. half \in Nat /\ 2 * half <= n /\ n <= 2 * half + 1
  BY <1>2 DEF half
<1>4. half + 1 \in 1 .. n /\ half + 1 - 1 \in 1 .. MaxKeys /\ n - (half + 1) \in 1 .. MaxKeys
  BY <1>1, <1>3
<1> QED
  BY <1>4 DEF half

\* A node with a separator too many is split at the middle one.
LEMMA OverflowGrows ==
    ASSUME NEW n, NEW below, NEW key, NEW id, NEW lo, NEW hi, NEW level,
           NEW lo1, NEW hi1, NEW level1,
           Returned(n, below, key, id, lo, hi, level, lo1, hi1, level1), below.split = TRUE,
           ~(Len(NewKeys(n, below, key)) <= MaxKeys)
    PROVE  \E lo2, hi2, level2 :
             Grows(n, InsertChild(n, ChildIndex(nodes[n].keys, key), below), key, id,
                   lo, hi, level, lo2, hi2, level2)
<1> DEFINE D == DOMAIN nodes
           E == DOMAIN below.nodes
           c == ChildOf(n, key)
           i == ChildIndex(nodes[n].keys, key)
           keys == NewKeys(n, below, key)
           children == NewChildren(n, below, key)
           middle == Len(keys) \div 2 + 1
           keysl == SubSeq(keys, 1, middle - 1)
           childrenl == SubSeq(children, 1, middle)
           keysr == SubSeq(keys, middle + 1, Len(keys))
           childrenr == SubSeq(children, middle + 1, Len(children))
           left == Inner(keysl, childrenl)
           right == Inner(keysr, childrenr)
           separator == keys[middle]
           m2 == Append([below.nodes EXCEPT ![n] = left], right)
           N == Len(below.nodes) + 1
           r == InsertChild(n, i, below)
<1>1. /\ Tree(nodes, root, lo, hi, level) /\ n \in D /\ ~IsLeaf(nodes[n]) /\ key \in Keys
      /\ Grows(c, below, key, id, lo, hi, level, lo1, hi1, level1)
  BY DEF Returned
<1>2. Bounded(nodes, lo, hi, level) /\ \A x \in D : Valid(nodes, lo, hi, level, x)
  BY <1>1 DEF Tree
<1>3. c \in D /\ level[c] < level[n]
  BY <1>1, <1>2, ChildFacts DEF ChildOf
<1>4. /\ Bounded(below.nodes, lo1, hi1, level1) /\ D \subseteq E
      /\ \A x \in D :
           /\ lo1[x] = lo[x] /\ level1[x] = level[x]
           /\ level[x] > level[c] => hi1[x] = hi[x] /\ below.nodes[x] = nodes[x]
      /\ \A k \in Keys, j \in Ids : Has(below.nodes, k, j) <=> Has(nodes, k, j) \/ (k = key /\ j = id)
  BY <1>1 DEF Grows
<1>5. Around(n, below, key, lo, hi, level, lo1, hi1, level1)
  BY ReturnedFacts
<1>6. /\ lo1[n] = lo[n] /\ hi1[n] = hi[n] /\ level1[n] = level[n]
      /\ \A x \in E \ D : level1[x] < level[n]
      /\ \A x \in E : level1[x] <= level[n] /\ x # n => Valid(below.nodes, lo1, hi1, level1, x)
      /\ n \in E /\ below.nodes[n] = nodes[n]
  BY <1>5 DEF Around
<1>7. /\ keys \in Seq(Keys) /\ Len(keys) \in 2 .. MaxKeys + 1 /\ children \in Seq(Nat)
      /\ Shares(E, lo1, hi1, level1, keys, children, lo[n], hi[n], level[n])
      /\ \A z \in E : level1[z] < level[n] =>
           \/ \E k \in 1 .. Len(children) : children[k] = z
           \/ \E p \in E :
                /\ p # n /\ ~IsLeaf(below.nodes[p])
                /\ \E k \in 1 .. Len(below.nodes[p].children) : below.nodes[p].children[k] = z
  <2>1. TakenOver(n, below, key, lo, hi, level, lo1, hi1, level1)
    BY TakesOver
  <2> QED
    BY <2>1 DEF TakenOver
<1>8. r.nodes = m2 /\ r.split = TRUE /\ r.separator = separator
  BY DEF InsertChild, Split, NewKeys, NewChildren
<1> HIDE DEF c, i, r, keys, children
<1>9. /\ Len(keys) = MaxKeys + 1 /\ middle \in 1 .. Len(keys)
      /\ middle - 1 \in 1 .. MaxKeys /\ Len(keys) - middle \in 1 .. MaxKeys
  <2>1. ~(Len(keys) <= MaxKeys)
    BY DEF keys
  <2>2. Len(keys) = MaxKeys + 1
    BY <1>7, <2>1, TreeAssumption
  <2> QED
    BY <2>2, MiddleFacts
<1> HIDE DEF middle
<1>10. /\ keysl \in Seq(Keys) /\ Len(keysl) = middle - 1 /\ childrenl \in Seq(Nat)
       /\ Shares(E, lo1, hi1, level1, keysl, childrenl, lo[n], separator, level[n])
       /\ keysr \in Seq(Keys) /\ Len(keysr) = Len(keys) - middle /\ childrenr \in Seq(Nat)
       /\ Shares(E, lo1, hi1, level1, keysr, childrenr, separator, hi[n], level[n])
       /\ \A j \in 1 .. Len(children) :
            \/ \E k \in 1 .. Len(childrenl) : childrenl[k] = children[j]
            \/ \E k \in 1 .. Len(childrenr) : childrenr[k] = children[j]
  <2>1. Halves(E, lo1, hi1, level1, keys, children, lo[n], hi[n], level[n], middle)
    BY <1>7, <1>9, SharesSplit
  <2> QED
    BY <2>1 DEF Halves
<1> HIDE DEF keysl, childrenl, keysr, childrenr
<1>11. /\ left \in NodeSet /\ ~IsLeaf(left) /\ left.keys = keysl /\ left.children = childrenl
       /\ right \in NodeSet /\ ~IsLeaf(right) /\ right.keys = keysr /\ right.children = childrenr
  BY <1>10, InnerFacts
<1> HIDE DEF left, right
<1>12. /\ m2 \in Seq(NodeSet) /\ Len(m2) = N
       /\ N \in DOMAIN m2 /\ N \notin E /\ DOMAIN m2 = E \cup {N}
       /\ m2[n] = left /\ m2[N] = right
       /\ \A x \in E : x # n => m2[x] = below.nodes[x]
  <2>1. below.nodes \in Seq(NodeSet)
    BY <1>4 DEF Bounded
  <2> QED
    BY <1>6, <1>11, <2>1, SplitNodes
<1>13. separator \in Keys /\ lo[n] < separator /\ separator < hi[n]
  <2>1. separator \in Keys
    BY <1>7, <1>9
  <2>2. /\ lo1 \in [E -> Bounds] /\ hi1 \in [E -> Bounds]
        /\ \A x \in E : lo1[x] < hi1[x]
        /\ lo[n] \in Bounds /\ hi[n] \in Bounds
    BY <1>4, <1>6, BoundedFacts
  <2> DEFINE low == lo[n]
             high == hi[n]
             above == level[n]
  <2>3. /\ low \in Bounds /\ high \in Bounds
        /\ Shares(E, lo1, hi1, level1, keys, children, low, high, above)
    BY <1>7, <2>2
  <2> HIDE DEF low, high, above, E
  <2>4. \A k \in 1 .. Len(keys) : low < keys[k] /\ keys[k] < high
    BY <1>7, <2>2, <2>3, SharesFacts
  <2> QED
    BY <1>9, <2>1, <2>4 DEF low, high
<1> HIDE DEF m2, separator
<1>14. PICK lo2, hi2, level2 :
          /\ Bounded(m2, lo2, hi2, level2)
          /\ \A x \in E : lo2[x] = lo1[x] /\ level2[x] = level1[x] /\ (x # n => hi2[x] = hi1[x])
          /\ hi2[n] = separator
          /\ lo2[N] = separator /\ hi2[N] = hi1[n] /\ level2[N] = level1[n]
  <2>1. IsSplit(below.nodes, lo1, hi1, level1, n, separator, m2)
    BY <1>4, <1>6, <1>12, <1>13 DEF IsSplit
  <2>2. PICK lo2, hi2, level2 :
           /\ Bounded(m2, lo2, hi2, level2)
           /\ \A x \in DOMAIN below.nodes : /\ lo2[x] = lo1[x] /\ level2[x] = level1[x]
                                            /\ x # n => hi2[x] = hi1[x]
           /\ hi2[n] = separator
           /\ lo2[Len(below.nodes) + 1] = separator /\ hi2[Len(below.nodes) + 1] = hi1[n]
           /\ level2[Len(below.nodes) + 1] = level1[n]
    BY <2>1, SplitBounded
  <2> QED
    BY <2>2
<1> HIDE DEF N
<1>15. ASSUME NEW keys0 \in Seq(Keys), NEW children0 \in Seq(Nat), NEW low, NEW high,
              Shares(E, lo1, hi1, level1, keys0, children0, low, high, level[n])
       PROVE  Shares(DOMAIN m2, lo2, hi2, level2, keys0, children0, low, high, level[n])
  <2>1. ASSUME NEW k \in 1 .. Len(children0)
        PROVE  /\ children0[k] \in DOMAIN m2
               /\ lo2[children0[k]] = lo1[children0[k]] /\ hi2[children0[k]] = hi1[children0[k]]
               /\ level2[children0[k]] = level1[children0[k]]
    <3> DEFINE z == children0[k]
    <3>1. z \in E /\ level1[z] + 1 = level[n]
      BY <1>15, <2>1 DEF Shares
    <3> HIDE DEF z
    <3>2. z # n
      <4>1. level1[n] \in Nat
        BY <1>4, <1>6, BoundedFacts
      <4> QED
        BY <1>6, <3>1, <4>1
    <3>3. /\ z \in DOMAIN m2 /\ lo2[z] = lo1[z] /\ hi2[z] = hi1[z] /\ level2[z] = level1[z]
      BY <1>12, <1>14, <3>1, <3>2
    <3> QED
      BY <3>3 DEF z
  <2> HIDE DEF E
  <2> QED
    BY <1>15, <2>1, SharesKept
<1>16. Valid(m2, lo2, hi2, level2, n)
  <2>1. Shares(DOMAIN m2, lo2, hi2, level2, keysl, childrenl, lo[n], separator, level[n])
    BY <1>10, <1>15
  <2>2. Len(keysl) \in 1 .. MaxKeys
    BY <1>9, <1>10
  <2>3. lo2[n] = lo[n] /\ level2[n] = level[n] /\ hi2[n] = separator
    BY <1>6, <1>14
  <2> QED
    BY <1>11, <1>12, <2>1, <2>2, <2>3 DEF Valid, ValidInner
<1>17. Valid(m2, lo2, hi2, level2, N)
  <2>1. Shares(DOMAIN m2, lo2, hi2, level2, keysr, childrenr, separator, hi[n], level[n])
    BY <1>10, <1>15
  <2>2. Len(keysr) \in 1 .. MaxKeys
    BY <1>9, <1>10
  <2>3. lo2[N] = separator /\ level2[N] = level[n] /\ hi2[N] = hi[n]
    BY <1>6, <1>14
  <2> QED
    BY <1>11, <1>12, <2>1, <2>2, <2>3 DEF Valid, ValidInner
<1>18. ASSUME NEW x \in DOMAIN m2, level2[x] <= level[n]
       PROVE  Valid(m2, lo2, hi2, level2, x)
  <2>1. CASE x = n \/ x = N
    BY <1>16, <1>17, <2>1
  <2>2. CASE x \in E /\ x # n
    <3>1. Valid(below.nodes, lo1, hi1, level1, x)
      BY <1>6, <1>14, <1>18, <2>2
    <3>2. /\ DOMAIN below.nodes \subseteq DOMAIN m2 /\ m2[x] = below.nodes[x] /\ hi2[x] = hi1[x]
          /\ \A y \in DOMAIN below.nodes : lo2[y] = lo1[y] /\ level2[y] = level1[y]
      BY <1>12, <1>14, <2>2
    <3>3. ASSUME ~IsLeaf(below.nodes[x]), NEW k \in 1 .. Len(below.nodes[x].children)
          PROVE  hi2[below.nodes[x].children[k]] = hi1[below.nodes[x].children[k]]
      <4> DEFINE z == below.nodes[x].children[k]
      <4>1. z \in E /\ level1[z] + 1 = level1[x]
        BY <3>1, <3>3 DEF Valid, ValidInner, Shares
      <4> HIDE DEF z
      <4>2. z # n
        <5>1. level1[n] \in Nat /\ level1[x] \in Nat
          <6>1. Bounded(below.nodes, lo1, hi1, level1) /\ n \in E /\ x \in E
            BY <1>4, <1>6, <2>2
          <6> HIDE DEF m2
          <6> QED
            BY <6>1, BoundedFacts
        <5>2. level1[x] <= level1[n]
          BY <1>6, <1>14, <1>18, <2>2
        <5> QED
          BY <4>1, <5>1, <5>2
      <4> QED
        BY <1>14, <4>1, <4>2 DEF z
    <3> QED
      BY <1>4, <2>2, <3>1, <3>2, <3>3, ValidKept
  <2> QED
    BY <1>12, <2>1, <2>2
<1>19. ASSUME NEW z \in DOMAIN m2, level2[z] < level[n]
       PROVE  HasParent(m2, z)
  <2>1. z \in E /\ level1[z] < level[n]
    <3>1. z # N
      <4>1. level2[N] = level[n] /\ level[n] \in Nat
        BY <1>1, <1>2, <1>6, <1>14, BoundedFacts
      <4> QED
        BY <1>19, <4>1
    <3> QED
      BY <1>12, <1>14, <1>19, <3>1
  <2>2. CASE \E k \in 1 .. Len(children) : children[k] = z
    <3>1. \/ \E k \in 1 .. Len(childrenl) : childrenl[k] = z
          \/ \E k \in 1 .. Len(childrenr) : childrenr[k] = z
      BY <1>10, <2>2
    <3>2. n \in DOMAIN m2
      BY <1>6, <1>12
    <3> QED
      BY <1>11, <1>12, <3>1, <3>2 DEF HasParent
  <2>3. CASE \E p \in E :
               /\ p # n /\ ~IsLeaf(below.nodes[p])
               /\ \E k \in 1 .. Len(below.nodes[p].children) : below.nodes[p].children[k] = z
    <3>1. PICK p \in E : /\ p # n /\ ~IsLeaf(below.nodes[p])
                         /\ \E k \in 1 .. Len(below.nodes[p].children) : below.nodes[p].children[k] = z
      BY <2>3
    <3>2. p \in DOMAIN m2 /\ m2[p] = below.nodes[p]
      BY <1>12, <3>1
    <3> QED
      BY <3>1, <3>2 DEF HasParent
  <2> QED
    BY <1>7, <2>1, <2>2, <2>3
<1>20. ASSUME NEW k, NEW j
       PROVE  Has(m2, k, j) <=> Has(below.nodes, k, j)
  <2>1. ~IsLeaf(below.nodes[n]) /\ ~IsLeaf(m2[n]) /\ \A x \in DOMAIN m2 \ E : ~IsLeaf(m2[x])
    BY <1>1, <1>6, <1>11, <1>12
  <2> QED
    BY <1>6, <1>12, <2>1, HasInner
<1>21. ASSUME NEW x \in D
       PROVE  /\ lo2[x] = lo[x] /\ level2[x] = level[x]
              /\ level[x] = level[n] /\ x # n => hi2[x] = hi[x]
              /\ level[x] > level[n] => hi2[x] = hi[x] /\ m2[x] = nodes[x]
  <2>1. level[x] \in Nat /\ level[n] \in Nat /\ level[c] \in Nat
    BY <1>1, <1>2, <1>3, BoundedFacts
  <2>2. /\ level[x] = level[n] \/ level[x] > level[n] => level[x] > level[c]
        /\ level[x] > level[n] => x # n
    BY <1>3, <2>1
  <2> QED
    BY <1>4, <1>12, <1>14, <2>2
<1>22. \A x \in DOMAIN m2 \ D : \/ level2[x] < level[n]
                                \/ level2[x] = level[n] /\ x = N
  BY <1>6, <1>12, <1>14
<1>23. Grows(n, r, key, id, lo, hi, level, lo2, hi2, level2)
  <2>1. /\ r.split \in BOOLEAN /\ r.split = TRUE /\ r.separator = separator /\ r.nodes = m2
        /\ Len(m2) = N /\ N \in DOMAIN m2 \ D /\ D \subseteq DOMAIN m2
    BY <1>4, <1>8, <1>12
  <2>2. /\ hi2[n] = separator /\ lo2[N] = separator /\ hi2[N] = hi[n] /\ level2[N] = level[n]
    BY <1>6, <1>14
  <2>3. \A k \in Keys, j \in Ids : Has(m2, k, j) <=> Has(nodes, k, j) \/ (k = key /\ j = id)
    BY <1>4, <1>20
  <2> HIDE DEF D
  <2> QED
    BY <1>13, <1>14, <1>18, <1>19, <1>21, <1>22, <2>1, <2>2, <2>3 DEF Grows, D
<1> QED
  BY <1>23 DEF r, i

\* Insertion into the subtree of an inner node.
LEMMA InsertInnerGrows ==
    ASSUME NEW n, NEW below, NEW key, NEW id, NEW lo, NEW hi, NEW level,
           NEW lo1, NEW hi1, NEW level1,
           Returned(n, below, key, id, lo, hi, level, lo1, hi1, level1)
    PROVE  \E lo2, hi2, level2 :
             Grows(n, IF below.split
                      THEN InsertChild(n, ChildIndex(nodes[n].keys, key), below) ELSE below,
                   key, id, lo, hi, level, lo2, hi2, level2)
<1>1. below.split \in BOOLEAN
  BY DEF Returned, Grows
<1>2. CASE below.split = FALSE
  <2>1. Grows(n, below, key, id, lo, hi, level, lo1, hi1, level1)
    BY <1>2, UnsplitGrows
  <2> QED
    BY <1>2, <2>1
<1>3. CASE below.split = TRUE
  <2> DEFINE r == InsertChild(n, ChildIndex(nodes[n].keys, key), below)
  <2>1. \E lo2, hi2, level2 : Grows(n, r, key, id, lo, hi, level, lo2, hi2, level2)
    <3>1. CASE Len(NewKeys(n, below, key)) <= MaxKeys
      <4>1. Grows(n, r, key, id, lo, hi, level, lo1, hi1, level1)
        BY <1>3, <3>1, RoomGrows
      <4> QED
        BY <4>1
    <3>2. CASE ~(Len(NewKeys(n, below, key)) <= MaxKeys)
      BY <1>3, <3>2, OverflowGrows
    <3> QED
      BY <3>1, <3>2
  <2> HIDE DEF r
  <2>2. r = IF below.split
            THEN InsertChild(n, ChildIndex(nodes[n].keys, key), below) ELSE below
    BY <1>3 DEF r
  <2> QED
    BY <2>1, <2>2
<1> QED
  BY <1>1, <1>2, <1>3

\* What insert_node may return.
Results ==
    {[nodes |-> m, split |-> FALSE] : m \in Seq(NodeSet)}
      \cup {[nodes |-> p[1], split |-> TRUE, separator |-> p[2]] : p \in Seq(NodeSet) \X Keys}

\* A result says whether the node was split, and if so at which separator.
LEMMA ResultFacts ==
    /\ \A r \in Results : /\ r.nodes \in Seq(NodeSet)
                          /\ r.split = TRUE \/ r.split = FALSE
                          /\ r.split = TRUE => r.separator \in Keys
    /\ \A m \in Seq(NodeSet) : Whole(m) \in Results
    /\ \A m \in Seq(NodeSet), s \in Keys : Split(m, s) \in Results
<1>1. ASSUME NEW r \in Results
      PROVE  /\ r.nodes \in Seq(NodeSet)
             /\ r.split = TRUE \/ r.split = FALSE
             /\ r.split = TRUE => r.separator \in Keys
  <2>1. CASE \E m \in Seq(NodeSet) : r = [nodes |-> m, split |-> FALSE]
    BY <2>1
  <2>2. CASE \E p \in Seq(NodeSet) \X Keys :
               r = [nodes |-> p[1], split |-> TRUE, separator |-> p[2]]
    BY <2>2
  <2> QED
    BY <1>1, <2>1, <2>2 DEF Results
<1>2. \A m \in Seq(NodeSet) : Whole(m) \in Results
  BY DEF Results, Whole
<1>3. ASSUME NEW m \in Seq(NodeSet), NEW s \in Keys
      PROVE  Split(m, s) \in Results
  <2>1. <<m, s>> \in Seq(NodeSet) \X Keys /\ <<m, s>>[1] = m /\ <<m, s>>[2] = s
    OBVIOUS
  <2> QED
    BY <2>1 DEF Results, Split
<1> QED
  BY <1>1, <1>2, <1>3

\* Insertion into any leaf of the tree, the one of the key or not, returns a result.
LEMMA LeafResult ==
    ASSUME NEW lo, NEW hi, NEW level, Bounded(nodes, lo, hi, level),
           NEW n \in DOMAIN nodes, Valid(nodes, lo, hi, level, n), IsLeaf(nodes[n]),
           NEW key \in Keys, NEW id \in Ids
    PROVE  InsertLeaf(n, key, id) \in Results
<1> DEFINE D == DOMAIN nodes
           ids == WithId(n, key, id)
           K == DOMAIN ids
           next == nodes[n].next
           separator == Ranked(K, Cardinality(K) \div 2)
           left == {k \in K : k < separator}
           right == K \ left
           r == InsertLeaf(n, key, id)
<1>1. /\ nodes \in Seq(NodeSet) /\ nodes[n] \in NodeSet /\ Len(nodes) \in Nat
  BY BoundedFacts
<1>2. /\ next \in Nat /\ Cardinality(DOMAIN nodes[n].ids) \in Nat
      /\ Cardinality(DOMAIN nodes[n].ids) <= MaxKeys
  BY <1>1, NodeFacts, KeySets DEF Valid, ValidLeaf
<1>3. /\ K \in SUBSET Keys /\ ids \in [K -> SUBSET Ids]
      /\ Cardinality(K) <= Cardinality(DOMAIN nodes[n].ids) + 1
  BY <1>1, WithIdFacts
<1>4. r = IF Cardinality(K) <= MaxKeys
          THEN Whole([nodes EXCEPT ![n] = Leaf(ids, next)])
          ELSE Split(Append([nodes EXCEPT ![n] = Leaf(Restrict(ids, left), Len(nodes) + 1)],
                            Leaf(Restrict(ids, right), next)),
                     separator)
  BY DEF InsertLeaf, WithId
<1> HIDE DEF ids, r
<1>5. CASE Cardinality(K) <= MaxKeys
  <2>1. Leaf(ids, next) \in NodeSet
    BY <1>2, <1>3, LeafFacts
  <2>2. [nodes EXCEPT ![n] = Leaf(ids, next)] \in Seq(NodeSet)
    BY <1>1, <2>1
  <2>3. r \in Results
    BY <1>4, <1>5, <2>2, ResultFacts
  <2> QED
    BY <2>3 DEF r
<1>6. CASE ~(Cardinality(K) <= MaxKeys)
  <2>1. separator \in K
    <3>1. Cardinality(K) \in Nat
      BY <1>3, KeySets
    <3>2. Cardinality(K) = MaxKeys + 1
      BY <1>2, <1>3, <1>6, <3>1, TreeAssumption
    <3> QED
      BY <1>3, <3>2, HalvesFacts
  <2> DEFINE lower == Leaf(Restrict(ids, left), Len(nodes) + 1)
             upper == Leaf(Restrict(ids, right), next)
             m2 == Append([nodes EXCEPT ![n] = lower], upper)
  <2> HIDE DEF separator
  <2>2. left \in SUBSET K /\ right \in SUBSET K
    OBVIOUS
  <2> HIDE DEF left, right, K
  <2>3. Restrict(ids, left) \in [left -> SUBSET Ids] /\ Restrict(ids, right) \in [right -> SUBSET Ids]
    BY <1>3, <2>2 DEF Restrict
  <2>4. lower \in NodeSet /\ upper \in NodeSet
    <3>1. left \in SUBSET Keys /\ right \in SUBSET Keys /\ Len(nodes) + 1 \in Nat
      BY <1>1, <1>3, <2>2
    <3> QED
      BY <1>2, <2>3, <3>1, LeafFacts
  <2>5. r = Split(m2, separator)
    BY <1>4, <1>6
  <2> HIDE DEF lower, upper
  <2>6. m2 \in Seq(NodeSet)
    BY <1>1, <2>4, SplitNodes
  <2> HIDE DEF m2
  <2>7. r \in Results
    BY <1>3, <2>1, <2>5, <2>6, ResultFacts
  <2> QED
    BY <2>7 DEF r
<1> QED
  BY <1>5, <1>6

\* A sequence with one place replaced, and the parts of one.
LEMMA SequenceParts ==
    ASSUME NEW S, NEW s \in Seq(S)
    PROVE  /\ \A n, x : x \in S => [s EXCEPT ![n] = x] \in Seq(S)
           /\ \A n \in Nat : n <= Len(s) => SubSeq(s, 1, n) \in Seq(S)
           /\ \A n \in Nat : 1 <= n => SubSeq(s, n, Len(s)) \in Seq(S)
<1>1. ASSUME NEW n, NEW x, x \in S
      PROVE  [s EXCEPT ![n] = x] \in Seq(S)
  <2>1. CASE n \in 1 .. Len(s)
    BY <1>1, <2>1
  <2>2. CASE n \notin 1 .. Len(s)
    <3>1. DOMAIN s = 1 .. Len(s)
      OBVIOUS
    <3>2. [s EXCEPT ![n] = x] = [j \in DOMAIN s |-> s[j]]
      BY <2>2, <3>1
    <3>3. [j \in DOMAIN s |-> s[j]] = s
      OBVIOUS
    <3> QED
      BY <3>2, <3>3
  <2> QED
    BY <2>1, <2>2
<1>2. ASSUME NEW n \in Nat, n <= Len(s)
      PROVE  SubSeq(s, 1, n) \in Seq(S)
  <2>1. \A j \in 1 .. n : s[j] \in S
    BY <1>2
  <2> QED
    BY <1>2, <2>1
<1>3. ASSUME NEW n \in Nat, 1 <= n
      PROVE  SubSeq(s, n, Len(s)) \in Seq(S)
  <2>1. \A j \in n .. Len(s) : s[j] \in S
    BY <1>3
  <2> QED
    BY <1>3, <2>1
<1> QED
  BY <1>1, <1>2, <1>3

\* So does taking over what any split returned.
LEMMA ChildResult ==
    ASSUME NEW lo, NEW hi, NEW level, Bounded(nodes, lo, hi, level),
           NEW n \in DOMAIN nodes, Valid(nodes, lo, hi, level, n), ~IsLeaf(nodes[n]),
           NEW key \in Keys, NEW below \in Results, below.split = TRUE
    PROVE  InsertChild(n, ChildIndex(nodes[n].keys, key), below) \in Results
<1> DEFINE i == ChildIndex(nodes[n].keys, key)
           at == i + 1
           old == nodes[n].keys
           olds == nodes[n].children
           separator == below.separator
           new == Len(below.nodes)
           keys == InsertAt(old, i, separator)
           children == InsertAt(olds, at, new)
           middle == Len(keys) \div 2 + 1
           before == middle - 1
           behind == middle + 1
           left == Inner(SubSeq(keys, 1, before), SubSeq(children, 1, middle))
           right == Inner(SubSeq(keys, behind, Len(keys)), SubSeq(children, behind, Len(children)))
           whole == Inner(keys, children)
           r == InsertChild(n, i, below)
<1>1. below.nodes \in Seq(NodeSet) /\ separator \in Keys /\ new \in Nat
  BY ResultFacts
<1>2. /\ old \in Seq(Keys) /\ olds \in Seq(Nat)
      /\ Len(old) \in 1 .. MaxKeys /\ Len(olds) = Len(old) + 1
  <2>1. nodes[n] \in NodeSet
    BY BoundedFacts
  <2> QED
    BY <2>1, NodeFacts DEF Valid, ValidInner, Shares
<1>3. i \in 1 .. Len(olds)
  BY ChildFacts
<1>4. r = IF Len(keys) <= MaxKeys
          THEN Whole([below.nodes EXCEPT ![n] = whole])
          ELSE Split(Append([below.nodes EXCEPT ![n] = left], right), keys[middle])
  BY DEF InsertChild
<1>5. i \in 1 .. Len(old) + 1 /\ at \in 1 .. Len(olds) + 1
  <2> HIDE DEF i, old, olds
  <2> QED
    BY <1>2, <1>3
<1> HIDE DEF i, at, old, olds, separator, new, r
<1>6. keys \in Seq(Keys) /\ Len(keys) = Len(old) + 1
  <2>1. Inserted(Keys, old, i, separator)
    BY <1>1, <1>2, <1>5, InsertAtFacts
  <2> QED
    BY <2>1 DEF Inserted
<1>7. children \in Seq(Nat) /\ Len(children) = Len(olds) + 1
  <2> DEFINE Numbers == Nat
  <2>1. olds \in Seq(Numbers) /\ new \in Numbers
    BY <1>1, <1>2
  <2> HIDE DEF Numbers
  <2>2. Inserted(Numbers, olds, at, new)
    BY <1>5, <2>1, InsertAtFacts
  <2> QED
    BY <2>2 DEF Inserted, Numbers
<1> HIDE DEF keys, children
<1>8. CASE Len(keys) <= MaxKeys
  <2>1. whole \in NodeSet
    BY <1>6, <1>7, InnerFacts
  <2> HIDE DEF whole
  <2>2. [below.nodes EXCEPT ![n] = whole] \in Seq(NodeSet)
    BY <1>1, <2>1, SequenceParts
  <2>3. r \in Results
    BY <1>4, <1>8, <2>2, ResultFacts
  <2> QED
    BY <2>3 DEF r, i
<1>9. CASE ~(Len(keys) <= MaxKeys)
  <2>1. Len(keys) = MaxKeys + 1 /\ Len(children) = MaxKeys + 2 /\ MaxKeys \in Nat
    BY <1>2, <1>6, <1>7, <1>9, TreeAssumption
  <2>2. middle \in 1 .. Len(keys) /\ middle - 1 \in 1 .. MaxKeys /\ Len(keys) - middle \in 1 .. MaxKeys
    BY <2>1, MiddleFacts
  <2> HIDE DEF middle
  <2>3. /\ before \in Nat /\ before <= Len(keys) /\ middle \in Nat /\ middle <= Len(children)
        /\ behind \in Nat /\ 1 <= behind
    BY <2>1, <2>2
  <2> HIDE DEF before, behind
  <2>4. left \in NodeSet /\ right \in NodeSet
    <3>1. SubSeq(keys, 1, before) \in Seq(Keys) /\ SubSeq(keys, behind, Len(keys)) \in Seq(Keys)
      BY <1>6, <2>3, SequenceParts
    <3>2. SubSeq(children, 1, middle) \in Seq(Nat) /\ SubSeq(children, behind, Len(children)) \in Seq(Nat)
      BY <1>7, <2>3, SequenceParts
    <3> QED
      BY <3>1, <3>2, InnerFacts
  <2> HIDE DEF left, right
  <2> DEFINE m2 == Append([below.nodes EXCEPT ![n] = left], right)
  <2>5. m2 \in Seq(NodeSet)
    <3>1. [below.nodes EXCEPT ![n] = left] \in Seq(NodeSet)
      BY <1>1, <2>4, SequenceParts
    <3> QED
      BY <2>4, <3>1
  <2>6. r = Split(m2, keys[middle])
    BY <1>4, <1>9
  <2>7. keys[middle] \in Keys
    BY <1>6, <2>2
  <2> HIDE DEF m2
  <2>8. r \in Results
    BY <2>5, <2>6, <2>7, ResultFacts
  <2> QED
    BY <2>8 DEF r, i
<1> QED
  BY <1>8, <1>9

\* Insertion descends to the leaf of the key and comes back with splits up to the root.
LEMMA InsertNodeGrows ==
    ASSUME NEW lo, NEW hi, NEW level, Tree(nodes, root, lo, hi, level),
           NEW key \in Keys, NEW id \in Ids
    PROVE  \E lo2, hi2, level2 :
             Grows(root, InsertNode(key, id), key, id, lo, hi, level, lo2, hi2, level2)
<1> DEFINE D == DOMAIN nodes
           Child(x) == nodes[x].children[ChildIndex(nodes[x].keys, key)]
           Joined(x, below) == IF below.split
                               THEN InsertChild(x, ChildIndex(nodes[x].keys, key), below)
                               ELSE below
           Value(x, f) == IF IsLeaf(nodes[x]) THEN InsertLeaf(x, key, id)
                          ELSE Joined(x, f[Child(x)])
<1>1. Bounded(nodes, lo, hi, level) /\ \A x \in D : Valid(nodes, lo, hi, level, x)
  BY DEF Tree
<1>2. root \in D /\ lo[root] = 0 /\ hi[root] = MaxKey + 1 /\ \A x \in D : level[x] <= level[root]
  BY DEF Tree, Rooted
<1>3. \A x \in D : ~IsLeaf(nodes[x]) =>
        /\ Child(x) \in D /\ level[Child(x)] < level[x]
        /\ lo[x] <= key => lo[Child(x)] <= key
        /\ key < hi[x] => key < hi[Child(x)]
  BY <1>1, ChildFacts
<1>4. level \in [D -> Nat] /\ level[root] \in Nat
  BY <1>1, <1>2, BoundedFacts
<1>5. \A x \in D : IsLeaf(nodes[x]) => InsertLeaf(x, key, id) \in Results
  BY <1>1, LeafResult
<1>6. ASSUME NEW x \in D, ~IsLeaf(nodes[x]), NEW below \in Results
      PROVE  Joined(x, below) \in Results
  <2>1. CASE below.split = TRUE
    BY <1>1, <1>6, <2>1, ChildResult
  <2>2. CASE below.split = FALSE
    BY <2>2
  <2> QED
    BY <2>1, <2>2, ResultFacts
<1>7. Results # {}
  <2>1. nodes \in Seq(NodeSet)
    BY <1>1, BoundedFacts
  <2> QED
    BY <2>1, ResultFacts
<1>8. \A x \in D : ~IsLeaf(nodes[x]) => Child(x) = ChildOf(x, key)
  BY DEF ChildOf
<1>9. InsertNode(key, id) = (CHOOSE f : f = [x \in D |-> Value(x, f)])[root]
  BY DEF InsertNode
<1> HIDE DEF D, Child, Joined
<1>10. \A x \in D, f \in [D -> Results] : Value(x, f) \in Results
  BY <1>3, <1>5, <1>6
<1>11. ASSUME NEW x \in D, NEW f \in [D -> Results], NEW g \in [D -> Results],
             \A y \in D : level[y] < level[x] => f[y] = g[y]
      PROVE  Value(x, f) = Value(x, g)
  BY <1>3, <1>11
<1> HIDE DEF Value
<1> DEFINE F == [p \in D \X [D -> Results] |-> Value(p[1], p[2])]
<1>12. F \in [D \X [D -> Results] -> Results]
  <2>1. ASSUME NEW p \in D \X [D -> Results]
        PROVE  Value(p[1], p[2]) \in Results
    <3>1. p[1] \in D /\ p[2] \in [D -> Results]
      BY <2>1
    <3> QED
      BY <1>10, <3>1
  <2> QED
    BY <2>1
<1>13. \A x \in D, f \in [D -> Results] : F[<<x, f>>] = Value(x, f)
  OBVIOUS
<1> HIDE DEF F
<1>14. \E f \in [D -> Results] : f = [x \in D |-> F[<<x, f>>]]
  <2>1. \A x \in D : level[x] <= level[root]
    BY <1>2
  <2>2. \A x \in D : \A f, g \in [D -> Results] :
          (\A y \in D : level[y] < level[x] => f[y] = g[y]) => F[<<x, f>>] = F[<<x, g>>]
    BY <1>11, <1>13
  <2>3. Descent(D, Results, level, level[root], F)
    BY <1>4, <1>7, <1>12, <2>1, <2>2 DEF Descent
  <2> QED
    BY <2>3, Recursion
<1> DEFINE Descends(f) == f = [x \in D |-> Value(x, f)]
           into == CHOOSE f : Descends(f)
<1>15. \E f : Descends(f)
  <2>1. PICK f \in [D -> Results] : f = [x \in D |-> F[<<x, f>>]]
    BY <1>14
  <2>2. [x \in D |-> F[<<x, f>>]] = [x \in D |-> Value(x, f)]
    BY <1>13
  <2>3. Descends(f)
    BY <2>1, <2>2
  <2> QED
    BY <2>3
<1>16. Descends(into)
  <2> HIDE DEF Descends
  <2> QED
    BY <1>15
<1>17. InsertNode(key, id) = into[root]
  BY <1>9
<1> HIDE DEF into
<1>18. \A x \in D : into[x] = IF IsLeaf(nodes[x]) THEN InsertLeaf(x, key, id)
                              ELSE Joined(x, into[Child(x)])
  <2>1. \A x \in D : into[x] = Value(x, into)
    BY <1>16
  <2> QED
    BY <2>1 DEF Value
<1> HIDE DEF Descends
<1> DEFINE Grown(x, r) == \E lo2, hi2, level2 :
                            Grows(x, r, key, id, lo, hi, level, lo2, hi2, level2)
           Done == {x \in D : lo[x] <= key /\ key < hi[x] => Grown(x, into[x])}
<1>19. ASSUME NEW x \in D, \A y \in D : level[y] < level[x] => y \in Done
       PROVE  x \in Done
  <2> SUFFICES ASSUME lo[x] <= key, key < hi[x]
               PROVE  Grown(x, into[x])
    OBVIOUS
  <2>1. CASE IsLeaf(nodes[x])
    <3>1. into[x] = InsertLeaf(x, key, id)
      BY <1>18, <2>1
    <3>2. Grown(x, InsertLeaf(x, key, id))
      BY <2>1, InsertLeafGrows DEF D
    <3> HIDE DEF Grown
    <3> QED
      BY <3>1, <3>2
  <2>2. CASE ~IsLeaf(nodes[x])
    <3> DEFINE c == Child(x)
    <3>1. c \in D /\ level[c] < level[x] /\ lo[c] <= key /\ key < hi[c]
      BY <1>3, <2>2
    <3>2. into[x] = Joined(x, into[c])
      BY <1>18, <2>2
    <3>3. c = ChildOf(x, key)
      BY <1>8, <2>2
    <3> HIDE DEF c
    <3>4. Grown(c, into[c])
      BY <1>19, <3>1
    <3>5. PICK lo1, hi1, level1 :
            Grows(c, into[c], key, id, lo, hi, level, lo1, hi1, level1)
      BY <3>4
    <3>6. Returned(x, into[c], key, id, lo, hi, level, lo1, hi1, level1)
      BY <2>2, <3>3, <3>5 DEF Returned, D
    <3>7. Grown(x, Joined(x, into[c]))
      BY <3>6, InsertInnerGrows DEF Joined
    <3> HIDE DEF Grown
    <3> QED
      BY <3>2, <3>7
  <2> QED
    BY <2>1, <2>2
<1> HIDE DEF Grown
<1>20. root \in Done
  <2>1. \A x \in D : level[x] <= level[root]
    BY <1>2
  <2>2. \A x \in D : x \in Done
    <3> HIDE DEF Done
    <3> QED
      BY <1>4, <1>19, <2>1, ByLevels
  <2> QED
    BY <1>2, <2>2
<1>21. lo[root] <= key /\ key < hi[root]
  BY <1>2, TreeAssumption DEF Keys
<1>22. Grown(root, into[root])
  BY <1>20, <1>21
<1> QED
  BY <1>17, <1>22 DEF Grown

-----------------------------------------------------------------------------
(* The steps keep the invariant *)

\* No node is beside the root.
LEMMA AloneAtTop ==
    ASSUME NEW lo, NEW hi, NEW level, Tree(nodes, root, lo, hi, level),
           NEW x \in DOMAIN nodes, level[x] = level[root]
    PROVE  x = root
<1>1. Bounded(nodes, lo, hi, level) /\ root \in DOMAIN nodes /\ lo[root] = 0 /\ hi[root] = MaxKey + 1
  BY DEF Tree, Rooted
<1>2. /\ lo[x] \in Bounds /\ hi[x] \in Bounds /\ lo[x] \in Nat /\ hi[x] \in Nat /\ lo[x] < hi[x]
  BY <1>1, BoundedFacts
<1>3. 0 <= lo[x] /\ hi[x] <= MaxKey + 1
  BY <1>2, TreeAssumption DEF Bounds
<1>4. ~(hi[x] <= 0) /\ ~(MaxKey + 1 <= lo[x])
  BY <1>2, <1>3, TreeAssumption
<1>5. x # root => hi[x] <= lo[root] \/ hi[root] <= lo[x]
  BY <1>1 DEF Bounded
<1> QED
  BY <1>1, <1>4, <1>5

\* An insertion that does not split the root leaves it the root.
LEMMA UnsplitTree ==
    ASSUME NEW lo, NEW hi, NEW level, Tree(nodes, root, lo, hi, level),
           NEW r, NEW key, NEW id, NEW lo2, NEW hi2, NEW level2,
           Grows(root, r, key, id, lo, hi, level, lo2, hi2, level2), r.split = FALSE
    PROVE  Tree(r.nodes, root, lo2, hi2, level2)
<1> DEFINE D == DOMAIN nodes
           E == DOMAIN r.nodes
<1>1. /\ Bounded(nodes, lo, hi, level) /\ root \in D /\ lo[root] = 0 /\ hi[root] = MaxKey + 1
      /\ \A x \in D : level[x] <= level[root]
  BY DEF Tree, Rooted
<1>2. /\ Bounded(r.nodes, lo2, hi2, level2) /\ D \subseteq E
      /\ \A x \in D : lo2[x] = lo[x] /\ level2[x] = level[x]
      /\ \A x \in E \ D : level2[x] < level[root]
      /\ hi2[root] = hi[root]
      /\ \A x \in E : level2[x] <= level[root] => Valid(r.nodes, lo2, hi2, level2, x)
      /\ \A x \in E : level2[x] < level[root] => HasParent(r.nodes, x)
  BY DEF Grows
<1>3. \A x \in E : level2[x] \in Nat /\ level[root] \in Nat
  BY <1>1, <1>2, BoundedFacts
<1>4. \A x \in E : level2[x] <= level[root]
  BY <1>1, <1>2, <1>3
<1>5. \A x \in E : x # root => level2[x] < level[root]
  <2> SUFFICES ASSUME NEW x \in E, x # root, ~(level2[x] < level[root])
               PROVE  FALSE
    OBVIOUS
  <2>1. x \in D /\ level[x] = level[root]
    BY <1>2, <1>3, <1>4
  <2> QED
    BY <2>1, AloneAtTop
<1>6. Rooted(r.nodes, root, lo2, hi2, level2)
  BY <1>1, <1>2, <1>4, <1>5 DEF Rooted
<1> QED
  BY <1>2, <1>4, <1>6 DEF Tree

\* When the root is split, a new root takes both halves.
LEMMA SplitTree ==
    ASSUME NEW lo, NEW hi, NEW level, Tree(nodes, root, lo, hi, level),
           NEW r, NEW key, NEW id, NEW lo2, NEW hi2, NEW level2,
           Grows(root, r, key, id, lo, hi, level, lo2, hi2, level2), r.split = TRUE
    PROVE  LET N == Len(r.nodes) + 1
               m == Append(r.nodes, Inner(<<r.separator>>, <<root, Len(r.nodes)>>))
           IN  /\ \E lo3, hi3, level3 : Tree(m, N, lo3, hi3, level3)
               /\ \A k \in Keys, i \in Ids : Has(m, k, i) <=> Has(r.nodes, k, i)
<1> DEFINE D == DOMAIN nodes
           E == DOMAIN r.nodes
           L == Len(r.nodes)
           N == L + 1
           separator == r.separator
           keys == <<separator>>
           children == <<root, L>>
           top == Inner(keys, children)
           m == Append(r.nodes, top)
           above == level[root] + 1
           lo3 == [x \in E \cup {N} |-> IF x = N THEN 0 ELSE lo2[x]]
           hi3 == [x \in E \cup {N} |-> IF x = N THEN MaxKey + 1 ELSE hi2[x]]
           level3 == [x \in E \cup {N} |-> IF x = N THEN above ELSE level2[x]]
<1>1. /\ Bounded(nodes, lo, hi, level) /\ root \in D /\ lo[root] = 0 /\ hi[root] = MaxKey + 1
      /\ \A x \in D : level[x] <= level[root]
  BY DEF Tree, Rooted
<1>2. /\ Bounded(r.nodes, lo2, hi2, level2) /\ D \subseteq E
      /\ \A x \in D : lo2[x] = lo[x] /\ level2[x] = level[x]
      /\ \A x \in E \ D : level2[x] < level[root] \/ (level2[x] = level[root] /\ x = L)
      /\ L \in E \ D /\ separator \in Keys
      /\ hi2[root] = separator /\ lo2[L] = separator
      /\ hi2[L] = hi[root] /\ level2[L] = level[root]
      /\ \A x \in E : level2[x] <= level[root] => Valid(r.nodes, lo2, hi2, level2, x)
      /\ \A x \in E : level2[x] < level[root] => HasParent(r.nodes, x)
  BY DEF Grows
<1>3. /\ r.nodes \in Seq(NodeSet) /\ L \in Nat /\ E = 1 .. L
      /\ lo2 \in [E -> Bounds] /\ hi2 \in [E -> Bounds] /\ level2 \in [E -> Nat]
      /\ \A x \in E : lo2[x] < hi2[x]
      /\ \A x, y \in E : x # y /\ level2[x] = level2[y] => hi2[x] <= lo2[y] \/ hi2[y] <= lo2[x]
      /\ level[root] \in Nat
  BY <1>1, <1>2, BoundedFacts, SMTT(30) DEF Bounded
<1>4. \A x \in E : level2[x] \in Nat /\ level2[x] <= level[root] /\ level2[x] < above
  <2>1. \A x \in E : level2[x] \in Nat /\ level2[x] <= level[root]
    BY <1>1, <1>2, <1>3
  <2> QED
    BY <1>3, <2>1
<1>5. \A x \in E : x # root /\ x # L => level2[x] < level[root]
  <2> SUFFICES ASSUME NEW x \in E, x # root, x # L, ~(level2[x] < level[root])
               PROVE  FALSE
    OBVIOUS
  <2>1. x \in D /\ level[x] = level[root]
    BY <1>2, <1>3, <1>4
  <2> QED
    BY <2>1, AloneAtTop
<1>6. root \in E /\ L \in E /\ root # L /\ N \notin E
  BY <1>1, <1>2, <1>3
<1>7. keys \in Seq(Keys) /\ children \in Seq(Nat)
  BY <1>2, <1>3, <1>6
<1>8. top \in NodeSet /\ ~IsLeaf(top) /\ top.keys = keys /\ top.children = children
  BY <1>7, InnerFacts
<1> HIDE DEF top
<1>9. /\ m \in Seq(NodeSet) /\ Len(m) = N /\ DOMAIN m = E \cup {N} /\ m[N] = top
      /\ \A x \in E : m[x] = r.nodes[x]
  BY <1>3, <1>8
<1>10. /\ lo3 \in [E \cup {N} -> Bounds] /\ hi3 \in [E \cup {N} -> Bounds]
       /\ level3 \in [E \cup {N} -> Nat]
  BY <1>3, TreeAssumption DEF Bounds
<1>11. /\ \A x \in E : lo3[x] = lo2[x] /\ hi3[x] = hi2[x] /\ level3[x] = level2[x]
       /\ lo3[N] = 0 /\ hi3[N] = MaxKey + 1 /\ level3[N] = above
  BY <1>6
<1> HIDE DEF lo3, hi3, level3, m, N
<1>12. Bounded(m, lo3, hi3, level3)
  <2>1. \A x \in DOMAIN m : lo3[x] < hi3[x]
    <3>1. 0 < MaxKey + 1
      BY TreeAssumption
    <3> QED
      BY <1>3, <1>9, <1>11, <3>1
  <2>2. \A x \in E : level3[x] # level3[N]
    BY <1>3, <1>4, <1>11
  <2>3. \A x, y \in DOMAIN m :
          x # y /\ level3[x] = level3[y] => hi3[x] <= lo3[y] \/ hi3[y] <= lo3[x]
    BY <1>3, <1>9, <1>11, <2>2
  <2> QED
    BY <1>9, <1>10, <2>1, <2>3 DEF Bounded
<1>13. Valid(m, lo3, hi3, level3, N)
  <2>1. Len(keys) = 1 /\ Len(children) = 2 /\ keys[1] = separator
        /\ children[1] = root /\ children[2] = L
    OBVIOUS
  <2>2. /\ lo3[root] = 0 /\ hi3[root] = separator /\ level3[root] + 1 = above
        /\ lo3[L] = separator /\ hi3[L] = MaxKey + 1 /\ level3[L] + 1 = above
    BY <1>1, <1>2, <1>6, <1>11
  <2> HIDE DEF keys, children
  <2>3. Len(children) = Len(keys) + 1
    BY <2>1
  <2>4. \A i, j \in 1 .. Len(keys) : i < j => keys[i] < keys[j]
    BY <2>1
  <2>5. ASSUME NEW i \in 1 .. Len(children)
        PROVE  /\ children[i] \in DOMAIN m
               /\ level3[children[i]] + 1 = above
               /\ lo3[children[i]] = IF i = 1 THEN 0 ELSE keys[i - 1]
               /\ hi3[children[i]] = IF i = Len(children) THEN MaxKey + 1 ELSE keys[i]
    <3>1. i = 1 \/ i = 2
      BY <2>1
    <3>2. CASE i = 1
      BY <1>6, <1>9, <2>1, <2>2, <3>2
    <3>3. CASE i = 2
      <4>1. i - 1 = 1
        BY <3>3
      <4> QED
        BY <1>6, <1>9, <2>1, <2>2, <3>3, <4>1
    <3> QED
      BY <3>1, <3>2, <3>3
  <2>6. Shares(DOMAIN m, lo3, hi3, level3, keys, children, lo3[N], hi3[N], level3[N])
    BY <1>11, <2>3, <2>4, <2>5 DEF Shares
  <2>7. Len(keys) \in 1 .. MaxKeys
    BY <2>1, TreeAssumption
  <2> QED
    BY <1>8, <1>9, <2>6, <2>7 DEF Valid, ValidInner
<1>14. ASSUME NEW x \in E
       PROVE  Valid(m, lo3, hi3, level3, x)
  <2>1. Valid(r.nodes, lo2, hi2, level2, x)
    BY <1>2, <1>4
  <2>2. ~IsLeaf(r.nodes[x]) => \A i \in 1 .. Len(r.nodes[x].children) : r.nodes[x].children[i] \in E
    BY <2>1 DEF Valid, ValidInner, Shares
  <2>3. ~IsLeaf(r.nodes[x]) => \A i \in 1 .. Len(r.nodes[x].children) :
                                 hi3[r.nodes[x].children[i]] = hi2[r.nodes[x].children[i]]
    BY <1>11, <2>2
  <2> QED
    BY <1>2, <1>9, <1>11, <2>1, <2>3, ValidKept
<1>15. Rooted(m, N, lo3, hi3, level3)
  <2>1. \A x \in DOMAIN m : level3[x] <= level3[N]
    BY <1>3, <1>4, <1>9, <1>11
  <2>2. ASSUME NEW x \in DOMAIN m, x # N
        PROVE  HasParent(m, x)
    <3>1. CASE x = root \/ x = L
      <4>1. \E i \in 1 .. Len(children) : children[i] = x
        <5>1. Len(children) = 2 /\ children[1] = root /\ children[2] = L
          OBVIOUS
        <5> HIDE DEF children
        <5> QED
          BY <3>1, <5>1
      <4> QED
        BY <1>8, <1>9, <4>1, ZenonT(40) DEF HasParent
    <3>2. CASE x # root /\ x # L
      <4>1. HasParent(r.nodes, x)
        BY <1>2, <1>5, <1>9, <2>2, <3>2
      <4> QED
        BY <1>9, <4>1 DEF HasParent
    <3> QED
      BY <3>1, <3>2
  <2> QED
    BY <1>9, <1>11, <2>1, <2>2 DEF Rooted
<1>16. Tree(m, N, lo3, hi3, level3)
  BY <1>9, <1>12, <1>13, <1>14, <1>15 DEF Tree
<1>17. \A k \in Keys, i \in Ids : Has(m, k, i) <=> Has(r.nodes, k, i)
  BY <1>8, <1>9 DEF Has, Holds
<1>18. \E a, b, c : Tree(m, N, a, b, c)
  BY <1>16
<1> QED
  BY <1>17, <1>18 DEF m, N, top

\* An insertion adds its pair to the tree and keeps its shape.
LEMMA InsertKeeps ==
    ASSUME IndInv, NEW pair \in Storable, InsertPair(pair[1], pair[2])
    PROVE  IndInv'
<1> DEFINE key == pair[1]
           id == pair[2]
           done == InsertNode(key, id)
<1>1. key \in Keys /\ id \in Ids /\ pair = <<key, id>>
  BY TreeAssumption
<1>2. PICK lo, hi, level : Tree(nodes, root, lo, hi, level)
  BY DEF IndInv
<1>3. PICK lo2, hi2, level2 : Grows(root, done, key, id, lo, hi, level, lo2, hi2, level2)
  BY <1>1, <1>2, InsertNodeGrows
<1>4. /\ IF done.split
         THEN /\ nodes' = Append(done.nodes, Inner(<<done.separator>>, <<root, Len(done.nodes)>>))
              /\ root' = Len(done.nodes) + 1
         ELSE nodes' = done.nodes /\ root' = root
      /\ pairs' = pairs \cup {<<key, id>>} /\ removals' = removals
  BY DEF InsertPair
<1> HIDE DEF done, key, id
<1>5. done.split \in BOOLEAN
  BY <1>3 DEF Grows
<1>6. /\ \E lo3, hi3, level3 : Tree(nodes', root', lo3, hi3, level3)
      /\ \A k \in Keys, i \in Ids : Has(nodes', k, i) <=> Has(done.nodes, k, i)
  <2>1. CASE done.split = FALSE
    <3>1. nodes' = done.nodes /\ root' = root
      BY <1>4, <2>1
    <3>2. Tree(done.nodes, root, lo2, hi2, level2)
      BY <1>2, <1>3, <2>1, UnsplitTree
    <3> QED
      BY <3>1, <3>2
  <2>2. CASE done.split = TRUE
    <3>1. /\ nodes' = Append(done.nodes, Inner(<<done.separator>>, <<root, Len(done.nodes)>>))
          /\ root' = Len(done.nodes) + 1
      BY <1>4, <2>2
    <3> QED
      BY <1>2, <1>3, <2>2, <3>1, SplitTree
  <2> QED
    BY <1>5, <2>1, <2>2
<1>7. \A k \in Keys, i \in Ids : Has(done.nodes, k, i) <=> Has(nodes, k, i) \/ (k = key /\ i = id)
  BY <1>3 DEF Grows
<1>8. \A k \in Keys, i \in Ids : <<k, i>> \in pairs' <=> Has(nodes', k, i)
  <2>1. \A k \in Keys, i \in Ids : <<k, i>> \in pairs <=> Has(nodes, k, i)
    BY DEF IndInv
  <2>2. \A k, i : <<k, i>> \in pairs' <=> <<k, i>> \in pairs \/ (k = key /\ i = id)
    BY <1>4
  <2> QED
    BY <1>6, <1>7, <2>1, <2>2
<1>9. pairs' \subseteq Storable /\ removals' \in 0 .. MaxRemovals
  BY <1>1, <1>4 DEF IndInv
<1> QED
  BY <1>6, <1>8, <1>9 DEF IndInv

\* A removal takes its pair out of the leaf of its key, which keeps its place, be
\* it empty.
LEMMA RemoveKeeps ==
    ASSUME IndInv, NEW pair \in Removable, RemovePair(pair[1], pair[2])
    PROVE  IndInv'
<1> DEFINE key == pair[1]
           id == pair[2]
           n == FindLeaf(key)
           old == nodes[n].ids
           left == old[key] \ {id}
           ids == IF left = {} THEN Restrict(old, DOMAIN old \ {key}) ELSE [old EXCEPT ![key] = left]
           new == Leaf(ids, nodes[n].next)
           m == [nodes EXCEPT ![n] = new]
<1>1. key \in Keys /\ id \in Ids /\ pair = <<key, id>>
  BY TreeAssumption
<1>2. PICK lo, hi, level : Tree(nodes, root, lo, hi, level)
  BY DEF IndInv
<1>3. n \in DOMAIN nodes /\ IsLeaf(nodes[n])
  BY <1>1, <1>2, FindLeafFacts
<1>4. /\ removals < MaxRemovals /\ id \in Get(key) /\ nodes' = m /\ root' = root
      /\ pairs' = pairs \ {<<key, id>>} /\ removals' = removals + 1
  BY DEF RemovePair
<1>5. key \in DOMAIN old /\ id \in old[key]
  BY <1>4 DEF Get, IdsUnder
<1>6. ASSUME NEW x \in DOMAIN nodes, IsLeaf(nodes[x]), key \in DOMAIN nodes[x].ids
      PROVE  x = n
  BY <1>1, <1>2, <1>6, OneLeaf
<1>7. /\ Bounded(nodes, lo, hi, level) /\ \A x \in DOMAIN nodes : Valid(nodes, lo, hi, level, x)
      /\ Rooted(nodes, root, lo, hi, level)
  BY <1>2 DEF Tree
<1> HIDE DEF key, id, n, m
<1>8. /\ nodes \in Seq(NodeSet) /\ nodes[n].next \in Nat
      /\ DOMAIN old \in SUBSET Keys /\ old \in [DOMAIN old -> SUBSET Ids]
  BY <1>3, <1>7, BoundedFacts, NodeFacts
<1> HIDE DEF old
<1>9. /\ DOMAIN ids \subseteq DOMAIN old /\ ids \in [DOMAIN ids -> SUBSET Ids]
      /\ \A k \in DOMAIN ids : ids[k] = IF k = key THEN left ELSE old[k]
      /\ \A k \in DOMAIN old : k \in DOMAIN ids <=> ~(k = key /\ left = {})
  <2>1. CASE left = {}
    <3>1. ids = [k \in DOMAIN old \ {key} |-> old[k]]
      BY <2>1 DEF Restrict
    <3> HIDE DEF ids
    <3> QED
      BY <1>8, <2>1, <3>1
  <2>2. CASE left # {}
    <3>1. ids = [old EXCEPT ![key] = left]
      BY <2>2
    <3>2. left \in SUBSET Ids
      BY <1>5, <1>8
    <3> HIDE DEF ids, left
    <3> QED
      BY <1>5, <1>8, <2>2, <3>1, <3>2
  <2> QED
    BY <2>1, <2>2
<1>10. \A k, i : k \in DOMAIN ids /\ i \in ids[k] <=>
                   k \in DOMAIN old /\ i \in old[k] /\ ~(k = key /\ i = id)
  <2> HIDE DEF ids
  <2> QED
    BY <1>5, <1>9
<1> HIDE DEF ids
<1>11. /\ new \in NodeSet /\ IsLeaf(new) /\ new.ids = ids /\ new.next = nodes[n].next
  BY <1>8, <1>9, LeafFacts
<1> HIDE DEF new
<1>12. /\ m \in Seq(NodeSet) /\ DOMAIN m = DOMAIN nodes /\ m[n] = new
       /\ \A x \in DOMAIN nodes : x # n => m[x] = nodes[x]
  BY <1>3, <1>8, <1>11 DEF m
<1>13. Bounded(m, lo, hi, level)
  BY <1>7, <1>12 DEF Bounded
<1>14. Valid(m, lo, hi, level, n)
  <2>1. ValidLeaf(nodes, lo, hi, level, n)
    BY <1>3, <1>7 DEF Valid
  <2>2. Cardinality(DOMAIN ids) <= MaxKeys
    <3>1. Cardinality(DOMAIN old) <= MaxKeys
      BY <2>1 DEF ValidLeaf, old
    <3>2. /\ IsFiniteSet(DOMAIN old) /\ Cardinality(DOMAIN old) \in Nat
          /\ DOMAIN ids \in SUBSET Keys
      BY <1>8, <1>9, KeySets
    <3>3. Cardinality(DOMAIN ids) \in Nat
      BY <3>2, KeySets
    <3>4. Cardinality(DOMAIN ids) <= Cardinality(DOMAIN old)
      BY <1>9, <3>2, FS_Subset
    <3> QED
      BY <3>1, <3>2, <3>3, <3>4, TreeAssumption
  <2>3. \A k \in DOMAIN ids : lo[n] <= k /\ k < hi[n] /\ ids[k] # {}
    <3>1. \A k \in DOMAIN old : lo[n] <= k /\ k < hi[n] /\ old[k] # {}
      BY <2>1 DEF ValidLeaf, old
    <3> QED
      BY <1>9, <3>1
  <2> QED
    BY <1>11, <1>12, <2>1, <2>2, <2>3 DEF Valid, ValidLeaf
<1>15. ASSUME NEW x \in DOMAIN m
       PROVE  Valid(m, lo, hi, level, x)
  <2>1. CASE x = n
    BY <1>14, <2>1
  <2>2. CASE x # n
    BY <1>7, <1>12, <2>2, ValidKept
  <2> QED
    BY <2>1, <2>2
<1>16. Rooted(m, root, lo, hi, level)
  <2>1. ASSUME NEW x \in DOMAIN m, x # root
        PROVE  HasParent(m, x)
    <3>1. PICK p \in DOMAIN nodes :
            ~IsLeaf(nodes[p]) /\ \E i \in 1 .. Len(nodes[p].children) : nodes[p].children[i] = x
      BY <1>7, <1>12, <2>1 DEF Rooted, HasParent
    <3>2. p # n
      BY <1>3, <3>1
    <3> QED
      BY <1>12, <3>1, <3>2 DEF HasParent
  <2> QED
    BY <1>7, <1>12, <2>1 DEF Rooted
<1>17. Tree(m, root, lo, hi, level)
  BY <1>13, <1>15, <1>16 DEF Tree
<1>18. ASSUME NEW k \in Keys, NEW i \in Ids
       PROVE  Has(m, k, i) <=> Has(nodes, k, i) /\ ~(k = key /\ i = id)
  <2>1. Holds(m[n], k, i) <=> Holds(nodes[n], k, i) /\ ~(k = key /\ i = id)
    BY <1>3, <1>10, <1>11, <1>12 DEF Holds, old
  <2>2. Has(m, k, i) <=> \/ Holds(m[n], k, i)
                         \/ \E x \in DOMAIN nodes : x # n /\ Holds(nodes[x], k, i)
    BY <1>3, <1>12, HasReplaced
  <2>3. \A x \in DOMAIN nodes : x # n => ~Holds(nodes[x], key, id)
    BY <1>6 DEF Holds
  <2>4. Has(nodes, k, i) <=> \/ Holds(nodes[n], k, i)
                             \/ \E x \in DOMAIN nodes : x # n /\ Holds(nodes[x], k, i)
    BY <1>3 DEF Has
  <2> QED
    BY <2>1, <2>2, <2>3, <2>4
<1>19. \A k \in Keys, i \in Ids : <<k, i>> \in pairs' <=> Has(nodes', k, i)
  <2>1. \A k \in Keys, i \in Ids : <<k, i>> \in pairs <=> Has(nodes, k, i)
    BY DEF IndInv
  <2>2. \A k, i : <<k, i>> \in pairs' <=> <<k, i>> \in pairs /\ ~(k = key /\ i = id)
    BY <1>4
  <2> QED
    BY <1>4, <1>18, <2>1, <2>2
<1>20. pairs' \subseteq Storable /\ removals' \in 0 .. MaxRemovals
  BY <1>4, TreeAssumption DEF IndInv
<1>21. \E a, b, c : Tree(nodes', root', a, b, c)
  BY <1>4, <1>17
<1> QED
  BY <1>19, <1>20, <1>21 DEF IndInv

\* The tree of new and empty indexes is one leaf.
LEMMA InitIndInv ==
    ASSUME Init
    PROVE  IndInv
<1> DEFINE leaf == Leaf(<<>>, NoLeaf)
           lo == [x \in {1} |-> 0]
           hi == [x \in {1} |-> MaxKey + 1]
           level == [x \in {1} |-> 0]
<1>1. nodes = <<leaf>> /\ root = 1 /\ pairs = {} /\ removals = 0
  BY DEF Init
<1>2. leaf \in NodeSet /\ IsLeaf(leaf) /\ leaf.ids = <<>> /\ leaf.next = NoLeaf
  <2>1. <<>> \in [{} -> SUBSET Ids] /\ {} \in SUBSET Keys /\ NoLeaf \in Nat
    BY DEF NoLeaf
  <2> QED
    BY <2>1, LeafFacts
<1>3. DOMAIN leaf.ids = {}
  BY <1>2
<1> HIDE DEF leaf
<1>4. nodes \in Seq(NodeSet) /\ DOMAIN nodes = {1} /\ nodes[1] = leaf
  BY <1>1, <1>2
<1>5. /\ lo \in [{1} -> Bounds] /\ hi \in [{1} -> Bounds] /\ level \in [{1} -> Nat]
      /\ lo[1] = 0 /\ hi[1] = MaxKey + 1 /\ level[1] = 0 /\ 0 < MaxKey + 1
  BY TreeAssumption DEF Bounds
<1> HIDE DEF lo, hi, level
<1>6. Bounded(nodes, lo, hi, level)
  BY <1>4, <1>5 DEF Bounded
<1>7. Valid(nodes, lo, hi, level, 1)
  <2>1. Cardinality(DOMAIN leaf.ids) <= MaxKeys
    BY <1>3, FS_EmptySet, TreeAssumption
  <2> QED
    BY <1>2, <1>3, <1>4, <1>5, <2>1 DEF Valid, ValidLeaf
<1>8. Rooted(nodes, root, lo, hi, level)
  BY <1>1, <1>4, <1>5 DEF Rooted
<1>9. Tree(nodes, root, lo, hi, level)
  BY <1>4, <1>6, <1>7, <1>8 DEF Tree
<1>10. \A key \in Keys, id \in Ids : <<key, id>> \in pairs <=> Has(nodes, key, id)
  BY <1>1, <1>3, <1>4 DEF Has, Holds
<1> QED
  BY <1>1, <1>9, <1>10, TreeAssumption DEF IndInv

\* Every step keeps the inductive invariant.
LEMMA StepIndInv ==
    ASSUME IndInv, [Next]_vars
    PROVE  IndInv'
<1>1. ASSUME NEW pair \in Storable, InsertPair(pair[1], pair[2])
      PROVE  IndInv'
  BY <1>1, InsertKeeps
<1>2. ASSUME NEW pair \in Removable, RemovePair(pair[1], pair[2])
      PROVE  IndInv'
  BY <1>2, RemoveKeeps
<1>3. ASSUME UNCHANGED vars
      PROVE  IndInv'
  BY <1>3 DEF vars, IndInv
<1> QED
  BY <1>1, <1>2, <1>3 DEF Next

\* Whatever is inserted and removed, the nodes make a balanced tree whose leaves
\* hold exactly the pairs that were inserted and not removed: insert, its splits
\* and remove of nova-index.
THEOREM Invariance == Spec => []IndInv
<1>1. Init => IndInv
  BY InitIndInv
<1>2. IndInv /\ [Next]_vars => IndInv'
  BY StepIndInv
<1> QED
  BY <1>1, <1>2, PTL DEF Spec

-----------------------------------------------------------------------------
(* What verify checks *)

\* The nodes of a tree have the types the index relies on.
LEMMA TreeTypes ==
    ASSUME IndInv
    PROVE  TypeOK
<1>1. PICK lo, hi, level : Tree(nodes, root, lo, hi, level)
  BY DEF IndInv
<1>2. /\ Bounded(nodes, lo, hi, level) /\ \A x \in DOMAIN nodes : Valid(nodes, lo, hi, level, x)
      /\ root \in DOMAIN nodes
  BY <1>1 DEF Tree, Rooted
<1>3. DOMAIN nodes = 1 .. Len(nodes) /\ Len(nodes) \in Nat
  BY <1>2, BoundedFacts
<1>4. ASSUME NEW n \in DOMAIN nodes, IsLeaf(nodes[n])
      PROVE  /\ DOMAIN nodes[n].ids \subseteq Keys
             /\ \A key \in DOMAIN nodes[n].ids :
                  nodes[n].ids[key] \subseteq Ids /\ nodes[n].ids[key] # {}
             /\ nodes[n].next \in 0 .. Len(nodes)
  <2>1. /\ DOMAIN nodes[n].ids \in SUBSET Keys
        /\ nodes[n].ids \in [DOMAIN nodes[n].ids -> SUBSET Ids]
    BY <1>2, <1>4, BoundedFacts, NodeFacts
  <2>2. \A key \in DOMAIN nodes[n].ids : nodes[n].ids[key] \in SUBSET Ids
    BY <2>1
  <2>3. /\ \A key \in DOMAIN nodes[n].ids : nodes[n].ids[key] # {}
        /\ nodes[n].next = NoLeaf \/ nodes[n].next \in DOMAIN nodes
    BY <1>2, <1>4 DEF Valid, ValidLeaf
  <2>4. nodes[n].next \in 0 .. Len(nodes)
    BY <1>3, <2>3 DEF NoLeaf
  <2> QED
    BY <2>1, <2>2, <2>3, <2>4
<1>5. ASSUME NEW n \in DOMAIN nodes, ~IsLeaf(nodes[n])
      PROVE  nodes[n].keys \in Seq(Keys) /\ nodes[n].children \in Seq(DOMAIN nodes)
  <2> DEFINE children == nodes[n].children
  <2>1. nodes[n].keys \in Seq(Keys) /\ children \in Seq(Nat)
    BY <1>2, <1>5, BoundedFacts, NodeFacts
  <2>2. \A i \in 1 .. Len(children) : children[i] \in DOMAIN nodes
    BY <1>2, <1>5 DEF Valid, ValidInner, Shares
  <2> HIDE DEF children
  <2>3. children \in [1 .. Len(children) -> DOMAIN nodes] /\ Len(children) \in Nat
    BY <2>1, <2>2
  <2>4. children \in Seq(DOMAIN nodes)
    BY <2>3
  <2> QED
    BY <2>1, <2>4 DEF children
<1>6. \A n \in DOMAIN nodes :
        IF IsLeaf(nodes[n])
        THEN /\ DOMAIN nodes[n].ids \subseteq Keys
             /\ \A key \in DOMAIN nodes[n].ids :
                  nodes[n].ids[key] \subseteq Ids /\ nodes[n].ids[key] # {}
             /\ nodes[n].next \in 0 .. Len(nodes)
        ELSE nodes[n].keys \in Seq(Keys) /\ nodes[n].children \in Seq(DOMAIN nodes)
  BY <1>4, <1>5
<1>7. pairs \subseteq Storable /\ removals \in 0 .. MaxRemovals
  BY DEF IndInv
<1> QED
  BY <1>2, <1>6, <1>7 DEF TypeOK

\* verify_node finds capacities, order and bounds in place at every node.
LEMMA TreeWithinBounds ==
    ASSUME NEW lo, NEW hi, NEW level, Tree(nodes, root, lo, hi, level)
    PROVE  WithinBounds
<1> DEFINE D == DOMAIN nodes
           B == 0 .. MaxKey + 1
           T == D \X B \X B
           keys(x) == nodes[x].keys
           children(x) == nodes[x].children
           Below(p, i) == <<children(p[1])[i],
                            IF i = 1 THEN p[2] ELSE keys(p[1])[i - 1],
                            IF i = Len(children(p[1])) THEN p[3] ELSE keys(p[1])[i]>>
           Sized(p) == /\ Cardinality(DOMAIN nodes[p[1]].ids) <= MaxKeys
                       /\ \A key \in DOMAIN nodes[p[1]].ids : p[2] <= key /\ key < p[3]
           Shaped(x) == /\ keys(x) # <<>> /\ Len(keys(x)) <= MaxKeys
                        /\ Len(children(x)) = Len(keys(x)) + 1
                        /\ Increasing(keys(x))
           Holding(p, f) == IF IsLeaf(nodes[p[1]]) THEN Sized(p)
                            ELSE Shaped(p[1]) /\ \A i \in DOMAIN children(p[1]) : f[Below(p, i)]
<1>1. /\ Bounded(nodes, lo, hi, level) /\ \A x \in D : Valid(nodes, lo, hi, level, x)
      /\ root \in D /\ lo[root] = 0 /\ hi[root] = MaxKey + 1
      /\ \A x \in D : level[x] <= level[root]
  BY DEF Tree, Rooted
<1>2. /\ level \in [D -> Nat] /\ level[root] \in Nat
      /\ \A x \in D : lo[x] \in B /\ hi[x] \in B /\ nodes[x] \in NodeSet
  BY <1>1, BoundedFacts DEF Bounds
<1> DEFINE Checks(f) == f = [p \in T |-> Holding(p, f)]
           valid == CHOOSE f : Checks(f)
<1>3. WithinBounds = valid[<<root, 0, MaxKey + 1>>]
  BY ZenonT(60) DEF WithinBounds
<1>4. ASSUME NEW x \in D, IsLeaf(nodes[x])
      PROVE  Sized(<<x, lo[x], hi[x]>>)
  <2>1. ValidLeaf(nodes, lo, hi, level, x)
    BY <1>1, <1>4 DEF Valid
  <2> QED
    BY <2>1 DEF ValidLeaf
<1>5. ASSUME NEW x \in D, ~IsLeaf(nodes[x])
      PROVE  /\ Shaped(x)
             /\ DOMAIN children(x) = 1 .. Len(children(x))
             /\ \A i \in DOMAIN children(x) :
                  /\ children(x)[i] \in D /\ level[children(x)[i]] < level[x]
                  /\ Below(<<x, lo[x], hi[x]>>, i) =
                       <<children(x)[i], lo[children(x)[i]], hi[children(x)[i]]>>
                  /\ i # 1 => keys(x)[i - 1] \in B
                  /\ i # Len(children(x)) => keys(x)[i] \in B
  <2> DEFINE k == keys(x)
             c == children(x)
  <2>1. /\ Len(k) \in 1 .. MaxKeys
        /\ Shares(D, lo, hi, level, k, c, lo[x], hi[x], level[x])
    BY <1>1, <1>5 DEF Valid, ValidInner
  <2>2. k \in Seq(Keys) /\ c \in Seq(Nat)
    BY <1>2, <1>5, NodeFacts
  <2> HIDE DEF k, c
  <2>3. /\ Len(c) = Len(k) + 1
        /\ \A i, j \in 1 .. Len(k) : i < j => k[i] < k[j]
        /\ \A i \in 1 .. Len(c) :
             /\ c[i] \in D /\ level[c[i]] + 1 = level[x]
             /\ lo[c[i]] = IF i = 1 THEN lo[x] ELSE k[i - 1]
             /\ hi[c[i]] = IF i = Len(c) THEN hi[x] ELSE k[i]
    BY <2>1 DEF Shares
  <2>4. k # <<>> /\ Len(k) <= MaxKeys /\ Len(k) \in Nat
    BY <2>1, <2>2, TreeAssumption
  <2>5. Increasing(k)
    <3>1. \A i \in 1 .. Len(k) - 1 : i \in 1 .. Len(k) /\ i + 1 \in 1 .. Len(k) /\ i < i + 1
      BY <2>4
    <3> QED
      BY <2>3, <3>1 DEF Increasing
  <2>6. DOMAIN c = 1 .. Len(c)
    BY <2>2
  <2>7. ASSUME NEW i \in 1 .. Len(c)
        PROVE  /\ level[c[i]] < level[x]
               /\ i # 1 => k[i - 1] \in B
               /\ i # Len(c) => k[i] \in B
    <3>1. level[c[i]] \in Nat /\ level[x] \in Nat
      BY <1>2, <2>3
    <3>2. level[c[i]] < level[x]
      BY <2>3, <3>1
    <3>3. i # 1 => k[i - 1] \in Keys
      BY <2>2, <2>3, <2>4
    <3>4. i # Len(c) => k[i] \in Keys
      BY <2>2, <2>3, <2>4
    <3>5. \A key \in Keys : key \in B
      BY TreeAssumption DEF Keys
    <3> QED
      BY <3>2, <3>3, <3>4, <3>5
  <2> QED
    BY <2>3, <2>4, <2>5, <2>6, <2>7 DEF k, c
<1> HIDE DEF B, Sized, Shaped
<1>6. \A p \in T : /\ p[1] \in D /\ p[2] \in B /\ p[3] \in B
                   /\ ~IsLeaf(nodes[p[1]]) => \A i \in DOMAIN children(p[1]) :
                        Below(p, i) \in T /\ level[Below(p, i)[1]] < level[p[1]]
  <2> SUFFICES ASSUME NEW p \in T, ~IsLeaf(nodes[p[1]]), NEW i \in DOMAIN children(p[1])
               PROVE  Below(p, i) \in T /\ level[Below(p, i)[1]] < level[p[1]]
    OBVIOUS
  <2>1. p[1] \in D /\ p[2] \in B /\ p[3] \in B
    OBVIOUS
  <2> DEFINE x == p[1]
             low == IF i = 1 THEN p[2] ELSE keys(x)[i - 1]
             high == IF i = Len(children(x)) THEN p[3] ELSE keys(x)[i]
  <2>2. /\ children(x)[i] \in D /\ level[children(x)[i]] < level[x]
        /\ i # 1 => keys(x)[i - 1] \in B
        /\ i # Len(children(x)) => keys(x)[i] \in B
    BY <1>5, <2>1
  <2>3. low \in B /\ high \in B
    BY <2>1, <2>2
  <2>4. Below(p, i) = <<children(x)[i], low, high>>
    OBVIOUS
  <2> HIDE DEF low, high, Below
  <2> QED
    BY <2>2, <2>3, <2>4
<1> HIDE DEF T, Below
<1> DEFINE rank == [p \in T |-> level[p[1]]]
           F == [q \in T \X [T -> BOOLEAN] |-> Holding(q[1], q[2])]
<1>7. /\ rank \in [T -> Nat] /\ \A p \in T : rank[p] = level[p[1]] /\ rank[p] <= level[root]
  BY <1>1, <1>2, <1>6
<1>8. \A p \in T, f \in [T -> BOOLEAN] : F[<<p, f>>] = Holding(p, f)
  OBVIOUS
<1>9. F \in [T \X [T -> BOOLEAN] -> BOOLEAN]
  <2>1. \A q \in T \X [T -> BOOLEAN] : Holding(q[1], q[2]) \in BOOLEAN
    <3>1. \A p : Sized(p) \in BOOLEAN
      BY DEF Sized
    <3>2. \A p, f : (Shaped(p[1]) /\ \A i \in DOMAIN children(p[1]) : f[Below(p, i)]) \in BOOLEAN
      OBVIOUS
    <3> QED
      BY <3>1, <3>2
  <2> HIDE DEF Holding
  <2> QED
    BY <2>1
<1>10. ASSUME NEW p \in T, NEW f \in [T -> BOOLEAN], NEW g \in [T -> BOOLEAN],
              \A q \in T : rank[q] < rank[p] => f[q] = g[q]
       PROVE  Holding(p, f) = Holding(p, g)
  <2>1. CASE IsLeaf(nodes[p[1]])
    BY <2>1
  <2>2. CASE ~IsLeaf(nodes[p[1]])
    <3>1. \A i \in DOMAIN children(p[1]) : f[Below(p, i)] = g[Below(p, i)]
      BY <1>6, <1>7, <1>10, <2>2
    <3> QED
      BY <2>2, <3>1
  <2> QED
    BY <2>1, <2>2
<1>11. \A f : \A p \in T : Holding(p, f) =
         IF IsLeaf(nodes[p[1]]) THEN Sized(p)
         ELSE Shaped(p[1]) /\ \A i \in DOMAIN children(p[1]) : f[Below(p, i)]
  OBVIOUS
<1> HIDE DEF Holding, F, rank
<1>12. \E f \in [T -> BOOLEAN] : f = [p \in T |-> F[<<p, f>>]]
  <2>1. BOOLEAN # {} /\ \A p \in T : rank[p] <= level[root]
    BY <1>7
  <2>2. \A p \in T : \A f, g \in [T -> BOOLEAN] :
          (\A q \in T : rank[q] < rank[p] => f[q] = g[q]) => F[<<p, f>>] = F[<<p, g>>]
    BY <1>8, <1>10
  <2>3. Descent(T, BOOLEAN, rank, level[root], F)
    BY <1>2, <1>7, <1>9, <2>1, <2>2 DEF Descent
  <2> QED
    BY <2>3, Recursion
<1>13. \E f : Checks(f)
  <2>1. PICK f \in [T -> BOOLEAN] : f = [p \in T |-> F[<<p, f>>]]
    BY <1>12
  <2>2. [p \in T |-> F[<<p, f>>]] = [p \in T |-> Holding(p, f)]
    BY <1>8
  <2>3. Checks(f)
    BY <2>1, <2>2
  <2> QED
    BY <2>3
<1>14. Checks(valid)
  <2> HIDE DEF Checks
  <2> QED
    BY <1>13
<1> HIDE DEF valid
<1>15. \A p \in T : valid[p] = Holding(p, valid)
  BY <1>14
<1> HIDE DEF Checks
<1> DEFINE Passed == {x \in D : valid[<<x, lo[x], hi[x]>>]}
<1>16. ASSUME NEW x \in D, \A y \in D : level[y] < level[x] => y \in Passed
       PROVE  x \in Passed
  <2> DEFINE p == <<x, lo[x], hi[x]>>
  <2>1. p \in T /\ p[1] = x
    BY <1>2 DEF T
  <2>2. Holding(p, valid)
    <3>1. CASE IsLeaf(nodes[x])
      <4>1. Sized(p)
        BY <1>4, <3>1
      <4> HIDE DEF p
      <4> QED
        BY <1>11, <2>1, <3>1, <4>1
    <3>2. CASE ~IsLeaf(nodes[x])
      <4>1. ASSUME NEW i \in DOMAIN children(x)
            PROVE  valid[Below(p, i)]
        <5> DEFINE c == children(x)[i]
        <5>1. c \in D /\ level[c] < level[x] /\ Below(p, i) = <<c, lo[c], hi[c]>>
          BY <1>5, <3>2 DEF Below
        <5> HIDE DEF c
        <5>2. c \in Passed
          BY <1>16, <5>1
        <5> QED
          BY <5>1, <5>2
      <4>2. Shaped(x)
        BY <1>5, <3>2
      <4> HIDE DEF p
      <4> QED
        BY <1>11, <2>1, <3>2, <4>1, <4>2
    <3> QED
      BY <3>1, <3>2
  <2>3. valid[p] = Holding(p, valid)
    BY <1>15, <2>1
  <2> HIDE DEF Holding
  <2> QED
    BY <2>2, <2>3
<1>17. root \in Passed
  <2>1. \A x \in D : x \in Passed
    <3> HIDE DEF Passed, D
    <3> QED
      BY <1>1, <1>2, <1>16, ByLevels
  <2> QED
    BY <1>1, <2>1
<1>18. valid[<<root, 0, MaxKey + 1>>]
  BY <1>1, <1>17
<1> QED
  BY <1>3, <1>18

\* What the checks of verify_shape gather below a node.
BelowOnce(lo, hi, level, visited) ==
    /\ visited \in [DOMAIN nodes -> SUBSET DOMAIN nodes]
    /\ \A x \in DOMAIN nodes :
         visited[x] = {x} \cup IF IsLeaf(nodes[x]) THEN {}
                               ELSE UNION {visited[c] : c \in Range(nodes[x].children)}

\* The children of a node are below it, in shares that have nothing in common.
LEMMA ChildrenFacts ==
    ASSUME NEW lo, NEW hi, NEW level, Tree(nodes, root, lo, hi, level),
           NEW x \in DOMAIN nodes, ~IsLeaf(nodes[x])
    PROVE  LET children == nodes[x].children IN
           /\ DOMAIN children = 1 .. Len(children) /\ 1 \in DOMAIN children
           /\ \A i \in DOMAIN children :
                /\ children[i] \in DOMAIN nodes
                /\ level[children[i]] + 1 = level[x] /\ level[children[i]] < level[x]
                /\ lo[x] <= lo[children[i]] /\ hi[children[i]] <= hi[x]
                /\ \A j \in DOMAIN children :
                     j # i => \/ hi[children[i]] <= lo[children[j]]
                              \/ hi[children[j]] <= lo[children[i]]
           /\ lo[children[1]] = lo[x]
<1> DEFINE D == DOMAIN nodes
           k == nodes[x].keys
           c == nodes[x].children
<1>1. Bounded(nodes, lo, hi, level) /\ Valid(nodes, lo, hi, level, x)
  BY DEF Tree
<1>2. /\ Len(k) \in 1 .. MaxKeys
      /\ Shares(D, lo, hi, level, k, c, lo[x], hi[x], level[x])
  BY <1>1 DEF Valid, ValidInner
<1>3. /\ lo \in [D -> Bounds] /\ hi \in [D -> Bounds] /\ level \in [D -> Nat]
      /\ \A y \in D : lo[y] < hi[y] /\ level[y] \in Nat
      /\ k \in Seq(Keys) /\ c \in Seq(Nat) /\ lo[x] \in Bounds /\ hi[x] \in Bounds
  BY <1>1, BoundedFacts, NodeFacts
<1> HIDE DEF k, c, D
<1>4. /\ Len(c) = Len(k) + 1
      /\ \A i \in 1 .. Len(c) : c[i] \in D /\ level[c[i]] + 1 = level[x]
      /\ \A i \in 1 .. Len(c) : lo[c[i]] = IF i = 1 THEN lo[x] ELSE k[i - 1]
  BY <1>2 DEF Shares
<1>5. /\ \A i \in 1 .. Len(c) : lo[x] <= lo[c[i]] /\ hi[c[i]] <= hi[x]
      /\ \A i, j \in 1 .. Len(c) : i < j => hi[c[i]] <= lo[c[j]]
  BY <1>2, <1>3, SharesFacts
<1>6. DOMAIN c = 1 .. Len(c) /\ 1 \in 1 .. Len(c)
  BY <1>2, <1>3, <1>4
<1>7. \A i \in 1 .. Len(c) : level[c[i]] < level[x]
  <2>1. \A i \in 1 .. Len(c) : level[c[i]] \in Nat /\ level[x] \in Nat
    BY <1>3, <1>4 DEF D
  <2> QED
    BY <1>4, <2>1
<1>8. \A i, j \in 1 .. Len(c) : j # i => hi[c[i]] <= lo[c[j]] \/ hi[c[j]] <= lo[c[i]]
  <2>1. \A i, j \in 1 .. Len(c) : j # i => i < j \/ j < i
    OBVIOUS
  <2> QED
    BY <1>5, <2>1
<1>9. lo[c[1]] = lo[x]
  BY <1>4, <1>6
<1> QED
  BY <1>4, <1>5, <1>6, <1>7, <1>8, <1>9 DEF c, D

\* Every node but the root is a child of one that is a level higher.
LEMMA ParentFacts ==
    ASSUME NEW lo, NEW hi, NEW level, Tree(nodes, root, lo, hi, level),
           NEW x \in DOMAIN nodes, x # root
    PROVE  \E p \in DOMAIN nodes :
             ~IsLeaf(nodes[p]) /\ level[x] < level[p] /\ x \in Range(nodes[p].children)
<1>1. PICK p \in DOMAIN nodes :
        ~IsLeaf(nodes[p]) /\ \E i \in 1 .. Len(nodes[p].children) : nodes[p].children[i] = x
  BY DEF Tree, Rooted, HasParent
<1>2. PICK i \in 1 .. Len(nodes[p].children) : nodes[p].children[i] = x
  BY <1>1
<1>3. /\ DOMAIN nodes[p].children = 1 .. Len(nodes[p].children)
      /\ level[nodes[p].children[i]] < level[p]
  BY <1>1, <1>2, ChildrenFacts
<1> QED
  BY <1>1, <1>2, <1>3 DEF Range

\* The nodes below a node come with it, are of its share and not above it.
LEMMA VisitedFacts ==
    ASSUME NEW lo, NEW hi, NEW level, Tree(nodes, root, lo, hi, level),
           NEW visited, BelowOnce(lo, hi, level, visited)
    PROVE  /\ \A x \in DOMAIN nodes : \A y \in visited[x] :
                /\ y \in DOMAIN nodes /\ level[y] <= level[x]
                /\ lo[x] <= lo[y] /\ hi[y] <= hi[x]
           /\ visited[root] = DOMAIN nodes
<1> DEFINE D == DOMAIN nodes
           Children(x) == Range(nodes[x].children)
<1>1. /\ Bounded(nodes, lo, hi, level) /\ root \in D /\ \A x \in D : level[x] <= level[root]
  BY DEF Tree, Rooted
<1>2. /\ level \in [D -> Nat] /\ level[root] \in Nat
      /\ \A x \in D : lo[x] \in Nat /\ hi[x] \in Nat /\ level[x] \in Nat
  BY <1>1, BoundedFacts
<1>3. \A x \in D : ~IsLeaf(nodes[x]) => \A c \in Children(x) :
        c \in D /\ level[c] < level[x] /\ lo[x] <= lo[c] /\ hi[c] <= hi[x]
  <2> SUFFICES ASSUME NEW x \in D, ~IsLeaf(nodes[x]), NEW c \in Children(x)
               PROVE  c \in D /\ level[c] < level[x] /\ lo[x] <= lo[c] /\ hi[c] <= hi[x]
    OBVIOUS
  <2>1. PICK i \in DOMAIN nodes[x].children : c = nodes[x].children[i]
    BY DEF Range
  <2> QED
    BY <2>1, ChildrenFacts
<1>4. /\ visited \in [D -> SUBSET D]
      /\ \A x \in D : visited[x] = {x} \cup IF IsLeaf(nodes[x]) THEN {}
                                            ELSE UNION {visited[c] : c \in Children(x)}
  BY DEF BelowOnce
<1>5. \A x \in D : x # root =>
        \E p \in D : ~IsLeaf(nodes[p]) /\ level[x] < level[p] /\ x \in Children(p)
  BY ParentFacts
<1> HIDE DEF D, Children
<1>6. \A x \in D : \A y : y \in visited[x] <=>
        y = x \/ (~IsLeaf(nodes[x]) /\ \E c \in Children(x) : y \in visited[c])
  BY <1>4
<1> DEFINE Inside == {x \in D : \A y \in visited[x] :
                        level[y] <= level[x] /\ lo[x] <= lo[y] /\ hi[y] <= hi[x]}
           Closed == {x \in D : \A p \in visited[x] :
                        ~IsLeaf(nodes[p]) => \A c \in Children(p) : c \in visited[x]}
<1>7. ASSUME NEW x \in D, \A y \in D : level[y] < level[x] => y \in Inside
      PROVE  x \in Inside
  <2> SUFFICES ASSUME NEW y \in visited[x]
               PROVE  level[y] <= level[x] /\ lo[x] <= lo[y] /\ hi[y] <= hi[x]
    OBVIOUS
  <2>1. CASE y = x
    BY <1>2, <2>1
  <2>2. CASE y # x
    <3>1. PICK c \in Children(x) : ~IsLeaf(nodes[x]) /\ y \in visited[c]
      BY <1>6, <2>2
    <3>2. c \in D /\ level[c] < level[x] /\ lo[x] <= lo[c] /\ hi[c] <= hi[x]
      BY <1>3, <3>1
    <3>3. level[y] <= level[c] /\ lo[c] <= lo[y] /\ hi[y] <= hi[c] /\ y \in D
      BY <1>4, <1>7, <3>1, <3>2
    <3>4. level[y] <= level[x]
      BY <1>2, <3>2, <3>3
    <3>5. lo[x] <= lo[y] /\ hi[y] <= hi[x]
      BY <1>2, <3>2, <3>3
    <3> QED
      BY <3>4, <3>5
  <2> QED
    BY <2>1, <2>2
<1>8. ASSUME NEW x \in D, \A y \in D : level[y] < level[x] => y \in Closed
      PROVE  x \in Closed
  <2> SUFFICES ASSUME NEW p \in visited[x], ~IsLeaf(nodes[p]), NEW c \in Children(p)
               PROVE  c \in visited[x]
    OBVIOUS
  <2>1. CASE p = x
    <3>1. c \in D /\ c \in visited[c]
      BY <1>3, <1>6, <2>1
    <3> QED
      BY <1>6, <2>1, <3>1
  <2>2. CASE p # x
    <3>1. PICK b \in Children(x) : ~IsLeaf(nodes[x]) /\ p \in visited[b]
      BY <1>6, <2>2
    <3>2. b \in D /\ level[b] < level[x]
      BY <1>3, <3>1
    <3>3. c \in visited[b]
      BY <1>8, <3>1, <3>2
    <3> QED
      BY <1>6, <3>1, <3>3
  <2> QED
    BY <2>1, <2>2
<1>9. \A x \in D : x \in Inside
  <2> HIDE DEF Inside
  <2> QED
    BY <1>1, <1>2, <1>7, ByLevels DEF D
<1>10. \A x \in D : x \in Closed
  <2> HIDE DEF Closed
  <2> QED
    BY <1>1, <1>2, <1>8, ByLevels DEF D
<1> DEFINE depth == [x \in D |-> level[root] - level[x]]
<1>11. /\ depth \in [D -> Nat]
       /\ \A x \in D : depth[x] <= level[root]
       /\ \A x, y \in D : level[x] < level[y] => depth[y] < depth[x]
  <2>1. \A x \in D : level[root] - level[x] \in Nat /\ level[root] - level[x] <= level[root]
    BY <1>1, <1>2 DEF D
  <2>2. \A x, y \in D : level[x] < level[y] => level[root] - level[y] < level[root] - level[x]
    BY <1>2
  <2> QED
    BY <2>1, <2>2
<1> HIDE DEF depth
<1>12. root \in D
  BY <1>1 DEF D
<1>13. ASSUME NEW x \in D, \A y \in D : depth[y] < depth[x] => y \in visited[root]
       PROVE  x \in visited[root]
  <2>1. CASE x = root
    BY <1>6, <1>12, <2>1
  <2>2. CASE x # root
    <3>1. PICK p \in D : ~IsLeaf(nodes[p]) /\ level[x] < level[p] /\ x \in Children(p)
      BY <1>5, <2>2
    <3>2. p \in visited[root]
      BY <1>11, <1>13, <3>1
    <3>3. root \in Closed
      BY <1>10, <1>12
    <3> QED
      BY <3>1, <3>2, <3>3
  <2> QED
    BY <2>1, <2>2
<1>14. \A x \in D : x \in visited[root]
  <2> DEFINE all == visited[root]
  <2>1. \A x \in D : (\A y \in D : depth[y] < depth[x] => y \in all) => x \in all
    BY <1>13
  <2> HIDE DEF all
  <2>2. \A x \in D : x \in all
    BY <1>2, <1>11, <2>1, ByLevels
  <2> QED
    BY <2>2 DEF all
<1>15. \A x \in D : \A y \in visited[x] : y \in D
  BY <1>4
<1>16. visited[root] = D
  BY <1>12, <1>14, <1>15
<1> QED
  BY <1>9, <1>15, <1>16 DEF D

\* verify_shape visits every node once and finds all leaves at one depth.
LEMMA TreeWellShaped ==
    ASSUME NEW lo, NEW hi, NEW level, Tree(nodes, root, lo, hi, level)
    PROVE  WellShaped
<1> DEFINE D == DOMAIN nodes
           Children(x) == Range(nodes[x].children)
           Nodes(x, f) == {x} \cup IF IsLeaf(nodes[x]) THEN {} ELSE UNION {f[c] : c \in Children(x)}
           Depths(x, f) == IF IsLeaf(nodes[x]) THEN {0}
                           ELSE {depth + 1 : depth \in UNION {f[c] : c \in Children(x)}}
           Visits(f) == f = [x \in D |-> Nodes(x, f)]
           Measures(f) == f = [x \in D |-> Depths(x, f)]
           visited == CHOOSE f : Visits(f)
           depths == CHOOSE f : Measures(f)
<1>1. /\ Bounded(nodes, lo, hi, level) /\ root \in D /\ \A x \in D : level[x] <= level[root]
      /\ \A x \in D : Valid(nodes, lo, hi, level, x)
  BY DEF Tree, Rooted
<1>2. /\ level \in [D -> Nat] /\ level[root] \in Nat
      /\ \A x \in D : lo[x] \in Nat /\ hi[x] \in Nat /\ level[x] \in Nat /\ lo[x] < hi[x]
      /\ \A x \in D : IsLeaf(nodes[x]) <=> level[x] = 0
  BY <1>1, BoundedFacts, LeafLevel
<1>3. WellShaped <=>
        /\ visited[root] = D
        /\ \A n \in {m \in D : ~IsLeaf(nodes[m])} :
             \A i \in DOMAIN nodes[n].children :
                /\ n \notin visited[nodes[n].children[i]]
                /\ \A j \in DOMAIN nodes[n].children :
                     j # i => visited[nodes[n].children[i]] \cap visited[nodes[n].children[j]] = {}
        /\ Cardinality(depths[root]) = 1
  BY DEF WellShaped
<1>4. \A x \in D : ~IsLeaf(nodes[x]) =>
        /\ Children(x) # {}
        /\ \A c \in Children(x) : c \in D /\ level[c] < level[x] /\ level[c] + 1 = level[x]
  <2> SUFFICES ASSUME NEW x \in D, ~IsLeaf(nodes[x])
               PROVE  /\ Children(x) # {}
                      /\ \A c \in Children(x) :
                           c \in D /\ level[c] < level[x] /\ level[c] + 1 = level[x]
    OBVIOUS
  <2>1. Children(x) # {}
    <3>1. 1 \in DOMAIN nodes[x].children
      BY ChildrenFacts
    <3> QED
      BY <3>1 DEF Range
  <2>2. ASSUME NEW c \in Children(x)
        PROVE  c \in D /\ level[c] < level[x] /\ level[c] + 1 = level[x]
    <3>1. PICK i \in DOMAIN nodes[x].children : c = nodes[x].children[i]
      BY DEF Range
    <3> QED
      BY <3>1, ChildrenFacts
  <2> QED
    BY <2>1, <2>2
<1>5. ASSUME NEW n \in D, ~IsLeaf(nodes[n]), NEW i \in DOMAIN nodes[n].children
      PROVE  LET c == nodes[n].children IN
             /\ c[i] \in D /\ level[c[i]] < level[n]
             /\ \A j \in DOMAIN c : c[j] \in D
             /\ \A j \in DOMAIN c : j # i => hi[c[i]] <= lo[c[j]] \/ hi[c[j]] <= lo[c[i]]
  BY <1>5, ChildrenFacts
<1> HIDE DEF D, Children
<1>6. BelowOnce(lo, hi, level, visited)
  <2> DEFINE V == SUBSET D
  <2>1. \A x \in D, f \in [D -> V] : Nodes(x, f) \in V
    BY <1>4
  <2>2. ASSUME NEW x \in D, NEW f \in [D -> V], NEW g \in [D -> V],
               \A y \in D : level[y] < level[x] => f[y] = g[y]
        PROVE  Nodes(x, f) = Nodes(x, g)
    <3>1. ~IsLeaf(nodes[x]) => \A c \in Children(x) : f[c] = g[c]
      BY <1>4, <2>2
    <3>2. ~IsLeaf(nodes[x]) => {f[c] : c \in Children(x)} = {g[c] : c \in Children(x)}
      BY <3>1
    <3> QED
      BY <3>2
  <2> DEFINE F == [p \in D \X [D -> V] |-> Nodes(p[1], p[2])]
  <2> HIDE DEF V, Nodes
  <2>3. F \in [D \X [D -> V] -> V]
    BY <2>1
  <2>4. \A x \in D, f \in [D -> V] : F[<<x, f>>] = Nodes(x, f)
    OBVIOUS
  <2> HIDE DEF F
  <2>5. \A x \in D : \A f, g \in [D -> V] :
          (\A y \in D : level[y] < level[x] => f[y] = g[y]) => F[<<x, f>>] = F[<<x, g>>]
    BY <2>2, <2>4
  <2>6. V # {} /\ \A x \in D : level[x] <= level[root]
    BY <1>1 DEF V, D
  <2>7. Descent(D, V, level, level[root], F)
    BY <1>2, <2>3, <2>5, <2>6 DEF Descent, D
  <2>8. PICK f \in [D -> V] : f = [x \in D |-> F[<<x, f>>]]
    BY <2>7, Recursion
  <2>9. [x \in D |-> F[<<x, f>>]] = [x \in D |-> Nodes(x, f)]
    BY <2>4
  <2>10. Visits(f)
    BY <2>8, <2>9
  <2> HIDE DEF Visits
  <2>11. Visits(visited)
    BY <2>10
  <2> HIDE DEF visited
  <2> USE DEF Visits
  <2>12. DOMAIN visited = D /\ \A x \in D : visited[x] = Nodes(x, visited)
    BY <2>11
  <2> DEFINE Typed == {x \in D : visited[x] \in SUBSET D}
  <2>13. ASSUME NEW x \in D, \A y \in D : level[y] < level[x] => y \in Typed
         PROVE  x \in Typed
    <3>1. ~IsLeaf(nodes[x]) => \A c \in Children(x) : visited[c] \in SUBSET D
      BY <1>4, <2>13
    <3>2. Nodes(x, visited) \in SUBSET D
      BY <3>1 DEF Nodes
    <3> QED
      BY <2>12, <3>2
  <2>14. \A x \in D : x \in Typed
    <3> HIDE DEF Typed
    <3> QED
      BY <1>2, <2>6, <2>13, ByLevels DEF D
  <2>15. visited = [x \in D |-> visited[x]]
    BY <2>11
  <2>16. visited \in [D -> SUBSET D]
    BY <2>14, <2>15
  <2> QED
    BY <2>12, <2>16 DEF BelowOnce, Nodes, D, Children
<1>7. depths[root] = {level[root]}
  <2> DEFINE V == SUBSET Nat
  <2>1. \A x \in D, f \in [D -> V] : Depths(x, f) \in V
    BY <1>4
  <2>2. ASSUME NEW x \in D, NEW f \in [D -> V], NEW g \in [D -> V],
               \A y \in D : level[y] < level[x] => f[y] = g[y]
        PROVE  Depths(x, f) = Depths(x, g)
    <3>1. ~IsLeaf(nodes[x]) => \A c \in Children(x) : f[c] = g[c]
      BY <1>4, <2>2
    <3>2. ~IsLeaf(nodes[x]) => {f[c] : c \in Children(x)} = {g[c] : c \in Children(x)}
      BY <3>1
    <3> QED
      BY <3>2
  <2> DEFINE F == [p \in D \X [D -> V] |-> Depths(p[1], p[2])]
  <2> HIDE DEF V, Depths
  <2>3. F \in [D \X [D -> V] -> V]
    BY <2>1
  <2>4. \A x \in D, f \in [D -> V] : F[<<x, f>>] = Depths(x, f)
    OBVIOUS
  <2> HIDE DEF F
  <2>5. \A x \in D : \A f, g \in [D -> V] :
          (\A y \in D : level[y] < level[x] => f[y] = g[y]) => F[<<x, f>>] = F[<<x, g>>]
    BY <2>2, <2>4
  <2>6. V # {} /\ \A x \in D : level[x] <= level[root]
    BY <1>1 DEF V, D
  <2>7. Descent(D, V, level, level[root], F)
    BY <1>2, <2>3, <2>5, <2>6 DEF Descent, D
  <2>8. PICK f \in [D -> V] : f = [x \in D |-> F[<<x, f>>]]
    BY <2>7, Recursion
  <2>9. [x \in D |-> F[<<x, f>>]] = [x \in D |-> Depths(x, f)]
    BY <2>4
  <2>10. Measures(f)
    BY <2>8, <2>9
  <2> HIDE DEF Measures
  <2>11. Measures(depths)
    BY <2>10
  <2> HIDE DEF depths
  <2> USE DEF Measures
  <2>12. \A x \in D : depths[x] = Depths(x, depths)
    BY <2>11
  <2> DEFINE AtLevel == {x \in D : depths[x] = {level[x]}}
  <2>13. ASSUME NEW x \in D, \A y \in D : level[y] < level[x] => y \in AtLevel
         PROVE  x \in AtLevel
    <3>1. CASE IsLeaf(nodes[x])
      BY <1>2, <2>12, <3>1 DEF Depths, D
    <3>2. CASE ~IsLeaf(nodes[x])
      <4> DEFINE all == UNION {depths[c] : c \in Children(x)}
      <4>1. \A c \in Children(x) : depths[c] = {level[c]} /\ level[c] = level[x] - 1
        <5>1. \A c \in Children(x) : level[c] \in Nat /\ level[x] \in Nat
          BY <1>2, <1>4, <3>2 DEF D
        <5> QED
          BY <1>4, <2>13, <3>2, <5>1
      <4>2. all = {level[x] - 1}
        BY <1>4, <3>2, <4>1
      <4>3. level[x] \in Nat
        BY <1>2 DEF D
      <4>4. depths[x] = {depth + 1 : depth \in all}
        BY <2>12, <3>2 DEF Depths
      <4> HIDE DEF all
      <4>5. level[x] - 1 + 1 = level[x]
        BY <4>3
      <4> QED
        BY <4>2, <4>4, <4>5
    <3> QED
      BY <3>1, <3>2
  <2>14. \A x \in D : x \in AtLevel
    <3> HIDE DEF AtLevel
    <3> QED
      BY <1>2, <2>6, <2>13, ByLevels DEF D
  <2> QED
    BY <1>1, <2>14 DEF D
<1> HIDE DEF visited, depths
<1>8. /\ \A x \in D : \A y \in visited[x] :
           /\ y \in D /\ level[y] <= level[x]
           /\ lo[x] <= lo[y] /\ hi[y] <= hi[x]
      /\ visited[root] = D
  BY <1>6, VisitedFacts DEF D
<1>9. ASSUME NEW n \in D, ~IsLeaf(nodes[n]), NEW i \in DOMAIN nodes[n].children
      PROVE  /\ n \notin visited[nodes[n].children[i]]
             /\ \A j \in DOMAIN nodes[n].children :
                  j # i => visited[nodes[n].children[i]] \cap visited[nodes[n].children[j]] = {}
  <2> DEFINE c == nodes[n].children
  <2>1. /\ c[i] \in D /\ level[c[i]] < level[n]
        /\ \A j \in DOMAIN c : c[j] \in D
        /\ \A j \in DOMAIN c : j # i => hi[c[i]] <= lo[c[j]] \/ hi[c[j]] <= lo[c[i]]
    BY <1>5, <1>9
  <2>2. n \notin visited[c[i]]
    <3> SUFFICES ASSUME n \in visited[c[i]]
                 PROVE  FALSE
      OBVIOUS
    <3>1. level[n] <= level[c[i]] /\ level[n] \in Nat /\ level[c[i]] \in Nat
      BY <1>2, <1>8, <2>1 DEF D
    <3> QED
      BY <2>1, <3>1
  <2>3. ASSUME NEW j \in DOMAIN c, j # i, NEW y, y \in visited[c[i]], y \in visited[c[j]]
        PROVE  FALSE
    <3>1. /\ y \in D /\ lo[c[i]] <= lo[y] /\ hi[y] <= hi[c[i]]
          /\ lo[c[j]] <= lo[y] /\ hi[y] <= hi[c[j]]
      BY <1>8, <2>1, <2>3
    <3>2. /\ lo[y] \in Nat /\ hi[y] \in Nat /\ lo[y] < hi[y]
          /\ lo[c[i]] \in Nat /\ hi[c[i]] \in Nat /\ lo[c[j]] \in Nat /\ hi[c[j]] \in Nat
      BY <1>2, <2>1, <3>1 DEF D
    <3>3. hi[c[i]] <= lo[c[j]] \/ hi[c[j]] <= lo[c[i]]
      BY <2>1, <2>3
    <3> QED
      BY <3>1, <3>2, <3>3
  <2>4. \A j \in DOMAIN c : j # i => visited[c[i]] \cap visited[c[j]] = {}
    BY <2>3
  <2> QED
    BY <2>2, <2>4
<1>10. Cardinality(depths[root]) = 1
  BY <1>7, FS_Singleton
<1> QED
  BY <1>3, <1>8, <1>9, <1>10

-----------------------------------------------------------------------------
(* The chain of the leaves *)

\* The places of a sequence are in a relation, the earlier to the later ones.
Ordered(s, R) == \A i, j \in DOMAIN s : i < j => <<s[i], s[j]>> \in R

\* What two stretches of the chain hold together.
LEMMA Concatenation ==
    ASSUME NEW S, NEW s \in Seq(S), NEW t \in Seq(S)
    PROVE  /\ s \o t \in Seq(S) /\ Range(s \o t) = Range(s) \cup Range(t)
           /\ \A R : Ordered(s, R) /\ Ordered(t, R)
                       /\ (\A a \in Range(s), b \in Range(t) : <<a, b>> \in R)
                     => Ordered(s \o t, R)
<1> DEFINE u == s \o t
           n == Len(s)
           k == Len(t)
<1>1. n \in Nat /\ k \in Nat /\ DOMAIN s = 1 .. n /\ DOMAIN t = 1 .. k
  OBVIOUS
<1>2. u \in Seq(S) /\ DOMAIN u = 1 .. n + k
      /\ \A i \in 1 .. n + k : u[i] = IF i <= n THEN s[i] ELSE t[i - n]
  OBVIOUS
<1> HIDE DEF u, n, k
<1>3. \A i \in 1 .. n + k : IF i <= n THEN i \in 1 .. n ELSE i - n \in 1 .. k
  BY <1>1
<1>4. /\ \A i \in 1 .. n : i \in 1 .. n + k /\ u[i] = s[i]
      /\ \A i \in 1 .. k : n + i \in 1 .. n + k /\ u[n + i] = t[i]
  <2>1. \A i \in 1 .. n : i \in 1 .. n + k /\ i <= n
    BY <1>1
  <2>2. ASSUME NEW i \in 1 .. k
        PROVE  n + i \in 1 .. n + k /\ u[n + i] = t[i]
    <3> DEFINE at == n + i
    <3>1. at \in 1 .. n + k /\ ~(at <= n) /\ at - n = i
      BY <1>1
    <3> HIDE DEF at
    <3>2. u[at] = t[i]
      BY <1>2, <3>1
    <3> QED
      BY <3>1, <3>2 DEF at
  <2>3. \A i \in 1 .. n : i \in 1 .. n + k /\ u[i] = s[i]
    BY <1>2, <2>1
  <2> QED
    BY <2>2, <2>3
<1>5. Range(u) = Range(s) \cup Range(t)
  <2>1. ASSUME NEW x \in Range(u)
        PROVE  x \in Range(s) \cup Range(t)
    <3>1. PICK i \in 1 .. n + k : x = u[i]
      BY <1>2 DEF Range
    <3> QED
      BY <1>1, <1>2, <1>3, <3>1 DEF Range
  <2>2. ASSUME NEW x \in Range(s)
        PROVE  x \in Range(u)
    BY <1>1, <1>2, <1>4 DEF Range
  <2>3. ASSUME NEW x \in Range(t)
        PROVE  x \in Range(u)
    <3>1. PICK i \in 1 .. k : x = t[i]
      BY <1>1 DEF Range
    <3>2. n + i \in DOMAIN u /\ u[n + i] = x
      BY <1>2, <1>4, <3>1
    <3> QED
      BY <3>2 DEF Range
  <2> QED
    BY <2>1, <2>2, <2>3
<1>6. ASSUME NEW R, Ordered(s, R), Ordered(t, R),
             \A a \in Range(s), b \in Range(t) : <<a, b>> \in R
      PROVE  Ordered(u, R)
  <2> SUFFICES ASSUME NEW i \in 1 .. n + k, NEW j \in 1 .. n + k, i < j
               PROVE  <<u[i], u[j]>> \in R
    BY <1>2 DEF Ordered
  <2>1. CASE j <= n
    <3>1. i <= n /\ i \in 1 .. n /\ j \in 1 .. n
      BY <1>1, <2>1
    <3> QED
      BY <1>1, <1>4, <1>6, <3>1 DEF Ordered
  <2>2. CASE i <= n /\ ~(j <= n)
    <3>1. i \in 1 .. n /\ u[i] = s[i] /\ j - n \in 1 .. k /\ u[j] = t[j - n]
      BY <1>2, <1>3, <2>2
    <3>2. u[i] \in Range(s) /\ u[j] \in Range(t)
      BY <1>1, <3>1 DEF Range
    <3> QED
      BY <1>6, <3>2
  <2>3. CASE ~(i <= n)
    <3>1. ~(j <= n) /\ i - n < j - n
      BY <1>1, <2>3
    <3>2. i - n \in 1 .. k /\ j - n \in 1 .. k /\ u[i] = t[i - n] /\ u[j] = t[j - n]
      BY <1>2, <1>3, <2>3, <3>1
    <3> QED
      BY <1>1, <1>6, <3>1, <3>2 DEF Ordered
  <2> QED
    BY <2>1, <2>2, <2>3
<1> QED
  BY <1>2, <1>5, <1>6 DEF u

\* What a walk along the chain gathers: something of each leaf up to one that ends it.
Gathers(part, last, along) ==
    along = [n \in 0 .. Len(nodes) |->
               IF EndsChain(n) THEN <<>>
               ELSE part[n] \o IF last[n] THEN <<>> ELSE along[nodes[n].next]]

\* The chain has an end: its links lead to ever greater keys.
LEMMA ChainEnds ==
    ASSUME NEW lo, NEW hi, NEW level, Tree(nodes, root, lo, hi, level),
           NEW part, NEW last, part \in [0 .. Len(nodes) -> Seq(Nat)]
    PROVE  \E along : Gathers(part, last, along)
<1> DEFINE D == DOMAIN nodes
           C == 0 .. Len(nodes)
           V == Seq(Nat)
           top == MaxKey + 2
           rank == [n \in C |-> IF n = NoLeaf THEN 0 ELSE top - lo[n]]
           Part(n, f) == IF EndsChain(n) THEN <<>>
                         ELSE part[n] \o IF last[n] THEN <<>> ELSE f[nodes[n].next]
           F == [p \in C \X [C -> V] |-> Part(p[1], p[2])]
<1>1. /\ Bounded(nodes, lo, hi, level)
      /\ \A x \in D : Valid(nodes, lo, hi, level, x)
  BY DEF Tree
<1>2. /\ D = 1 .. Len(nodes) /\ Len(nodes) \in Nat
      /\ \A x \in D : lo[x] \in 0 .. MaxKey + 1 /\ lo[x] \in Nat /\ hi[x] \in Nat /\ lo[x] < hi[x]
  BY <1>1, BoundedFacts DEF Bounds
<1>3. \A n \in C : n # NoLeaf => n \in D
  BY <1>2 DEF NoLeaf
<1>4. \A n \in C : ~EndsChain(n) =>
        /\ n \in D /\ nodes[n].next \in C
        /\ nodes[n].next # NoLeaf => nodes[n].next \in D /\ lo[nodes[n].next] = hi[n]
  <2> SUFFICES ASSUME NEW n \in C, ~EndsChain(n)
               PROVE  /\ n \in D /\ nodes[n].next \in C
                      /\ nodes[n].next # NoLeaf =>
                           nodes[n].next \in D /\ lo[nodes[n].next] = hi[n]
    OBVIOUS
  <2>1. n \in D /\ IsLeaf(nodes[n])
    BY <1>3 DEF EndsChain
  <2>2. /\ hi[n] = MaxKey + 1 => nodes[n].next = NoLeaf
        /\ hi[n] # MaxKey + 1 =>
             nodes[n].next \in D /\ lo[nodes[n].next] = hi[n]
    BY <1>1, <2>1 DEF Valid, ValidLeaf
  <2>3. NoLeaf \in C /\ \A x \in D : x \in C
    BY <1>2 DEF NoLeaf
  <2> QED
    BY <2>1, <2>2, <2>3
<1>5. /\ rank \in [C -> Nat] /\ top \in Nat /\ \A n \in C : rank[n] <= top
      /\ \A n \in C : ~EndsChain(n) => rank[nodes[n].next] < rank[n]
  <2>1. top \in Nat /\ \A x \in D : top - lo[x] \in Nat /\ top - lo[x] <= top /\ 0 < top - lo[x]
    BY <1>2, TreeAssumption
  <2>2. \A n \in C : rank[n] = IF n = NoLeaf THEN 0 ELSE top - lo[n]
    OBVIOUS
  <2>3. \A n \in C : rank[n] \in Nat /\ rank[n] <= top
    BY <1>3, <2>1, <2>2
  <2>4. rank \in [C -> Nat]
    BY <2>3
  <2>5. ASSUME NEW n \in C, ~EndsChain(n)
        PROVE  rank[nodes[n].next] < rank[n]
    <3>1. n # NoLeaf /\ n \in D /\ rank[n] = top - lo[n]
      BY <1>4, <2>2, <2>5 DEF EndsChain
    <3>2. CASE nodes[n].next = NoLeaf
      BY <1>4, <2>1, <2>2, <2>5, <3>1, <3>2
    <3>3. CASE nodes[n].next # NoLeaf
      <4>1. rank[nodes[n].next] = top - hi[n]
        BY <1>4, <2>2, <2>5, <3>3
      <4>2. top - hi[n] < top - lo[n]
        BY <1>2, <2>1, <3>1
      <4> QED
        BY <3>1, <4>1, <4>2
    <3> QED
      BY <3>2, <3>3
  <2> QED
    BY <2>1, <2>3, <2>4, <2>5
<1>6. <<>> \in V /\ \A s, t \in V : s \o t \in V
  OBVIOUS
<1>7. part \in [C -> V]
  OBVIOUS
<1>8. \A along : (along = [n \in C |-> Part(n, along)]) => Gathers(part, last, along)
  BY DEF Gathers
<1> HIDE DEF C, V, D, top, rank
<1>9. \A n \in C, f \in [C -> V] : Part(n, f) \in V
  BY <1>4, <1>6, <1>7
<1>10. ASSUME NEW n \in C, NEW f \in [C -> V], NEW g \in [C -> V],
              \A y \in C : rank[y] < rank[n] => f[y] = g[y]
       PROVE  Part(n, f) = Part(n, g)
  BY <1>4, <1>5, <1>10
<1> HIDE DEF Part
<1>11. F \in [C \X [C -> V] -> V]
  <2>1. ASSUME NEW p \in C \X [C -> V]
        PROVE  Part(p[1], p[2]) \in V
    <3>1. p[1] \in C /\ p[2] \in [C -> V]
      BY <2>1
    <3> QED
      BY <1>9, <3>1
  <2> QED
    BY <2>1
<1>12. \A n \in C, f \in [C -> V] : F[<<n, f>>] = Part(n, f)
  OBVIOUS
<1> HIDE DEF F
<1>13. \A x \in C : \A f, g \in [C -> V] :
         (\A y \in C : rank[y] < rank[x] => f[y] = g[y]) => F[<<x, f>>] = F[<<x, g>>]
  <2> SUFFICES ASSUME NEW x \in C, NEW f \in [C -> V], NEW g \in [C -> V],
                      \A y \in C : rank[y] < rank[x] => f[y] = g[y]
               PROVE  F[<<x, f>>] = F[<<x, g>>]
    OBVIOUS
  <2>1. Part(x, f) = Part(x, g)
    BY <1>10
  <2>2. F[<<x, f>>] = Part(x, f) /\ F[<<x, g>>] = Part(x, g)
    BY <1>12
  <2> QED
    BY <2>1, <2>2
<1>14. Descent(C, V, rank, top, F)
  BY <1>5, <1>6, <1>11, <1>13 DEF Descent
<1>15. PICK f \in [C -> V] : f = [x \in C |-> F[<<x, f>>]]
  BY <1>14, Recursion
<1>16. [x \in C |-> F[<<x, f>>]] = [x \in C |-> Part(x, f)]
  BY <1>12
<1>17. Gathers(part, last, f)
  BY <1>8, <1>15, <1>16
<1> QED
  BY <1>17

LeafNodes == {x \in DOMAIN nodes : IsLeaf(nodes[x])}

\* Behind a leaf come the leaves of greater keys, first the one it is linked to.
LEMMA NextLeaf ==
    ASSUME NEW lo, NEW hi, NEW level, Tree(nodes, root, lo, hi, level), NEW x \in LeafNodes
    PROVE  /\ ~EndsChain(x)
           /\ EndsChain(nodes[x].next) <=> nodes[x].next = NoLeaf
           /\ nodes[x].next = NoLeaf =>
                /\ hi[x] = MaxKey + 1
                /\ \A y \in LeafNodes : lo[x] <= lo[y] <=> y = x
           /\ nodes[x].next # NoLeaf =>
                /\ nodes[x].next \in LeafNodes
                /\ lo[x] < lo[nodes[x].next] /\ hi[x] = lo[nodes[x].next]
                /\ \A y \in LeafNodes : lo[x] <= lo[y] <=> y = x \/ lo[nodes[x].next] <= lo[y]
<1> DEFINE D == DOMAIN nodes
           z == nodes[x].next
<1>1. /\ Bounded(nodes, lo, hi, level) /\ \A y \in D : Valid(nodes, lo, hi, level, y)
  BY DEF Tree
<1>2. /\ \A y \in D : /\ lo[y] \in Nat /\ hi[y] \in Nat /\ lo[y] < hi[y] /\ hi[y] <= MaxKey + 1
                      /\ IsLeaf(nodes[y]) <=> level[y] = 0
      /\ 0 \notin D
  <2>1. /\ D = 1 .. Len(nodes) /\ Len(nodes) \in Nat
        /\ \A y \in D : /\ lo[y] \in Nat /\ hi[y] \in Nat /\ lo[y] < hi[y]
                        /\ hi[y] \in Bounds
    BY <1>1, BoundedFacts
  <2>2. \A y \in D : hi[y] <= MaxKey + 1
    BY <2>1, TreeAssumption DEF Bounds
  <2>3. \A y \in D : IsLeaf(nodes[y]) <=> level[y] = 0
    BY <1>1, LeafLevel
  <2> QED
    BY <2>1, <2>2, <2>3
<1>3. x \in D /\ IsLeaf(nodes[x]) /\ level[x] = 0 /\ x # NoLeaf
  BY <1>2 DEF LeafNodes, NoLeaf
<1>4. /\ hi[x] = MaxKey + 1 => z = NoLeaf
      /\ hi[x] # MaxKey + 1 => z \in D /\ level[z] = 0 /\ lo[z] = hi[x]
  BY <1>1, <1>3 DEF Valid, ValidLeaf
<1>5. z = NoLeaf <=> hi[x] = MaxKey + 1
  BY <1>2, <1>4 DEF NoLeaf
<1>6. \A y \in LeafNodes : y \in D /\ level[y] = 0 /\ (y # x => hi[y] <= lo[x] \/ hi[x] <= lo[y])
  <2>1. \A y \in LeafNodes : y \in D /\ level[y] = 0
    BY <1>2 DEF LeafNodes
  <2> QED
    BY <1>1, <1>3, <2>1 DEF Bounded
<1>7. ASSUME NEW y \in LeafNodes, y # x
      PROVE  lo[x] <= lo[y] <=> hi[x] <= lo[y]
  <2>1. /\ lo[x] \in Nat /\ hi[x] \in Nat /\ lo[x] < hi[x]
        /\ lo[y] \in Nat /\ hi[y] \in Nat /\ lo[y] < hi[y]
    BY <1>2, <1>3, <1>6
  <2>2. hi[y] <= lo[x] \/ hi[x] <= lo[y]
    BY <1>6, <1>7
  <2> QED
    BY <2>1, <2>2
<1>8. z # NoLeaf => z \in LeafNodes /\ lo[z] = hi[x] /\ lo[x] < lo[z]
  BY <1>2, <1>3, <1>4, <1>5 DEF LeafNodes
<1>9. ~EndsChain(x) /\ (EndsChain(z) <=> z = NoLeaf)
  BY <1>3, <1>8 DEF EndsChain, LeafNodes
<1>10. ASSUME z = NoLeaf, NEW y \in LeafNodes
       PROVE  lo[x] <= lo[y] <=> y = x
  <2>1. CASE y = x
    BY <1>2, <1>3, <2>1
  <2>2. CASE y # x
    <3>1. lo[y] < MaxKey + 1 /\ lo[y] \in Nat /\ hi[x] = MaxKey + 1
      <4>1. lo[y] \in Nat /\ hi[y] \in Nat /\ lo[y] < hi[y] /\ hi[y] <= MaxKey + 1
        BY <1>2, <1>6
      <4> QED
        BY <1>5, <1>10, <4>1, TreeAssumption
    <3>2. ~(hi[x] <= lo[y])
      BY <3>1, TreeAssumption
    <3> QED
      BY <1>7, <2>2, <3>2
  <2> QED
    BY <2>1, <2>2
<1>11. ASSUME z # NoLeaf, NEW y \in LeafNodes
       PROVE  lo[x] <= lo[y] <=> y = x \/ lo[z] <= lo[y]
  <2>1. CASE y = x
    BY <1>2, <1>3, <2>1
  <2>2. CASE y # x
    BY <1>7, <1>8, <1>11, <2>2
  <2> QED
    BY <2>1, <2>2
<1> QED
  BY <1>5, <1>8, <1>9, <1>10, <1>11

\* What holds of each leaf whose link leads nowhere or to one of which it holds,
\* holds of all leaves.
LEMMA AlongChain ==
    ASSUME NEW lo, NEW hi, NEW level, Tree(nodes, root, lo, hi, level), NEW S,
           \A x \in LeafNodes : (nodes[x].next # NoLeaf => nodes[x].next \in S) => x \in S
    PROVE  \A x \in LeafNodes : x \in S
<1> DEFINE top == MaxKey + 1
           rank == [x \in LeafNodes |-> top - lo[x]]
<1>1. \A x \in LeafNodes : lo[x] \in 0 .. top
  <2>1. Bounded(nodes, lo, hi, level)
    BY DEF Tree
  <2> QED
    BY <2>1, BoundedFacts DEF LeafNodes, Bounds
<1>2. /\ top \in Nat /\ rank \in [LeafNodes -> Nat]
      /\ \A x \in LeafNodes : rank[x] = top - lo[x] /\ rank[x] <= top
  BY <1>1, TreeAssumption
<1>3. \A x \in LeafNodes : nodes[x].next # NoLeaf =>
        nodes[x].next \in LeafNodes /\ lo[x] < lo[nodes[x].next]
  BY NextLeaf
<1>4. \A x, y \in LeafNodes : lo[x] < lo[y] => rank[y] < rank[x]
  BY <1>1, <1>2
<1> HIDE DEF top, rank
<1>5. \A x \in LeafNodes : (\A y \in LeafNodes : rank[y] < rank[x] => y \in S) => x \in S
  BY <1>3, <1>4
<1> QED
  BY <1>2, <1>5, ByLevels

\* verify_leaf_chain comes from the leftmost leaf through all others, in the order
\* of their keys.
LEMMA TreeChained ==
    ASSUME NEW lo, NEW hi, NEW level, Tree(nodes, root, lo, hi, level)
    PROVE  Chained
<1> DEFINE D == DOMAIN nodes
           C == 0 .. Len(nodes)
           Leftmost(x, f) == IF IsLeaf(nodes[x]) THEN x ELSE f[nodes[x].children[1]]
           IsFirst(f) == f = [x \in D |-> Leftmost(x, f)]
           IsChain(f) == f = [n \in C |-> IF EndsChain(n) THEN <<>> ELSE <<n>> \o f[nodes[n].next]]
           first == CHOOSE f : IsFirst(f)
           chain == CHOOSE f : IsChain(f)
           leaves == chain[first[root]]
<1>1. /\ Bounded(nodes, lo, hi, level) /\ root \in D /\ lo[root] = 0
      /\ \A x \in D : level[x] <= level[root]
      /\ \A x \in D : Valid(nodes, lo, hi, level, x)
  BY DEF Tree, Rooted
<1>2. /\ level \in [D -> Nat] /\ level[root] \in Nat /\ D = 1 .. Len(nodes) /\ Len(nodes) \in Nat
      /\ \A x \in D : lo[x] \in Nat /\ hi[x] \in Nat
  BY <1>1, BoundedFacts
<1>3. Chained <=>
        /\ LeafNodes \subseteq Range(leaves)
        /\ \A i, j \in DOMAIN leaves : i < j =>
             \A left \in DOMAIN nodes[leaves[i]].ids, right \in DOMAIN nodes[leaves[j]].ids :
                left < right
  BY DEF Chained, LeafNodes
<1>4. first[root] \in LeafNodes /\ lo[first[root]] = 0
  <2>1. \A x \in D : ~IsLeaf(nodes[x]) =>
          /\ nodes[x].children[1] \in D
          /\ level[nodes[x].children[1]] < level[x] /\ lo[nodes[x].children[1]] = lo[x]
    BY ChildrenFacts
  <2> DEFINE F == [p \in D \X [D -> D] |-> Leftmost(p[1], p[2])]
  <2>2. D # {} /\ \A x \in D : level[x] <= level[root]
    BY <1>1
  <2> HIDE DEF D
  <2>3. \A x \in D, f \in [D -> D] : Leftmost(x, f) \in D
    BY <2>1
  <2>4. ASSUME NEW x \in D, NEW f \in [D -> D], NEW g \in [D -> D],
               \A y \in D : level[y] < level[x] => f[y] = g[y]
        PROVE  Leftmost(x, f) = Leftmost(x, g)
    BY <2>1, <2>4
  <2> HIDE DEF Leftmost
  <2>5. F \in [D \X [D -> D] -> D]
    BY <2>3
  <2>6. \A x \in D, f \in [D -> D] : F[<<x, f>>] = Leftmost(x, f)
    OBVIOUS
  <2> HIDE DEF F
  <2>7. \A x \in D : \A f, g \in [D -> D] :
          (\A y \in D : level[y] < level[x] => f[y] = g[y]) => F[<<x, f>>] = F[<<x, g>>]
    BY <2>4, <2>6
  <2>8. Descent(D, D, level, level[root], F)
    BY <1>2, <2>2, <2>5, <2>7 DEF Descent, D
  <2>9. PICK f \in [D -> D] : f = [x \in D |-> F[<<x, f>>]]
    BY <2>8, Recursion
  <2>10. [x \in D |-> F[<<x, f>>]] = [x \in D |-> Leftmost(x, f)]
    BY <2>6
  <2>11. IsFirst(f)
    BY <2>9, <2>10
  <2> HIDE DEF IsFirst
  <2>12. IsFirst(first)
    BY <2>11
  <2> HIDE DEF first
  <2> USE DEF IsFirst
  <2>13. \A x \in D : first[x] = IF IsLeaf(nodes[x]) THEN x ELSE first[nodes[x].children[1]]
    BY <2>12 DEF Leftmost
  <2> DEFINE Found == {x \in D : first[x] \in LeafNodes /\ lo[first[x]] = lo[x]}
  <2>14. ASSUME NEW x \in D, \A y \in D : level[y] < level[x] => y \in Found
         PROVE  x \in Found
    <3>1. CASE IsLeaf(nodes[x])
      BY <2>13, <3>1 DEF LeafNodes, D
    <3>2. CASE ~IsLeaf(nodes[x])
      BY <2>1, <2>13, <2>14, <3>2
    <3> QED
      BY <3>1, <3>2
  <2>15. \A x \in D : x \in Found
    <3>1. level \in [D -> Nat] /\ level[root] \in Nat
      BY <1>2 DEF D
    <3> HIDE DEF Found
    <3> QED
      BY <2>2, <2>14, <3>1, ByLevels
  <2> QED
    BY <1>1, <2>15 DEF D
<1>5. \E f : IsChain(f)
  <2> DEFINE part == [n \in C |-> <<n>>]
             last == [n \in C |-> FALSE]
  <2>1. part \in [C -> Seq(Nat)] /\ \A n \in C : part[n] = <<n>> /\ last[n] = FALSE
    BY <1>2
  <2> HIDE DEF part, last
  <2>2. PICK f : Gathers(part, last, f)
    BY <2>1, ChainEnds
  <2>3. f = [n \in C |-> IF EndsChain(n) THEN <<>>
                         ELSE part[n] \o IF last[n] THEN <<>> ELSE f[nodes[n].next]]
    BY <2>2 DEF Gathers
  <2>4. [n \in C |-> IF EndsChain(n) THEN <<>>
                     ELSE part[n] \o IF last[n] THEN <<>> ELSE f[nodes[n].next]]
          = [n \in C |-> IF EndsChain(n) THEN <<>> ELSE <<n>> \o f[nodes[n].next]]
    BY <2>1
  <2>5. IsChain(f)
    BY <2>3, <2>4
  <2> QED
    BY <2>5
<1>6. IsChain(chain)
  <2> HIDE DEF IsChain
  <2> QED
    BY <1>5
<1> HIDE DEF chain, first
<1>7. \A n \in C : chain[n] = IF EndsChain(n) THEN <<>> ELSE <<n>> \o chain[nodes[n].next]
  BY <1>6
<1> HIDE DEF IsChain
<1> DEFINE R == {p \in LeafNodes \X LeafNodes : hi[p[1]] <= lo[p[2]]}
           InChain == {x \in LeafNodes :
                         /\ chain[x] \in Seq(LeafNodes)
                         /\ \A y : y \in Range(chain[x]) <=> y \in LeafNodes /\ lo[x] <= lo[y]
                         /\ Ordered(chain[x], R)}
<1>8. NoLeaf \in C /\ \A x \in LeafNodes : x \in D /\ x \in C
  BY <1>2 DEF LeafNodes, NoLeaf
<1>9. chain[NoLeaf] = <<>>
  BY <1>7, <1>8 DEF EndsChain
<1>10. ASSUME NEW x \in LeafNodes, nodes[x].next # NoLeaf => nodes[x].next \in InChain
       PROVE  x \in InChain
  <2> DEFINE z == nodes[x].next
             s == <<x>>
             t == chain[z]
  <2>1. chain[x] = s \o t
    BY <1>7, <1>8, NextLeaf
  <2>2. /\ s \in Seq(LeafNodes) /\ Ordered(s, R) /\ Range(s) = {x}
    BY DEF Ordered, Range
  <2>3. /\ t \in Seq(LeafNodes) /\ Ordered(t, R)
        /\ \A y : y \in Range(t) <=> z # NoLeaf /\ y \in LeafNodes /\ lo[z] <= lo[y]
    <3>1. CASE z = NoLeaf
      <4>1. t = <<>>
        BY <1>9, <3>1
      <4> QED
        BY <3>1, <4>1 DEF Ordered, Range
    <3>2. CASE z # NoLeaf
      <4>1. z \in InChain
        BY <1>10, <3>2
      <4> QED
        BY <3>2, <4>1
    <3> QED
      BY <3>1, <3>2
  <2>4. \A a \in Range(s), b \in Range(t) : <<a, b>> \in R
    <3> SUFFICES ASSUME NEW b \in Range(t)
                 PROVE  <<x, b>> \in R
      BY <2>2
    <3>1. z # NoLeaf /\ b \in LeafNodes /\ lo[z] <= lo[b] /\ hi[x] = lo[z]
      BY <2>3, NextLeaf
    <3> QED
      BY <3>1
  <2>5. \A y \in LeafNodes : lo[x] <= lo[y] <=> y = x \/ (z # NoLeaf /\ lo[z] <= lo[y])
    BY NextLeaf
  <2> HIDE DEF z, s, t, R
  <2>6. s \o t \in Seq(LeafNodes) /\ Range(s \o t) = Range(s) \cup Range(t) /\ Ordered(s \o t, R)
    BY <2>2, <2>3, <2>4, Concatenation
  <2>7. \A y : y \in Range(s \o t) <=> y \in LeafNodes /\ lo[x] <= lo[y]
    BY <2>2, <2>3, <2>5, <2>6
  <2> QED
    BY <2>1, <2>6, <2>7
<1>11. \A x \in LeafNodes : x \in InChain
  <2> HIDE DEF InChain
  <2> QED
    BY <1>10, AlongChain
<1>12. /\ leaves \in Seq(LeafNodes) /\ Ordered(leaves, R)
       /\ \A y : y \in Range(leaves) <=> y \in LeafNodes /\ 0 <= lo[y]
  BY <1>4, <1>11
<1> HIDE DEF leaves
<1>13. LeafNodes \subseteq Range(leaves)
  <2>1. \A y \in LeafNodes : 0 <= lo[y]
    BY <1>2, <1>8
  <2> QED
    BY <1>12, <2>1
<1>14. ASSUME NEW i \in DOMAIN leaves, NEW j \in DOMAIN leaves, i < j,
              NEW left \in DOMAIN nodes[leaves[i]].ids, NEW right \in DOMAIN nodes[leaves[j]].ids
       PROVE  left < right
  <2> DEFINE a == leaves[i]
             b == leaves[j]
  <2>1. a \in LeafNodes /\ b \in LeafNodes /\ hi[a] <= lo[b]
    BY <1>12, <1>14 DEF Ordered
  <2>2. lo[a] <= left /\ left < hi[a] /\ lo[b] <= right /\ right < hi[b]
    BY <1>1, <2>1 DEF LeafNodes, Valid, ValidLeaf
  <2>3. left \in Keys /\ right \in Keys
    <3>1. DOMAIN nodes[a].ids \in SUBSET Keys /\ DOMAIN nodes[b].ids \in SUBSET Keys
      BY <1>1, <2>1, BoundedFacts, NodeFacts DEF LeafNodes
    <3> QED
      BY <3>1
  <2>4. left \in Nat /\ right \in Nat /\ hi[a] \in Nat /\ lo[b] \in Nat
    BY <1>2, <1>8, <2>1, <2>3, TreeAssumption DEF Keys
  <2> QED
    BY <2>1, <2>2, <2>4
<1> QED
  BY <1>3, <1>13, <1>14

-----------------------------------------------------------------------------
(* Lookups and ranges *)

\* A range comes along the chain from the leaf of its start and stops behind its end.
LEMMA RangeFacts ==
    ASSUME NEW lo, NEW hi, NEW level, Tree(nodes, root, lo, hi, level),
           NEW start \in Keys, NEW end \in Keys
    PROVE  /\ Increasing(KeyRange(start, end))
           /\ \A k : k \in Range(KeyRange(start, end)) <=>
                /\ k \in Keys /\ start <= k /\ k <= end
                /\ \E x \in LeafNodes : k \in DOMAIN nodes[x].ids
<1> DEFINE D == DOMAIN nodes
           C == 0 .. Len(nodes)
           Held(n) == DOMAIN nodes[n].ids
           Within(n) == InOrder({key \in Held(n) : start <= key /\ key <= end})
           Ends(n) == \E key \in Held(n) : key > end
           Walks(f) == f = [n \in C |->
                              IF EndsChain(n) THEN <<>>
                              ELSE Within(n) \o IF Ends(n) THEN <<>> ELSE f[nodes[n].next]]
           from == CHOOSE f : Walks(f)
           begin == FindLeaf(start)
<1>1. /\ Bounded(nodes, lo, hi, level) /\ \A x \in D : Valid(nodes, lo, hi, level, x)
  BY DEF Tree
<1>2. /\ D = 1 .. Len(nodes) /\ Len(nodes) \in Nat
      /\ \A x \in D : lo[x] \in Nat /\ hi[x] \in Nat /\ nodes[x] \in NodeSet
  BY <1>1, BoundedFacts
<1>3. KeyRange(start, end) = from[begin]
  BY DEF KeyRange
<1>4. begin \in LeafNodes /\ lo[begin] <= start
  BY FindLeafFacts DEF LeafNodes
<1>5. \A n \in C : ~EndsChain(n) => n \in LeafNodes
  BY <1>2 DEF EndsChain, NoLeaf, LeafNodes
<1>6. NoLeaf \in C /\ \A x \in LeafNodes : x \in D /\ x \in C
  BY <1>2 DEF LeafNodes, NoLeaf
<1>7. \A x \in LeafNodes :
        /\ Held(x) \in SUBSET Keys
        /\ \A k \in Held(x) : k \in Nat /\ lo[x] <= k /\ k < hi[x]
  <2> SUFFICES ASSUME NEW x \in LeafNodes
               PROVE  /\ Held(x) \in SUBSET Keys
                      /\ \A k \in Held(x) : k \in Nat /\ lo[x] <= k /\ k < hi[x]
    OBVIOUS
  <2>1. Held(x) \in SUBSET Keys
    BY <1>2, NodeFacts DEF LeafNodes
  <2>2. \A k \in Held(x) : lo[x] <= k /\ k < hi[x]
    BY <1>1 DEF LeafNodes, Valid, ValidLeaf
  <2> QED
    BY <2>1, <2>2, TreeAssumption DEF Keys
<1>8. start \in Nat /\ end \in Nat /\ \A k \in Keys : k \in Nat
  BY TreeAssumption DEF Keys
<1> DEFINE Less == {p \in Keys \X Keys : p[1] < p[2]}
<1>9. \A x \in LeafNodes :
        /\ Within(x) \in Seq(Keys) /\ Ordered(Within(x), Less)
        /\ \A k : k \in Range(Within(x)) <=> k \in Held(x) /\ start <= k /\ k <= end
  <2> SUFFICES ASSUME NEW x \in LeafNodes
               PROVE  /\ Within(x) \in Seq(Keys) /\ Ordered(Within(x), Less)
                      /\ \A k : k \in Range(Within(x)) <=> k \in Held(x) /\ start <= k /\ k <= end
    OBVIOUS
  <2> DEFINE A == {key \in Held(x) : start <= key /\ key <= end}
             s == InOrder(A)
  <2>1. A \in SUBSET Keys
    BY <1>7
  <2>2. \A k : k \in A <=> k \in Held(x) /\ start <= k /\ k <= end
    OBVIOUS
  <2>3. Within(x) = s
    OBVIOUS
  <2> HIDE DEF A, Within
  <2>4. /\ s \in Seq(Keys)
        /\ \A i \in 1 .. Len(s) : s[i] \in A
        /\ \A key \in A : \E i \in 1 .. Len(s) : s[i] = key
        /\ \A i, j \in 1 .. Len(s) : i < j => s[i] < s[j]
    BY <2>1, InOrderFacts
  <2> HIDE DEF s
  <2>5. DOMAIN s = 1 .. Len(s)
    BY <2>4
  <2>6. Ordered(s, Less)
    BY <2>1, <2>4, <2>5 DEF Ordered
  <2>7. \A k : k \in Range(s) <=> k \in A
    BY <2>4, <2>5 DEF Range
  <2> QED
    BY <2>2, <2>3, <2>4, <2>6, <2>7
<1> HIDE DEF Within, begin
<1>10. \E f : Walks(f)
  <2> DEFINE part == [n \in C |-> IF EndsChain(n) THEN <<>> ELSE Within(n)]
             last == [n \in C |-> Ends(n)]
  <2>1. \A n \in C : (IF EndsChain(n) THEN <<>> ELSE Within(n)) \in Seq(Nat)
    <3>1. \A s \in Seq(Keys) : s \in Seq(Nat)
      <4> SUFFICES ASSUME NEW s \in Seq(Keys)
                   PROVE  s \in Seq(Nat)
        OBVIOUS
      <4>1. s \in [1 .. Len(s) -> Nat] /\ Len(s) \in Nat
        <5>1. \A j \in 1 .. Len(s) : s[j] \in Keys
          OBVIOUS
        <5>2. \A j \in 1 .. Len(s) : s[j] \in Nat
          BY <1>8, <5>1
        <5> QED
          BY <5>2
      <4> QED
        BY <4>1
    <3>2. <<>> \in Seq(Nat)
      OBVIOUS
    <3> QED
      BY <1>5, <1>9, <3>1, <3>2
  <2>2. /\ part \in [C -> Seq(Nat)]
        /\ \A n \in C : ~EndsChain(n) => part[n] = Within(n)
        /\ \A n \in C : last[n] = Ends(n)
    BY <2>1
  <2> HIDE DEF part, last
  <2>3. PICK f : Gathers(part, last, f)
    BY <2>2, ChainEnds
  <2>4. f = [n \in C |-> IF EndsChain(n) THEN <<>>
                         ELSE part[n] \o IF last[n] THEN <<>> ELSE f[nodes[n].next]]
    BY <2>3 DEF Gathers
  <2>5. [n \in C |-> IF EndsChain(n) THEN <<>>
                     ELSE part[n] \o IF last[n] THEN <<>> ELSE f[nodes[n].next]]
          = [n \in C |-> IF EndsChain(n) THEN <<>>
                         ELSE Within(n) \o IF Ends(n) THEN <<>> ELSE f[nodes[n].next]]
    BY <2>2
  <2>6. Walks(f)
    BY <2>4, <2>5
  <2> QED
    BY <2>6
<1>11. Walks(from)
  <2> HIDE DEF Walks
  <2> QED
    BY <1>10
<1> HIDE DEF from
<1>12. \A n \in C : from[n] = IF EndsChain(n) THEN <<>>
                              ELSE Within(n) \o IF Ends(n) THEN <<>> ELSE from[nodes[n].next]
  BY <1>11
<1> HIDE DEF Walks
<1>13. from[NoLeaf] = <<>>
  BY <1>6, <1>12 DEF EndsChain
<1> DEFINE Wanted(x, k) == /\ k \in Keys /\ start <= k /\ k <= end
                           /\ \E y \in LeafNodes : lo[x] <= lo[y] /\ k \in Held(y)
           Walked == {x \in LeafNodes :
                        /\ from[x] \in Seq(Keys) /\ Ordered(from[x], Less)
                        /\ \A k : k \in Range(from[x]) <=> Wanted(x, k)}
<1>14. ASSUME NEW x \in LeafNodes, nodes[x].next # NoLeaf => nodes[x].next \in Walked
       PROVE  x \in Walked
  <2> DEFINE z == nodes[x].next
             s == Within(x)
             t == IF Ends(x) THEN <<>> ELSE from[z]
             More(k) == ~Ends(x) /\ z # NoLeaf /\ Wanted(z, k)
  <2>1. from[x] = s \o t
    BY <1>6, <1>12, NextLeaf
  <2>2. /\ s \in Seq(Keys) /\ Ordered(s, Less)
        /\ \A k : k \in Range(s) <=> k \in Held(x) /\ start <= k /\ k <= end
    BY <1>9
  <2>3. /\ t \in Seq(Keys) /\ Ordered(t, Less)
        /\ \A k : k \in Range(t) <=> More(k)
    <3>1. CASE Ends(x) \/ z = NoLeaf
      <4>1. t = <<>>
        BY <1>13, <3>1
      <4>2. \A k : ~More(k)
        BY <3>1
      <4> HIDE DEF t, More, Less
      <4>3. t \in Seq(Keys) /\ DOMAIN t = {}
        BY <4>1
      <4>4. Ordered(t, Less) /\ Range(t) = {}
        BY <4>3 DEF Ordered, Range
      <4> QED
        BY <4>2, <4>3, <4>4
    <3>2. CASE ~(Ends(x) \/ z = NoLeaf)
      <4>1. z \in Walked /\ t = from[z]
        BY <1>14, <3>2
      <4> HIDE DEF Wanted
      <4> QED
        BY <3>2, <4>1
    <3> QED
      BY <3>1, <3>2
  <2>4. /\ z # NoLeaf => z \in LeafNodes /\ hi[x] = lo[z]
        /\ \A y \in LeafNodes : lo[x] <= lo[y] <=> y = x \/ (z # NoLeaf /\ lo[z] <= lo[y])
    BY NextLeaf
  <2>5. \A k : \A y \in LeafNodes : z # NoLeaf /\ lo[z] <= lo[y] /\ k \in Held(y) =>
          k \in Nat /\ hi[x] <= k
    <3> SUFFICES ASSUME NEW y \in LeafNodes, NEW k \in Held(y), z # NoLeaf, lo[z] <= lo[y]
                 PROVE  k \in Nat /\ hi[x] <= k
      OBVIOUS
    <3>1. k \in Nat /\ lo[y] <= k /\ lo[y] \in Nat /\ hi[x] \in Nat /\ hi[x] <= lo[y]
      BY <1>2, <1>6, <1>7, <2>4
    <3> QED
      BY <3>1
  <2>6. \A a \in Range(s), b \in Range(t) : <<a, b>> \in Less
    <3> SUFFICES ASSUME NEW a \in Range(s), NEW b \in Range(t)
                 PROVE  <<a, b>> \in Less
      OBVIOUS
    <3>1. a \in Held(x) /\ a \in Keys /\ a \in Nat /\ a < hi[x]
      BY <1>7, <2>2
    <3>2. b \in Keys /\ b \in Nat /\ hi[x] <= b
      BY <2>3, <2>5
    <3>3. hi[x] \in Nat
      BY <1>2, <1>6
    <3>4. a < b
      BY <3>1, <3>2, <3>3
    <3> QED
      BY <3>1, <3>2, <3>4
  <2>7. Ends(x) => hi[x] > end /\ hi[x] \in Nat
    <3> SUFFICES ASSUME NEW key \in Held(x), key > end
                 PROVE  hi[x] > end /\ hi[x] \in Nat
      OBVIOUS
    <3>1. key \in Nat /\ key < hi[x] /\ hi[x] \in Nat
      BY <1>2, <1>6, <1>7
    <3> QED
      BY <1>8, <3>1
  <2>8. \A k : Wanted(x, k) <=> (k \in Held(x) /\ start <= k /\ k <= end) \/ More(k)
    <3> SUFFICES ASSUME NEW k
                 PROVE  Wanted(x, k) <=>
                          (k \in Held(x) /\ start <= k /\ k <= end) \/ More(k)
      OBVIOUS
    <3>1. ASSUME k \in Held(x), start <= k, k <= end
          PROVE  Wanted(x, k)
      <4>1. lo[x] <= lo[x] /\ k \in Keys
        BY <1>2, <1>6, <1>7, <3>1
      <4> QED
        BY <3>1, <4>1
    <3>2. ASSUME More(k)
          PROVE  Wanted(x, k)
      BY <2>4, <3>2
    <3>3. ASSUME Wanted(x, k), k \notin Held(x)
          PROVE  More(k)
      <4>1. PICK y \in LeafNodes : lo[x] <= lo[y] /\ k \in Held(y)
        BY <3>3
      <4>2. z # NoLeaf /\ lo[z] <= lo[y]
        BY <2>4, <3>3, <4>1
      <4>3. k \in Nat /\ hi[x] <= k /\ k <= end
        BY <2>5, <3>3, <4>1, <4>2
      <4>4. ~Ends(x)
        <5> SUFFICES ASSUME Ends(x)
                     PROVE  FALSE
          OBVIOUS
        <5>1. hi[x] > end /\ hi[x] \in Nat
          BY <2>7
        <5> QED
          BY <1>8, <4>3, <5>1
      <4> QED
        BY <3>3, <4>1, <4>2, <4>4
    <3> QED
      BY <3>1, <3>2, <3>3
  <2> HIDE DEF z, s, t, Less, More, Wanted
  <2>9. s \o t \in Seq(Keys) /\ Range(s \o t) = Range(s) \cup Range(t) /\ Ordered(s \o t, Less)
    BY <2>2, <2>3, <2>6, Concatenation
  <2>10. \A k : k \in Range(s \o t) <=> Wanted(x, k)
    BY <2>2, <2>3, <2>8, <2>9
  <2> QED
    BY <2>1, <2>9, <2>10
<1>15. \A x \in LeafNodes : x \in Walked
  <2> HIDE DEF Walked
  <2> QED
    BY <1>14, AlongChain
<1>16. /\ from[begin] \in Seq(Keys) /\ Ordered(from[begin], Less)
       /\ \A k : k \in Range(from[begin]) <=> Wanted(begin, k)
  <2> HIDE DEF Wanted, Less
  <2> QED
    BY <1>4, <1>15
<1>17. Increasing(from[begin])
  <2> DEFINE s == from[begin]
  <2>1. Len(s) \in Nat /\ DOMAIN s = 1 .. Len(s)
    BY <1>16
  <2> HIDE DEF s
  <2>2. \A i \in 1 .. Len(s) - 1 : i \in DOMAIN s /\ i + 1 \in DOMAIN s /\ i < i + 1
    BY <2>1
  <2>3. \A i, j \in DOMAIN s : i < j => s[i] < s[j]
    BY <1>16 DEF Ordered, s
  <2>4. Increasing(s)
    BY <2>2, <2>3 DEF Increasing
  <2> QED
    BY <2>4 DEF s
<1>18. ASSUME NEW k \in Keys, start <= k, NEW y \in LeafNodes, k \in Held(y)
       PROVE  lo[begin] <= lo[y]
  <2>1. /\ lo[begin] \in Nat /\ hi[begin] \in Nat /\ lo[begin] < hi[begin]
        /\ lo[y] \in Nat /\ hi[y] \in Nat /\ k \in Nat /\ k < hi[y]
    BY <1>1, <1>4, <1>6, <1>7, <1>18, BoundedFacts
  <2>2. CASE y = begin
    BY <2>1, <2>2
  <2>3. CASE y # begin
    <3>1. level[y] = 0 /\ level[begin] = 0
      BY <1>1, <1>4, <1>6, LeafLevel DEF LeafNodes
    <3>2. hi[y] <= lo[begin] \/ hi[begin] <= lo[y]
      BY <1>1, <1>4, <1>6, <2>3, <3>1 DEF Bounded
    <3>3. lo[begin] <= k
      BY <1>4, <1>8, <1>18, <2>1
    <3> QED
      BY <2>1, <3>2, <3>3
  <2> QED
    BY <2>2, <2>3
<1>19. \A k : Wanted(begin, k) <=> /\ k \in Keys /\ start <= k /\ k <= end
                                   /\ \E x \in LeafNodes : k \in DOMAIN nodes[x].ids
  BY <1>18
<1> QED
  BY <1>3, <1>16, <1>17, <1>19

-----------------------------------------------------------------------------
(* Theorems *)

\* A tree of the invariant answers every lookup and range from the pairs.
LEMMA TreeAnswers ==
    ASSUME IndInv
    PROVE  LookupsAgree
<1>1. PICK lo, hi, level : Tree(nodes, root, lo, hi, level)
  BY DEF IndInv
<1>2. \A key \in Keys, id \in Ids : <<key, id>> \in pairs <=> Has(nodes, key, id)
  BY DEF IndInv
<1>3. ASSUME NEW key \in Keys
      PROVE  Get(key) = {id \in Ids : <<key, id>> \in pairs}
  <2>1. Get(key) = {id \in Ids : Has(nodes, key, id)}
    BY <1>1, GetFacts
  <2> QED
    BY <1>2, <2>1
<1>4. \A key \in Keys :
        (\E x \in LeafNodes : key \in DOMAIN nodes[x].ids) <=> \E id \in Ids : <<key, id>> \in pairs
  <2>1. ASSUME NEW x \in LeafNodes, NEW key \in DOMAIN nodes[x].ids
        PROVE  \E id \in Ids : Holds(nodes[x], key, id)
    <3>1. Bounded(nodes, lo, hi, level) /\ Valid(nodes, lo, hi, level, x) /\ nodes[x] \in NodeSet
      BY <1>1, BoundedFacts DEF Tree, LeafNodes
    <3>2. nodes[x].ids \in [DOMAIN nodes[x].ids -> SUBSET Ids]
      BY <3>1, NodeFacts DEF LeafNodes
    <3>3. nodes[x].ids[key] \in SUBSET Ids /\ nodes[x].ids[key] # {}
      BY <3>1, <3>2 DEF Valid, ValidLeaf, LeafNodes
    <3>4. PICK id \in Ids : id \in nodes[x].ids[key]
      BY <3>3
    <3> QED
      BY <3>4 DEF Holds, LeafNodes
  <2>2. \A key \in Keys : \A x \in LeafNodes :
          key \in DOMAIN nodes[x].ids => \E id \in Ids : <<key, id>> \in pairs
    BY <1>2, <2>1 DEF Has, LeafNodes
  <2>3. \A key \in Keys, id \in Ids : <<key, id>> \in pairs =>
          \E x \in LeafNodes : key \in DOMAIN nodes[x].ids
    BY <1>2 DEF Has, Holds, LeafNodes
  <2> QED
    BY <2>2, <2>3
<1>5. ASSUME NEW start \in Keys, NEW end \in Keys, start <= end
      PROVE  LET keys == KeyRange(start, end) IN
             /\ Increasing(keys)
             /\ Range(keys) = {key \in start .. end : \E id \in Ids : <<key, id>> \in pairs}
  <2> DEFINE keys == KeyRange(start, end)
  <2>1. /\ Increasing(keys)
        /\ \A k : k \in Range(keys) <=>
             /\ k \in Keys /\ start <= k /\ k <= end
             /\ \E x \in LeafNodes : k \in DOMAIN nodes[x].ids
    BY <1>1, RangeFacts
  <2> HIDE DEF keys
  <2>2. \A k : k \in start .. end <=> k \in Keys /\ start <= k /\ k <= end
    BY TreeAssumption DEF Keys
  <2>3. \A k : k \in Range(keys) <=> k \in start .. end /\ \E id \in Ids : <<k, id>> \in pairs
    BY <1>4, <2>1, <2>2
  <2>4. Range(keys) = {key \in start .. end : \E id \in Ids : <<key, id>> \in pairs}
    BY <2>3
  <2> QED
    BY <2>1, <2>4 DEF keys
<1> QED
  BY <1>3, <1>5 DEF LookupsAgree

\* Lookups and ranges find exactly what was inserted and not removed, whatever the
\* splits of insert_node and the removals did to the tree: get and range.
THEOREM LookupsAgreeAlways == Spec => []LookupsAgree
<1>1. IndInv => LookupsAgree
  BY TreeAnswers
<1> QED
  BY Invariance, <1>1, PTL

\* verify accepts every tree the operations make, so that no sync is refused and
\* no snapshot rejected: verify, verify_node and verify_leaf_chain.
THEOREM AlwaysVerifiedAlways == Spec => []AlwaysVerified
<1>1. ASSUME IndInv
      PROVE  AlwaysVerified
  <2>1. PICK lo, hi, level : Tree(nodes, root, lo, hi, level)
    BY <1>1 DEF IndInv
  <2>2. WithinBounds /\ WellShaped /\ Chained
    BY <2>1, TreeWithinBounds, TreeWellShaped, TreeChained
  <2> QED
    BY <1>1, <2>2, TreeTypes DEF AlwaysVerified
<1> QED
  BY Invariance, <1>1, PTL
====
