---- MODULE QueryEngine_proofs ----
(***************************************************************************)
(* Proofs about the planner, the expressions and a session of queries, for *)
(* any trees, stores and bounds: telemetry names as index candidates what  *)
(* the planner would use, and an index scan alters no answer.              *)
(***************************************************************************)
EXTENDS QuerySession, FiniteSetTheorems, WellFoundedInduction, TLAPS

-----------------------------------------------------------------------------
(* Induction over numbers and expressions *)

\* A set of numbers that is not empty has a least one.
LEMMA FirstOf ==
    ASSUME NEW n \in Nat, NEW S \in SUBSET (1 .. n), S # {}
    PROVE  \E m \in S : \A j \in S : m <= j
<1> DEFINE Smaller == {{j \in 1 .. n : j < m} : m \in S}
<1>1. IsWellFoundedOn(StrictSubsetOrdering(1 .. n), FiniteSubsetsOf(1 .. n))
  BY FS_StrictSubsetOrderingWellFounded
<1>2. IsFiniteSet(1 .. n)
  BY FS_Interval
<1>3. Smaller \subseteq FiniteSubsetsOf(1 .. n) /\ Smaller # {}
  <2>1. \A T \in SUBSET (1 .. n) : T \in FiniteSubsetsOf(1 .. n)
    BY <1>2, FS_Subset DEF FiniteSubsetsOf
  <2> QED
    BY <2>1
<1>4. PICK x \in Smaller : \A y \in Smaller : ~ (<<y, x>> \in StrictSubsetOrdering(1 .. n))
  BY <1>1, <1>3, WFMin
<1>5. PICK m \in S : x = {j \in 1 .. n : j < m}
  BY <1>4
<1>6. ASSUME NEW j \in S, ~(m <= j)
      PROVE  FALSE
  <2>1. j \in 1 .. n /\ m \in 1 .. n /\ j < m
    BY <1>6
  <2>2. {k \in 1 .. n : k < j} \subseteq x /\ j \in x /\ j \notin {k \in 1 .. n : k < j}
    BY <1>5, <2>1
  <2>3. <<{k \in 1 .. n : k < j}, x>> \in StrictSubsetOrdering(1 .. n)
    BY <1>5, <2>2 DEF StrictSubsetOrdering
  <2> QED
    BY <1>4, <1>6, <2>3
<1> QED
  BY <1>6

\* What holds of level 0, and of each level that follows one of which it holds,
\* holds of all levels.
LEMMA LevelByLevel ==
    ASSUME NEW n \in Nat, NEW S, 0 \in S,
           \A k \in 1 .. n : k - 1 \in S => k \in S
    PROVE  \A k \in 0 .. n : k \in S
<1> DEFINE Others == {k \in 1 .. n : k \notin S}
<1>1. ASSUME Others # {}
      PROVE  FALSE
  <2>1. PICK m \in Others : \A j \in Others : m <= j
    BY <1>1, FirstOf
  <2>2. m \in 1 .. n /\ m - 1 \in 0 .. n /\ m - 1 \notin Others
    BY <2>1
  <2>3. m - 1 \in S
    BY <2>2
  <2> QED
    BY <2>1, <2>2, <2>3
<1> QED
  BY <1>1

\* What holds of an expression if it holds of its parts holds of all.
LEMMA PartsFirst ==
    ASSUME NEW S, \A e \in Expressions : (\A part \in Parts(e) : part \in S) => e \in S
    PROVE  \A e \in Expressions : e \in S
<1> DEFINE Lower(k) == {e \in Expressions : Depth(e) < k}
           T == {k \in 0 .. MaxDepth + 1 : Lower(k) \subseteq S}
<1>1. 0 \in T
  BY ExpressionsAssumption
<1>2. ASSUME NEW k \in 1 .. MaxDepth + 1, k - 1 \in T
      PROVE  k \in T
  <2>1. ASSUME NEW e \in Lower(k), NEW part \in Parts(e)
        PROVE  part \in S
    <3>1. part \in Expressions /\ Depth(part) < Depth(e) /\ Depth(e) \in Nat /\ Depth(part) \in Nat
      BY <2>1, ExpressionsAssumption
    <3>2. part \in Lower(k - 1)
      BY <3>1, <2>1
    <3> QED
      BY <3>2, <1>2
  <2> QED
    BY <2>1
<1>3. MaxDepth + 1 \in T
  <2> HIDE DEF T
  <2> QED
    BY <1>1, <1>2, LevelByLevel, ExpressionsAssumption
<1>4. \A e \in Expressions : e \in Lower(MaxDepth + 1)
  BY ExpressionsAssumption
<1> QED
  BY <1>3, <1>4

\* The parts of an operation.
LEMMA BinaryParts ==
    ASSUME NEW e \in Expressions, e[1] = "Binary"
    PROVE  /\ Parts(e) = {e[3], e[4]}
           /\ e[3] \in Expressions /\ e[4] \in Expressions
<1>1. Parts(e) = {e[3], e[4]}
  BY DEF Parts
<1> QED
  BY <1>1, ExpressionsAssumption
-----------------------------------------------------------------------------
(* The functions of QueryPlanning on expressions *)

\* The recursion that defines equality_key reaches an end on every expression.
LEMMA KeysExist ==
    ASSUME NEW field
    PROVE  LET Key1(key, e) ==
                 CASE e[1] = "Binary" /\ e[2] = "And" -> OrElse(key[e[3]], key[e[4]])
                   [] e[1] = "Binary" /\ e[2] = "Equal" ->
                        OrElse(path_literal(e[3], e[4], field), path_literal(e[4], e[3], field))
                   [] OTHER -> <<>>
           IN  \E f : f = [e \in Expressions |-> Key1(f, e)]
<1> DEFINE Key1(key, e) ==
             CASE e[1] = "Binary" /\ e[2] = "And" -> OrElse(key[e[3]], key[e[4]])
               [] e[1] = "Binary" /\ e[2] = "Equal" ->
                    OrElse(path_literal(e[3], e[4], field), path_literal(e[4], e[3], field))
               [] OTHER -> <<>>
           Lower(k) == {e \in Expressions : Depth(e) < k}
           T == {k \in 0 .. MaxDepth + 1 : \E f : f = [e \in Lower(k) |-> Key1(f, e)]}
<1>1. 0 \in T
  <2>1. Lower(0) = {}
    BY ExpressionsAssumption
  <2> DEFINE none == [e \in {} |-> <<>>]
  <2>2. none = [e \in Lower(0) |-> Key1(none, e)]
    BY <2>1
  <2>3. \E f : f = [e \in Lower(0) |-> Key1(f, e)]
    <3> HIDE DEF none, Key1, Lower
    <3> QED
      BY <2>2
  <2> HIDE DEF Key1, Lower
  <2> QED
    BY <2>3, ExpressionsAssumption
<1>2. ASSUME NEW k \in 1 .. MaxDepth + 1, k - 1 \in T
      PROVE  k \in T
  <2>1. PICK f : f = [e \in Lower(k - 1) |-> Key1(f, e)]
    BY <1>2
  <2> DEFINE g == [e \in Lower(k) |-> Key1(f, e)]
  <2>2. \A e \in Lower(k - 1) : e \in Lower(k) /\ g[e] = f[e]
    <3>1. \A e \in Lower(k - 1) : e \in Lower(k)
      BY ExpressionsAssumption
    <3> HIDE DEF Key1
    <3> QED
      BY <2>1, <3>1
  <2>3. ASSUME NEW e \in Lower(k)
        PROVE  Key1(f, e) = Key1(g, e)
    <3>1. CASE e[1] = "Binary"
      <4>1. e[3] \in Lower(k - 1) /\ e[4] \in Lower(k - 1)
        <5>1. e[3] \in Parts(e) /\ e[4] \in Parts(e)
          BY <3>1, BinaryParts
        <5> QED
          BY <5>1, ExpressionsAssumption
      <4>2. g[e[3]] = f[e[3]] /\ g[e[4]] = f[e[4]]
        BY <4>1, <2>2
      <4> HIDE DEF g
      <4> QED
        BY <4>2
    <3>2. CASE e[1] # "Binary"
      BY <3>2
    <3> QED
      BY <3>1, <3>2
  <2>4. g = [e \in Lower(k) |-> Key1(g, e)]
    <3> HIDE DEF Key1
    <3> QED
      BY <2>3
  <2>5. \E h : h = [e \in Lower(k) |-> Key1(h, e)]
    <3> HIDE DEF g, Key1, Lower
    <3> QED
      BY <2>4
  <2> HIDE DEF Key1, Lower
  <2> QED
    BY <2>5
<1>3. MaxDepth + 1 \in T
  <2> HIDE DEF T
  <2> QED
    BY <1>1, <1>2, LevelByLevel, ExpressionsAssumption
<1>4. Lower(MaxDepth + 1) = Expressions
  BY ExpressionsAssumption
<1>5. \E f : f = [e \in Lower(MaxDepth + 1) |-> Key1(f, e)]
  <2> HIDE DEF Lower, Key1
  <2> QED
    BY <1>3
<1>6. \E f : f = [e \in Expressions |-> Key1(f, e)]
  <2> HIDE DEF Lower, Key1
  <2> QED
    BY <1>4, <1>5
<1> QED
  BY <1>6

\* equality_key of an expression by those of its parts.
LEMMA KeyRecursion ==
    ASSUME NEW e \in Expressions, NEW field
    PROVE  equality_key(e, field) =
             CASE e[1] = "Binary" /\ e[2] = "And" ->
                      OrElse(equality_key(e[3], field), equality_key(e[4], field))
               [] e[1] = "Binary" /\ e[2] = "Equal" ->
                      OrElse(path_literal(e[3], e[4], field), path_literal(e[4], e[3], field))
               [] OTHER -> <<>>
<1> DEFINE Key1(key, x) ==
             CASE x[1] = "Binary" /\ x[2] = "And" -> OrElse(key[x[3]], key[x[4]])
               [] x[1] = "Binary" /\ x[2] = "Equal" ->
                    OrElse(path_literal(x[3], x[4], field), path_literal(x[4], x[3], field))
               [] OTHER -> <<>>
           IsKey(f) == f = [x \in Expressions |-> Key1(f, x)]
           keys == CHOOSE f : IsKey(f)
<1>1. IsKey(keys)
  <2>1. \E f : IsKey(f)
    BY KeysExist
  <2> HIDE DEF IsKey
  <2> QED
    BY <2>1
<1>2. \A x : equality_key(x, field) = keys[x]
  BY DEF equality_key
<1>3. keys[e] = Key1(keys, e)
  <2> HIDE DEF keys, Key1
  <2> QED
    BY <1>1
<1> QED
  <2> HIDE DEF keys
  <2> QED
    BY <1>2, <1>3

\* So does that of collect_index_candidates, which follows the same operations.
LEMMA CandidatesExist ==
    LET Found(paths, e) ==
          CASE e[1] = "Binary" /\ e[2] = "And" -> paths[e[3]] \cup paths[e[4]]
            [] e[1] = "Binary" /\ e[2] = "Equal" ->
                 Range(OrElse(indexable_path_literal(e[3], e[4]),
                              indexable_path_literal(e[4], e[3])))
            [] OTHER -> {}
    IN  \E f : f = [e \in Expressions |-> Found(f, e)]
<1> DEFINE Found(paths, e) ==
             CASE e[1] = "Binary" /\ e[2] = "And" -> paths[e[3]] \cup paths[e[4]]
               [] e[1] = "Binary" /\ e[2] = "Equal" ->
                    Range(OrElse(indexable_path_literal(e[3], e[4]),
                                 indexable_path_literal(e[4], e[3])))
               [] OTHER -> {}
           Lower(k) == {e \in Expressions : Depth(e) < k}
           T == {k \in 0 .. MaxDepth + 1 : \E f : f = [e \in Lower(k) |-> Found(f, e)]}
<1>1. 0 \in T
  <2>1. Lower(0) = {}
    BY ExpressionsAssumption
  <2> DEFINE none == [e \in {} |-> <<>>]
  <2>2. none = [e \in Lower(0) |-> Found(none, e)]
    BY <2>1
  <2>3. \E f : f = [e \in Lower(0) |-> Found(f, e)]
    <3> HIDE DEF none, Found, Lower
    <3> QED
      BY <2>2
  <2> HIDE DEF Found, Lower
  <2> QED
    BY <2>3, ExpressionsAssumption
<1>2. ASSUME NEW k \in 1 .. MaxDepth + 1, k - 1 \in T
      PROVE  k \in T
  <2>1. PICK f : f = [e \in Lower(k - 1) |-> Found(f, e)]
    BY <1>2
  <2> DEFINE g == [e \in Lower(k) |-> Found(f, e)]
  <2>2. \A e \in Lower(k - 1) : e \in Lower(k) /\ g[e] = f[e]
    <3>1. \A e \in Lower(k - 1) : e \in Lower(k)
      BY ExpressionsAssumption
    <3> HIDE DEF Found
    <3> QED
      BY <2>1, <3>1
  <2>3. ASSUME NEW e \in Lower(k)
        PROVE  Found(f, e) = Found(g, e)
    <3>1. CASE e[1] = "Binary"
      <4>1. e[3] \in Lower(k - 1) /\ e[4] \in Lower(k - 1)
        <5>1. e[3] \in Parts(e) /\ e[4] \in Parts(e)
          BY <3>1, BinaryParts
        <5> QED
          BY <5>1, ExpressionsAssumption
      <4>2. g[e[3]] = f[e[3]] /\ g[e[4]] = f[e[4]]
        BY <4>1, <2>2
      <4> HIDE DEF g
      <4> QED
        BY <4>2
    <3>2. CASE e[1] # "Binary"
      BY <3>2
    <3> QED
      BY <3>1, <3>2
  <2>4. g = [e \in Lower(k) |-> Found(g, e)]
    <3> HIDE DEF Found
    <3> QED
      BY <2>3
  <2>5. \E h : h = [e \in Lower(k) |-> Found(h, e)]
    <3> HIDE DEF g, Found, Lower
    <3> QED
      BY <2>4
  <2> HIDE DEF Found, Lower
  <2> QED
    BY <2>5
<1>3. MaxDepth + 1 \in T
  <2> HIDE DEF T
  <2> QED
    BY <1>1, <1>2, LevelByLevel, ExpressionsAssumption
<1>4. Lower(MaxDepth + 1) = Expressions
  BY ExpressionsAssumption
<1>5. \E f : f = [e \in Lower(MaxDepth + 1) |-> Found(f, e)]
  <2> HIDE DEF Lower, Found
  <2> QED
    BY <1>3
<1>6. \E f : f = [e \in Expressions |-> Found(f, e)]
  <2> HIDE DEF Lower, Found
  <2> QED
    BY <1>4, <1>5
<1> QED
  BY <1>6

\* collect_index_candidates of an expression by those of its parts.
LEMMA CandidateRecursion ==
    ASSUME NEW e \in Expressions
    PROVE  collect_index_candidates(e) =
             CASE e[1] = "Binary" /\ e[2] = "And" ->
                      collect_index_candidates(e[3]) \cup collect_index_candidates(e[4])
               [] e[1] = "Binary" /\ e[2] = "Equal" ->
                      Range(OrElse(indexable_path_literal(e[3], e[4]),
                                   indexable_path_literal(e[4], e[3])))
               [] OTHER -> {}
<1> DEFINE Found(paths, x) ==
             CASE x[1] = "Binary" /\ x[2] = "And" -> paths[x[3]] \cup paths[x[4]]
               [] x[1] = "Binary" /\ x[2] = "Equal" ->
                    Range(OrElse(indexable_path_literal(x[3], x[4]),
                                 indexable_path_literal(x[4], x[3])))
               [] OTHER -> {}
           IsFound(f) == f = [x \in Expressions |-> Found(f, x)]
           found == CHOOSE f : IsFound(f)
<1>1. IsFound(found)
  <2>1. \E f : IsFound(f)
    BY CandidatesExist
  <2> HIDE DEF IsFound
  <2> QED
    BY <2>1
<1>2. \A x : collect_index_candidates(x) = found[x]
  BY DEF collect_index_candidates
<1>3. found[e] = Found(found, e)
  <2> HIDE DEF found, Found
  <2> QED
    BY <1>1
<1> QED
  <2> HIDE DEF found
  <2> QED
    BY <1>2, <1>3

\* And that of collect_paths, which follows all parts.
LEMMA PathsExist ==
    LET Named(paths, e) ==
          IF e[1] = "Path" THEN {e[2]} ELSE UNION {paths[part] : part \in Parts(e)}
    IN  \E f : f = [e \in Expressions |-> Named(f, e)]
<1> DEFINE Named(paths, e) ==
             IF e[1] = "Path" THEN {e[2]} ELSE UNION {paths[part] : part \in Parts(e)}
           Lower(k) == {e \in Expressions : Depth(e) < k}
           T == {k \in 0 .. MaxDepth + 1 : \E f : f = [e \in Lower(k) |-> Named(f, e)]}
<1>1. 0 \in T
  <2>1. Lower(0) = {}
    BY ExpressionsAssumption
  <2> DEFINE none == [e \in {} |-> <<>>]
  <2>2. none = [e \in Lower(0) |-> Named(none, e)]
    BY <2>1
  <2>3. \E f : f = [e \in Lower(0) |-> Named(f, e)]
    <3> HIDE DEF none, Named, Lower
    <3> QED
      BY <2>2
  <2> HIDE DEF Named, Lower
  <2> QED
    BY <2>3, ExpressionsAssumption
<1>2. ASSUME NEW k \in 1 .. MaxDepth + 1, k - 1 \in T
      PROVE  k \in T
  <2>1. PICK f : f = [e \in Lower(k - 1) |-> Named(f, e)]
    BY <1>2
  <2> DEFINE g == [e \in Lower(k) |-> Named(f, e)]
  <2>2. \A e \in Lower(k - 1) : e \in Lower(k) /\ g[e] = f[e]
    <3>1. \A e \in Lower(k - 1) : e \in Lower(k)
      BY ExpressionsAssumption
    <3> HIDE DEF Named
    <3> QED
      BY <2>1, <3>1
  <2>3. ASSUME NEW e \in Lower(k)
        PROVE  Named(f, e) = Named(g, e)
    <3>1. ASSUME NEW part \in Parts(e)
          PROVE  f[part] = g[part]
      <4>1. part \in Lower(k - 1)
        BY <3>1, ExpressionsAssumption
      <4> HIDE DEF g
      <4> QED
        BY <4>1, <2>2
    <3>2. {f[part] : part \in Parts(e)} = {g[part] : part \in Parts(e)}
      <4> HIDE DEF g
      <4> QED
        BY <3>1
    <3> HIDE DEF g
    <3> QED
      BY <3>2
  <2>4. g = [e \in Lower(k) |-> Named(g, e)]
    <3> HIDE DEF Named
    <3> QED
      BY <2>3
  <2>5. \E h : h = [e \in Lower(k) |-> Named(h, e)]
    <3> HIDE DEF g, Named, Lower
    <3> QED
      BY <2>4
  <2> HIDE DEF Named, Lower
  <2> QED
    BY <2>5
<1>3. MaxDepth + 1 \in T
  <2> HIDE DEF T
  <2> QED
    BY <1>1, <1>2, LevelByLevel, ExpressionsAssumption
<1>4. Lower(MaxDepth + 1) = Expressions
  BY ExpressionsAssumption
<1>5. \E f : f = [e \in Lower(MaxDepth + 1) |-> Named(f, e)]
  <2> HIDE DEF Lower, Named
  <2> QED
    BY <1>3
<1>6. \E f : f = [e \in Expressions |-> Named(f, e)]
  <2> HIDE DEF Lower, Named
  <2> QED
    BY <1>4, <1>5
<1> QED
  BY <1>6

\* collect_paths of an expression by those of its parts.
LEMMA PathRecursion ==
    ASSUME NEW e \in Expressions
    PROVE  collect_paths(e) =
             IF e[1] = "Path" THEN {e[2]} ELSE UNION {collect_paths(part) : part \in Parts(e)}
<1> DEFINE Named(paths, x) ==
             IF x[1] = "Path" THEN {x[2]} ELSE UNION {paths[part] : part \in Parts(x)}
           IsNamed(f) == f = [x \in Expressions |-> Named(f, x)]
           named == CHOOSE f : IsNamed(f)
<1>1. IsNamed(named)
  <2>1. \E f : IsNamed(f)
    BY PathsExist
  <2> HIDE DEF IsNamed
  <2> QED
    BY <2>1
<1>2. \A x : collect_paths(x) = named[x]
  BY DEF collect_paths
<1>3. named[e] = Named(named, e)
  <2> HIDE DEF named, Named
  <2> QED
    BY <1>1
<1> QED
  <2> HIDE DEF named
  <2> QED
    BY <1>2, <1>3

\* An alternative has a result if one of the two has.
LEMMA OrElseFound ==
    ASSUME NEW one, NEW other
    PROVE  /\ OrElse(one, other) # <<>> <=> one # <<>> \/ other # <<>>
           /\ one # <<>> => OrElse(one, other) = one
           /\ one = <<>> => OrElse(one, other) = other
BY DEF OrElse

\* A path beside a literal that an index takes, as telemetry and planner see it.
LEMMA PathLiterals ==
    ASSUME NEW path \in Expressions, NEW literal
    PROVE  /\ \A field : path_literal(path, literal, field) # <<>>
                 <=> field \in Range(indexable_path_literal(path, literal))
           /\ Range(indexable_path_literal(path, literal)) \subseteq collect_paths(path)
           /\ indexable_path_literal(path, literal) # <<>>
                 => path[1] = "Path" /\ literal[1] = "Literal"
           /\ indexable_path_literal(path, literal) = <<>>
                 => Range(indexable_path_literal(path, literal)) = {}
<1> DEFINE found == indexable_path_literal(path, literal)
<1>1. CASE path[1] = "Path" /\ literal[1] = "Literal" /\ Key(literal[2]) # <<>>
  <2>1. found = <<path[2]>> /\ path = <<"Path", path[2]>>
    BY <1>1, ExpressionsAssumption DEF indexable_path_literal
  <2>2. Range(found) = {path[2]} /\ found # <<>>
    BY <2>1 DEF Range
  <2>3. collect_paths(path) = {path[2]}
    BY <1>1, PathRecursion
  <2>4. \A field : path = <<"Path", field>> <=> field = path[2]
    BY <2>1
  <2> QED
    BY <1>1, <2>2, <2>3, <2>4 DEF path_literal
<1>2. CASE ~(path[1] = "Path" /\ literal[1] = "Literal" /\ Key(literal[2]) # <<>>)
  <2>1. found = <<>>
    BY <1>2 DEF indexable_path_literal
  <2>2. Range(found) = {}
    BY <2>1 DEF Range
  <2>3. \A field : path = <<"Path", field>> => path[1] = "Path"
    OBVIOUS
  <2> QED
    BY <1>2, <2>1, <2>2, <2>3 DEF path_literal
<1> QED
  BY <1>1, <1>2

\* An equality is a candidate on the side that the planner has a key for.
LEMMA EqualityCandidates ==
    ASSUME NEW left \in Expressions, NEW right \in Expressions, NEW field
    PROVE  LET found == OrElse(indexable_path_literal(left, right),
                               indexable_path_literal(right, left))
           IN  /\ field \in Range(found) <=>
                    OrElse(path_literal(left, right, field), path_literal(right, left, field)) # <<>>
               /\ Range(found) \subseteq collect_paths(left) \cup collect_paths(right)
<1> DEFINE one == indexable_path_literal(left, right)
           other == indexable_path_literal(right, left)
<1>1. one = <<>> \/ other = <<>>
  BY PathLiterals
<1>2. Range(OrElse(one, other)) = Range(one) \cup Range(other)
  <2> HIDE DEF one, other
  <2>1. one = <<>> => Range(one) = {}
    BY PathLiterals DEF one
  <2>2. other = <<>> => Range(other) = {}
    BY PathLiterals DEF other
  <2> QED
    BY <1>1, <2>1, <2>2, OrElseFound
<1>3. /\ field \in Range(one) <=> path_literal(left, right, field) # <<>>
      /\ field \in Range(other) <=> path_literal(right, left, field) # <<>>
  BY PathLiterals
<1>4. Range(one) \subseteq collect_paths(left) /\ Range(other) \subseteq collect_paths(right)
  BY PathLiterals
<1> HIDE DEF one, other
<1>5. field \in Range(OrElse(one, other)) <=>
        OrElse(path_literal(left, right, field), path_literal(right, left, field)) # <<>>
  BY <1>2, <1>3, OrElseFound
<1> QED
  BY <1>2, <1>4, <1>5 DEF one, other

\* What telemetry calls an index candidate of a predicate is what the planner
\* finds a key for, whatever the predicate.
LEMMA CandidatesHaveKeys ==
    ASSUME NEW predicate \in Expressions, NEW field
    PROVE  field \in collect_index_candidates(predicate) <=> equality_key(predicate, field) # <<>>
<1> DEFINE S == {e \in Expressions :
                    field \in collect_index_candidates(e) <=> equality_key(e, field) # <<>>}
<1>1. ASSUME NEW e \in Expressions, \A part \in Parts(e) : part \in S
      PROVE  e \in S
  <2>1. CASE e[1] = "Binary" /\ e[2] = "And"
    <3>1. e[3] \in S /\ e[4] \in S
      BY <1>1, <2>1, BinaryParts
    <3>2. equality_key(e, field) = OrElse(equality_key(e[3], field), equality_key(e[4], field))
      BY <2>1, KeyRecursion
    <3>3. collect_index_candidates(e) =
            collect_index_candidates(e[3]) \cup collect_index_candidates(e[4])
      BY <2>1, CandidateRecursion
    <3> QED
      BY <3>1, <3>2, <3>3, OrElseFound
  <2>2. CASE e[1] = "Binary" /\ e[2] = "Equal"
    <3>1. e[3] \in Expressions /\ e[4] \in Expressions
      BY <2>2, BinaryParts
    <3>2. equality_key(e, field) =
            OrElse(path_literal(e[3], e[4], field), path_literal(e[4], e[3], field))
      BY <2>2, KeyRecursion
    <3>3. collect_index_candidates(e) =
            Range(OrElse(indexable_path_literal(e[3], e[4]), indexable_path_literal(e[4], e[3])))
      BY <2>2, CandidateRecursion
    <3> QED
      BY <3>1, <3>2, <3>3, EqualityCandidates
  <2>3. CASE ~(e[1] = "Binary" /\ e[2] = "And") /\ ~(e[1] = "Binary" /\ e[2] = "Equal")
    BY <2>3, KeyRecursion, CandidateRecursion
  <2> QED
    BY <2>1, <2>2, <2>3
<1>2. \A e \in Expressions : e \in S
  <2> HIDE DEF S
  <2> QED
    BY <1>1, PartsFirst
<1> QED
  BY <1>2

\* Index candidates are among the paths of their predicate.
LEMMA CandidatesAreNamed ==
    ASSUME NEW predicate \in Expressions
    PROVE  collect_index_candidates(predicate) \subseteq collect_paths(predicate)
<1> DEFINE S == {e \in Expressions : collect_index_candidates(e) \subseteq collect_paths(e)}
<1>1. ASSUME NEW e \in Expressions, \A part \in Parts(e) : part \in S
      PROVE  e \in S
  <2>1. CASE e[1] = "Binary"
    <3>1. e[3] \in S /\ e[4] \in S /\ e[3] \in Expressions /\ e[4] \in Expressions
      BY <1>1, <2>1, BinaryParts
    <3>2. collect_paths(e[3]) \cup collect_paths(e[4]) \subseteq collect_paths(e)
      <4>1. collect_paths(e) = UNION {collect_paths(part) : part \in {e[3], e[4]}}
        BY <2>1, BinaryParts, PathRecursion
      <4> QED
        BY <4>1
    <3>3. collect_index_candidates(e) \subseteq collect_paths(e[3]) \cup collect_paths(e[4])
      <4>1. CASE e[2] = "And"
        BY <2>1, <3>1, <4>1, CandidateRecursion
      <4>2. CASE e[2] = "Equal"
        BY <2>1, <3>1, <4>2, CandidateRecursion, EqualityCandidates
      <4>3. CASE e[2] \notin {"And", "Equal"}
        BY <4>3, CandidateRecursion
      <4> QED
        BY <4>1, <4>2, <4>3
    <3> QED
      BY <3>2, <3>3
  <2>2. CASE e[1] # "Binary"
    BY <2>2, CandidateRecursion
  <2> QED
    BY <2>1, <2>2
<1>2. \A e \in Expressions : e \in S
  <2> HIDE DEF S
  <2> QED
    BY <1>1, PartsFirst
<1> QED
  BY <1>2

\* The one filter of a query.
LEMMA FilterFormed ==
    ASSUME NEW q, WellFormed(q), Filters(q.stages) # {}
    PROVE  /\ Filters(q.stages) = {1} /\ 1 \in DOMAIN q.stages /\ q.stages[1][1] = "Filter"
           /\ q.stages[1][2] \in Expressions
           /\ Predicate(q.stages) = q.stages[1][2]
           /\ q.command[1] \in Piped
<1>1. Filters(q.stages) = {1}
  BY DEF WellFormed
<1>2. 1 \in DOMAIN q.stages /\ q.stages[1][1] = "Filter"
  BY <1>1 DEF Filters
<1>3. q.stages[1][2] \in Expressions
  BY <1>2 DEF WellFormed, StageFormed
<1>4. Predicate(q.stages) = q.stages[1][2]
  BY <1>1 DEF Predicate, Min
<1>5. q.command[1] \in Piped
  BY <1>2 DEF WellFormed
<1> QED
  BY <1>1, <1>2, <1>3, <1>4, <1>5

\* With an index on a candidate path of a query, the planner scans an index.
LEMMA PlanUsesIndex ==
    ASSUME NEW q, WellFormed(q), NEW catalog, NEW name \in DOMAIN catalog,
           EventCollection(q.command) = <<catalog[name].collection>>,
           catalog[name].field \in index_candidate_paths(q.stages)
    PROVE  plan(q, catalog)[1] = "IndexScan"
<1>1. PICK n \in Filters(q.stages) :
        catalog[name].field \in collect_index_candidates(q.stages[n][2])
  BY DEF index_candidate_paths
<1>2. n = 1 /\ Filters(q.stages) = {1} /\ q.stages[1][2] \in Expressions
  BY <1>1, FilterFormed
<1>3. Predicate(q.stages) = q.stages[1][2] /\ q.command[1] \in Piped
  BY <1>1, FilterFormed
<1>5. q.command[2] = catalog[name].collection
  BY <1>3 DEF EventCollection, Piped
<1>6. equality_key(Predicate(q.stages), catalog[name].field) # <<>>
  BY <1>1, <1>2, <1>3, CandidatesHaveKeys
<1>7. name \in Usable(q.command[2], q.stages, catalog)
  BY <1>2, <1>5, <1>6 DEF Usable
<1> QED
  BY <1>3, <1>7 DEF plan

\* Of an index alone, the planner makes use exactly if telemetry names its path.
LEMMA AloneInCatalog ==
    ASSUME NEW q, WellFormed(q), q.command[1] \in Piped, NEW catalog, NEW name,
           DOMAIN catalog = {name}, catalog[name].collection = q.command[2]
    PROVE  catalog[name].field \in index_candidate_paths(q.stages) <=>
             plan(q, catalog)[1] = "IndexScan"
<1> DEFINE path == catalog[name].field
<1>1. ASSUME path \in index_candidate_paths(q.stages)
      PROVE  plan(q, catalog)[1] = "IndexScan"
  <2>1. EventCollection(q.command) = <<q.command[2]>>
    BY DEF EventCollection, Piped
  <2> QED
    BY <1>1, <2>1, PlanUsesIndex
<1>2. ASSUME plan(q, catalog)[1] = "IndexScan"
      PROVE  path \in index_candidate_paths(q.stages)
  <2>1. Usable(q.command[2], q.stages, catalog) # {}
    BY <1>2 DEF plan
  <2>2. Filters(q.stages) # {} /\ equality_key(Predicate(q.stages), path) # <<>>
    BY <2>1 DEF Usable
  <2>3. Filters(q.stages) = {1} /\ q.stages[1][2] \in Expressions
    BY <2>2, FilterFormed
  <2>4. Predicate(q.stages) = q.stages[1][2]
    BY <2>2, FilterFormed
  <2>5. path \in collect_index_candidates(q.stages[1][2])
    BY <2>2, <2>3, <2>4, CandidatesHaveKeys
  <2> QED
    BY <2>3, <2>5 DEF index_candidate_paths
<1> QED
  BY <1>1, <1>2

\* So it is for the commands that the planner gives an index: telemetry names as
\* index candidates exactly the paths on which an index alone would be scanned.
THEOREM CandidatesAreIndexable ==
    ASSUME NEW q, WellFormed(q), q.command[1] \in Piped, NEW name, NEW path
    PROVE  path \in index_candidate_paths(q.stages) <=>
             plan(q, [n \in {name} |-> [collection |-> q.command[2],
                                        field |-> path]])[1] = "IndexScan"
<1> DEFINE catalog == [n \in {name} |-> [collection |-> q.command[2], field |-> path]]
<1>1. DOMAIN catalog = {name} /\ catalog[name].collection = q.command[2]
      /\ catalog[name].field = path
  OBVIOUS
<1> HIDE DEF catalog
<1>2. path \in index_candidate_paths(q.stages) <=> plan(q, catalog)[1] = "IndexScan"
  BY <1>1, AloneInCatalog
<1> QED
  BY <1>2 DEF catalog

-----------------------------------------------------------------------------
(* What a session keeps *)

QueryAtHand == query = <<>> \/ \E tree \in Trees : query = <<tree>>

\* The query at hand is a tree that was submitted.
LEMMA QueryIsAtHand == QuerySpec => []QueryAtHand
<1>1. QueryInit => QueryAtHand
  BY DEF QueryInit, QueryAtHand
<1>2. QueryAtHand /\ [QueryNext]_queryVars => QueryAtHand'
  BY DEF QueryAtHand, QueryNext, Submit, ExecuteQuery, queryVars
<1> QED
  BY <1>1, <1>2, PTL DEF QuerySpec

\* For any query of a session, telemetry names as index candidates exactly the
\* paths on which the planner would use an index, were it the only one.
THEOREM AlwaysCandidatesAreUsable == QuerySpec => []CandidatesAreUsable
<1>1. QueryAtHand => CandidatesAreUsable
  <2>1. SUFFICES ASSUME QueryAtHand, query # <<>>, query[1].command[1] \in Piped
                 PROVE  CandidatesAreUsable
    BY DEF CandidatesAreUsable
  <2> DEFINE q == query[1]
             event == observed_event(q, <<"CollectionScan">>, execute(q, store, nextId))
  <2>2. WellFormed(q) /\ q.command[1] \in Piped
    BY <2>1, SessionAssumption DEF QueryAtHand
  <2>3. event.index_candidate_paths = index_candidate_paths(q.stages)
    BY DEF observed_event, build_event
  <2> HIDE DEF q, event
  <2>4. \A path : path \in event.index_candidate_paths <=>
          plan(q, [name \in {<<"n">>} |-> [collection |-> q.command[2], field |-> path]])[1]
            = "IndexScan"
    <3> TAKE path
    <3> DEFINE n == <<"n">>
               catalog == [name \in {n} |-> [collection |-> q.command[2], field |-> path]]
    <3>1. DOMAIN catalog = {n} /\ catalog[n].collection = q.command[2]
          /\ catalog[n].field = path
      <4> HIDE DEF n
      <4> QED
        OBVIOUS
    <3> HIDE DEF n, catalog
    <3>2. path \in index_candidate_paths(q.stages) <=> plan(q, catalog)[1] = "IndexScan"
      BY <2>2, <3>1, AloneInCatalog
    <3>3. path \in event.index_candidate_paths <=> plan(q, catalog)[1] = "IndexScan"
      BY <2>3, <3>2
    <3> QED
      BY <3>3 DEF catalog, n
  <2>5. AreUsable(q, event.index_candidate_paths)
    BY <2>4 DEF AreUsable, PlannerUses
  <2> QED
    BY <2>5 DEF q, event, CandidatesAreUsable
<1> QED
  BY <1>1, QueryIsAtHand, PTL

-----------------------------------------------------------------------------
(* Values *)

\* The places of the parts of an expression.
LEMMA PartsAreParts ==
    ASSUME NEW e \in Expressions
    PROVE  /\ e[1] = "Array" => \A i \in DOMAIN e[2] : e[2][i] \in Parts(e)
           /\ e[1] = "Object" => \A i \in DOMAIN e[2] : e[2][i][2] \in Parts(e)
           /\ e[1] = "Unary" => e[3] \in Parts(e)
           /\ e[1] = "Binary" => e[3] \in Parts(e) /\ e[4] \in Parts(e)
BY DEF Parts, Range

\* The recursion that defines evaluate reaches an end on every expression.
LEMMA ValuesExist ==
    ASSUME NEW document
    PROVE  \E f : f = [e \in Expressions |-> ValueOf(e, document, f)]
<1> DEFINE Lower(k) == {e \in Expressions : Depth(e) < k}
           T == {k \in 0 .. MaxDepth + 1 : \E f : f = [e \in Lower(k) |-> ValueOf(e, document, f)]}
<1>1. 0 \in T
  <2>1. Lower(0) = {}
    BY ExpressionsAssumption
  <2> DEFINE none == [e \in {} |-> <<>>]
  <2>2. none = [e \in Lower(0) |-> ValueOf(e, document, none)]
    BY <2>1
  <2>3. \E f : f = [e \in Lower(0) |-> ValueOf(e, document, f)]
    <3> HIDE DEF none, Lower
    <3> QED
      BY <2>2
  <2> HIDE DEF Lower
  <2> QED
    BY <2>3, ExpressionsAssumption
<1>2. ASSUME NEW k \in 1 .. MaxDepth + 1, k - 1 \in T
      PROVE  k \in T
  <2>1. PICK f : f = [e \in Lower(k - 1) |-> ValueOf(e, document, f)]
    BY <1>2
  <2> DEFINE g == [e \in Lower(k) |-> ValueOf(e, document, f)]
  <2>2. \A e \in Lower(k - 1) : e \in Lower(k) /\ g[e] = f[e]
    <3>1. \A e \in Lower(k - 1) : e \in Lower(k)
      BY ExpressionsAssumption
    <3> QED
      BY <2>1, <3>1
  <2>3. ASSUME NEW e \in Lower(k)
        PROVE  ValueOf(e, document, f) = ValueOf(e, document, g)
    <3>1. \A part \in Parts(e) : g[part] = f[part]
      <4>1. \A part \in Parts(e) : part \in Lower(k - 1)
        BY ExpressionsAssumption
      <4> HIDE DEF g, Lower
      <4> QED
        BY <4>1, <2>2
    <3> HIDE DEF g
    <3>2. CASE e[1] = "Array"
      <4>1. [i \in DOMAIN e[2] |-> f[e[2][i]]] = [i \in DOMAIN e[2] |-> g[e[2][i]]]
        BY <3>1, <3>2, PartsAreParts
      <4> QED
        BY <3>2, <4>1 DEF ValueOf
    <3>3. CASE e[1] = "Object"
      <4>1. [i \in DOMAIN e[2] |-> f[e[2][i][2]]] = [i \in DOMAIN e[2] |-> g[e[2][i][2]]]
        BY <3>1, <3>3, PartsAreParts
      <4> QED
        BY <3>3, <4>1 DEF ValueOf
    <3>4. CASE e[1] = "Unary"
      BY <3>1, <3>4, PartsAreParts DEF ValueOf
    <3>5. CASE e[1] = "Binary"
      BY <3>1, <3>5, PartsAreParts DEF ValueOf
    <3>6. CASE e[1] = "Literal" \/ e[1] = "Path"
      BY <3>6 DEF ValueOf
    <3>7. CASE e[1] \notin {"Array", "Object", "Unary", "Binary", "Literal", "Path"}
      BY <3>7 DEF ValueOf
    <3> QED
      BY <3>2, <3>3, <3>4, <3>5, <3>6, <3>7
  <2>4. g = [e \in Lower(k) |-> ValueOf(e, document, g)]
    BY <2>3
  <2>5. \E h : h = [e \in Lower(k) |-> ValueOf(e, document, h)]
    <3> HIDE DEF g, Lower
    <3> QED
      BY <2>4
  <2> HIDE DEF Lower
  <2> QED
    BY <2>5
<1>3. MaxDepth + 1 \in T
  <2> HIDE DEF T
  <2> QED
    BY <1>1, <1>2, LevelByLevel, ExpressionsAssumption
<1>4. Lower(MaxDepth + 1) = Expressions
  BY ExpressionsAssumption
<1>5. \E f : f = [e \in Lower(MaxDepth + 1) |-> ValueOf(e, document, f)]
  <2> HIDE DEF Lower
  <2> QED
    BY <1>3
<1>6. \E f : f = [e \in Expressions |-> ValueOf(e, document, f)]
  <2> HIDE DEF Lower
  <2> QED
    BY <1>4, <1>5
<1> QED
  BY <1>6

\* The value of an expression by those of its parts.
LEMMA ValueRecursion ==
    ASSUME NEW e \in Expressions, NEW document
    PROVE  LET value(part) == evaluate(part, document) IN
           /\ e[1] = "Literal" => value(e) = e[2]
           /\ e[1] = "Path" => value(e) = read_path(document, e[2])
           /\ e[1] = "Binary" => value(e) = evaluate_binary(e[2], value(e[3]), value(e[4]))
<1> DEFINE IsValue(f) == f = [x \in Expressions |-> ValueOf(x, document, f)]
           values == CHOOSE f : IsValue(f)
<1>1. IsValue(values)
  <2>1. \E f : IsValue(f)
    BY ValuesExist
  <2> HIDE DEF IsValue
  <2> QED
    BY <2>1
<1>2. \A x : evaluate(x, document) = values[x]
  BY DEF evaluate
<1>3. values[e] = ValueOf(e, document, values)
  <2> HIDE DEF values
  <2> QED
    BY <1>1
<1> QED
  <2> HIDE DEF values
  <2> QED
    BY <1>2, <1>3 DEF ValueOf

\* Values that are the same are alike.
LEMMA SameAreAlike ==
    ASSUME NEW left, NEW right, Same(left, right)
    PROVE  Alike(left, right)
<1> DEFINE Pairs1(pairs, n) ==
             IF n = 0 THEN {<<left, right>>}
             ELSE UNION {Facing(pair[1], pair[2]) : pair \in pairs[n - 1]}
           IsPairs(f) == f = [n \in 0 .. MaxNesting |-> Pairs1(f, n)]
           T == {k \in 0 .. MaxNesting : \E f : f = [n \in 0 .. k |-> Pairs1(f, n)]}
<1>1. 0 \in T
  <2> DEFINE first == [n \in 0 .. 0 |-> {<<left, right>>}]
  <2>1. first = [n \in 0 .. 0 |-> Pairs1(first, n)]
    OBVIOUS
  <2>2. \E f : f = [n \in 0 .. 0 |-> Pairs1(f, n)]
    <3> HIDE DEF first, Pairs1
    <3> QED
      BY <2>1
  <2> HIDE DEF Pairs1
  <2> QED
    BY <2>2, ValuesAssumption
<1>2. ASSUME NEW k \in 1 .. MaxNesting, k - 1 \in T
      PROVE  k \in T
  <2>1. PICK f : f = [n \in 0 .. k - 1 |-> Pairs1(f, n)]
    <3> HIDE DEF Pairs1
    <3> QED
      BY <1>2
  <2> DEFINE g == [n \in 0 .. k |-> Pairs1(f, n)]
  <2>2. \A n \in 0 .. k - 1 : n \in 0 .. k /\ g[n] = f[n]
    <3> HIDE DEF Pairs1
    <3> QED
      BY <2>1
  <2>3. ASSUME NEW n \in 0 .. k
        PROVE  Pairs1(f, n) = Pairs1(g, n)
    <3>1. n # 0 => n - 1 \in 0 .. k - 1
      OBVIOUS
    <3> HIDE DEF g
    <3> QED
      BY <2>2, <3>1
  <2>4. g = [n \in 0 .. k |-> Pairs1(g, n)]
    <3> HIDE DEF Pairs1
    <3> QED
      BY <2>3
  <2>5. \E h : h = [n \in 0 .. k |-> Pairs1(h, n)]
    <3> HIDE DEF g, Pairs1
    <3> QED
      BY <2>4
  <2> HIDE DEF Pairs1
  <2> QED
    BY <2>5
<1>3. MaxNesting \in T
  <2> HIDE DEF T
  <2> QED
    BY <1>1, <1>2, LevelByLevel, ValuesAssumption
<1>4. \E f : IsPairs(f)
  <2> HIDE DEF Pairs1
  <2> QED
    BY <1>3
<1> DEFINE found == CHOOSE f : IsPairs(f)
<1>5. IsPairs(found)
  <2> HIDE DEF IsPairs
  <2> QED
    BY <1>4
<1>6. \A n \in 0 .. MaxNesting : \A pair \in found[n] : Alike(pair[1], pair[2])
  BY DEF Same
<1>7. found[0] = {<<left, right>>}
  <2>1. found[0] = Pairs1(found, 0)
    <3> HIDE DEF found, Pairs1
    <3> QED
      BY <1>5, ValuesAssumption
  <2> HIDE DEF found
  <2> QED
    BY <2>1
<1> HIDE DEF found
<1> DEFINE both == <<left, right>>
<1>8. Alike(both[1], both[2])
  <2> HIDE DEF both
  <2>1. 0 \in 0 .. MaxNesting
    BY ValuesAssumption
  <2> QED
    BY <1>6, <1>7, <2>1 DEF both
<1>9. both[1] = left /\ both[2] = right
  OBVIOUS
<1> HIDE DEF both
<1> QED
  BY <1>8, <1>9

\* Among integers, strings and floats but minus zero, those alike are equal.
LEMMA ExactAreEqual ==
    ASSUME NEW one, NEW other, Exact(one), Exact(other), Key(other) # <<>>,
           Alike(one, other) \/ Alike(other, one)
    PROVE  one = other
<1>1. other[1] \in {"Int64", "Float64", "String"}
  BY DEF Key
<1>2. one[1] = other[1]
  BY DEF Alike
<1>3. CASE other[1] = "Float64"
  <2>1. FloatNumber(one[2]) = FloatNumber(other[2])
    BY <1>2, <1>3 DEF Alike
  <2> QED
    BY <1>2, <1>3, <2>1 DEF Exact
<1>4. CASE other[1] # "Float64"
  BY <1>1, <1>2, <1>4 DEF Alike
<1> QED
  BY <1>3, <1>4

\* Where an equality is true, the field has the value that the planner looks up.
LEMMA EqualityHasKey ==
    ASSUME NEW path \in Expressions, NEW literal \in Expressions, NEW field, NEW document,
           path_literal(path, literal, field) # <<>>, Exact(read_path(document, field)),
           \/ Alike(evaluate(path, document), evaluate(literal, document))
           \/ Alike(evaluate(literal, document), evaluate(path, document))
    PROVE  read_path(document, field) = path_literal(path, literal, field)[1]
<1>1. path = <<"Path", field>> /\ literal[1] = "Literal" /\ Key(literal[2]) # <<>>
  BY DEF path_literal
<1>2. path_literal(path, literal, field)[1] = literal[2]
  BY <1>1 DEF path_literal, Key
<1>3. path[1] = "Path" /\ path[2] = field
  BY <1>1
<1>4. evaluate(path, document) = read_path(document, field)
  BY <1>3, ValueRecursion
<1>5. evaluate(literal, document) = literal[2]
  BY <1>1, ValueRecursion
<1>6. Exact(literal[2])
  BY <1>1, LiteralsAssumption
<1> QED
  BY <1>1, <1>2, <1>4, <1>5, <1>6, ExactAreEqual

\* A document of which a predicate is true has, in a field that the planner has a
\* key for, the value of that key: the index finds it.
LEMMA TrueOnlyWithKey ==
    ASSUME NEW predicate \in Expressions, NEW field, NEW document,
           equality_key(predicate, field) # <<>>, Exact(read_path(document, field)),
           evaluate(predicate, document)[1] = "Boolean",
           evaluate(predicate, document)[2] # FALSE
    PROVE  read_path(document, field) = equality_key(predicate, field)[1]
<1> DEFINE value(e) == evaluate(e, document)
           S == {e \in Expressions :
                    (/\ equality_key(e, field) # <<>>
                     /\ evaluate(e, document)[1] = "Boolean"
                     /\ evaluate(e, document)[2] # FALSE)
                    => read_path(document, field) = equality_key(e, field)[1]}
<1>1. ASSUME NEW e \in Expressions, \A part \in Parts(e) : part \in S
      PROVE  e \in S
  <2>1. SUFFICES ASSUME equality_key(e, field) # <<>>, value(e)[1] = "Boolean",
                        value(e)[2] # FALSE
                 PROVE  read_path(document, field) = equality_key(e, field)[1]
    OBVIOUS
  <2>2. e[1] = "Binary" /\ e[2] \in {"And", "Equal"}
    BY <2>1, KeyRecursion
  <2>3. e[3] \in Expressions /\ e[4] \in Expressions /\ e[3] \in S /\ e[4] \in S
    BY <1>1, <2>2, BinaryParts
  <2>4. value(e) = evaluate_binary(e[2], value(e[3]), value(e[4]))
    BY <2>2, ValueRecursion
  <2>5. value(e[3]) # Error
    <3>1. value(e[3]) = Error => value(e)[1] = "Error"
      BY <2>4 DEF evaluate_binary, Error
    <3> QED
      BY <2>1, <3>1
  <2>6. CASE e[2] = "And"
    <3>1. value(e) = ShortCircuit(value(e[3]), FALSE, value(e[4]))
      BY <2>4, <2>5, <2>6 DEF evaluate_binary
    <3>2. /\ value(e[3])[1] = "Boolean" /\ value(e[3])[2] # FALSE
          /\ value(e[4])[1] = "Boolean" /\ value(e[4])[2] # FALSE
      <4>1. Error[1] # "Boolean"
        BY DEF Error
      <4> QED
        BY <2>1, <3>1, <4>1 DEF ShortCircuit
    <3>3. equality_key(e, field) = OrElse(equality_key(e[3], field), equality_key(e[4], field))
      BY <2>2, <2>6, KeyRecursion
    <3> QED
      BY <2>1, <2>3, <3>2, <3>3, OrElseFound
  <2>7. CASE e[2] = "Equal"
    <3>1. Alike(value(e[3]), value(e[4]))
      <4>1. value(e[4]) # Error
        <5>1. value(e[4]) = Error => value(e)[1] = "Error"
          BY <2>4, <2>5, <2>7 DEF evaluate_binary, Error
        <5> QED
          BY <2>1, <5>1
      <4>2. value(e) = Bool(Same(value(e[3]), value(e[4])))
        BY <2>4, <2>5, <2>7, <4>1 DEF evaluate_binary
      <4>3. value(e)[2] = Same(value(e[3]), value(e[4]))
        BY <4>2 DEF Bool
      <4>4. Same(value(e[3]), value(e[4])) \in BOOLEAN
        BY DEF Same
      <4> QED
        BY <2>1, <4>3, <4>4, SameAreAlike
    <3>2. equality_key(e, field) =
            OrElse(path_literal(e[3], e[4], field), path_literal(e[4], e[3], field))
      BY <2>2, <2>7, KeyRecursion
    <3>3. CASE path_literal(e[3], e[4], field) # <<>>
      BY <2>3, <3>1, <3>2, <3>3, EqualityHasKey, OrElseFound
    <3>4. CASE path_literal(e[3], e[4], field) = <<>>
      <4>1. /\ equality_key(e, field) = path_literal(e[4], e[3], field)
            /\ path_literal(e[4], e[3], field) # <<>>
        BY <2>1, <3>2, <3>4, OrElseFound
      <4> QED
        BY <2>3, <3>1, <4>1, EqualityHasKey
    <3> QED
      BY <3>3, <3>4
  <2> QED
    BY <2>2, <2>6, <2>7
<1>2. \A e \in Expressions : e \in S
  <2> HIDE DEF S
  <2> QED
    BY <1>1, PartsFirst
<1> QED
  BY <1>2

-----------------------------------------------------------------------------
(* Sequences of documents *)

\* Chosen as its loop finds it, element by element.
LEMMA ChosenSteps ==
    ASSUME NEW sequence, Len(sequence) \in Nat, NEW S
    PROVE  \E f : /\ f[0] = <<>>
                  /\ \A n \in 1 .. Len(sequence) :
                       f[n] = IF sequence[n] \in S THEN Append(f[n - 1], sequence[n]) ELSE f[n - 1]
                  /\ Chosen(sequence, S) = f[Len(sequence)]
<1> DEFINE last == Len(sequence)
           Chosen1(chosen, n) ==
             CASE n = 0 -> <<>>
               [] n > 0 /\ sequence[n] \in S -> Append(chosen[n - 1], sequence[n])
               [] OTHER -> chosen[n - 1]
           IsChosen(f) == f = [n \in 0 .. last |-> Chosen1(f, n)]
           T == {k \in 0 .. last : \E f : f = [n \in 0 .. k |-> Chosen1(f, n)]}
<1>1. 0 \in T
  <2> DEFINE first == [n \in 0 .. 0 |-> <<>>]
  <2>1. first = [n \in 0 .. 0 |-> Chosen1(first, n)]
    OBVIOUS
  <2>2. \E f : f = [n \in 0 .. 0 |-> Chosen1(f, n)]
    <3> HIDE DEF first, Chosen1
    <3> QED
      BY <2>1
  <2> HIDE DEF Chosen1
  <2> QED
    BY <2>2
<1>2. ASSUME NEW k \in 1 .. last, k - 1 \in T
      PROVE  k \in T
  <2>1. PICK f : f = [n \in 0 .. k - 1 |-> Chosen1(f, n)]
    <3> HIDE DEF Chosen1
    <3> QED
      BY <1>2
  <2> DEFINE g == [n \in 0 .. k |-> Chosen1(f, n)]
  <2>2. \A n \in 0 .. k - 1 : n \in 0 .. k /\ g[n] = f[n]
    <3> HIDE DEF Chosen1
    <3> QED
      BY <2>1
  <2>3. ASSUME NEW n \in 0 .. k
        PROVE  Chosen1(f, n) = Chosen1(g, n)
    <3>1. n # 0 => n - 1 \in 0 .. k - 1
      OBVIOUS
    <3> HIDE DEF g
    <3> QED
      BY <2>2, <3>1
  <2>4. g = [n \in 0 .. k |-> Chosen1(g, n)]
    <3> HIDE DEF Chosen1
    <3> QED
      BY <2>3
  <2>5. \E h : h = [n \in 0 .. k |-> Chosen1(h, n)]
    <3> HIDE DEF g, Chosen1
    <3> QED
      BY <2>4
  <2> HIDE DEF Chosen1
  <2> QED
    BY <2>5
<1>3. last \in T
  <2>1. last \in Nat
    OBVIOUS
  <2> HIDE DEF T, last
  <2> QED
    BY <1>1, <1>2, <2>1, LevelByLevel
<1> DEFINE found == CHOOSE f : IsChosen(f)
<1>4. IsChosen(found)
  <2>1. \E f : IsChosen(f)
    <3> HIDE DEF Chosen1
    <3> QED
      BY <1>3
  <2> HIDE DEF IsChosen
  <2> QED
    BY <2>1
<1>5. Chosen(sequence, S) = found[last]
  BY DEF Chosen
<1>6. \A n \in 0 .. last : found[n] = Chosen1(found, n)
  <2> HIDE DEF found, Chosen1
  <2> QED
    BY <1>4
<1>7. /\ found[0] = <<>>
      /\ \A n \in 1 .. last :
           found[n] = IF sequence[n] \in S THEN Append(found[n - 1], sequence[n]) ELSE found[n - 1]
  <2> HIDE DEF found
  <2>1. found[0] = <<>>
    BY <1>6
  <2>2. ASSUME NEW n \in 1 .. last
        PROVE  found[n] = IF sequence[n] \in S THEN Append(found[n - 1], sequence[n])
                          ELSE found[n - 1]
    <3>1. n \in 0 .. last /\ n # 0 /\ n > 0
      OBVIOUS
    <3> QED
      BY <1>6, <3>1
  <2> QED
    BY <2>1, <2>2
<1> HIDE DEF found
<1> QED
  BY <1>5, <1>7

\* What is chosen of an empty sequence, and of one with an element more.
LEMMA ChosenOfMore ==
    ASSUME NEW X, NEW sequence \in Seq(X), NEW x \in X, NEW S
    PROVE  /\ Chosen(<<>>, S) = <<>>
           /\ Chosen(Append(sequence, x), S) =
                IF x \in S THEN Append(Chosen(sequence, S), x) ELSE Chosen(sequence, S)
<1>1. Chosen(<<>>, S) = <<>>
  <2>1. Len(<<>>) = 0
    OBVIOUS
  <2> QED
    BY <2>1, ChosenSteps
<1> DEFINE last == Len(sequence)
           more == Append(sequence, x)
<1>2. /\ last \in Nat /\ Len(more) = last + 1 /\ more[last + 1] = x
      /\ \A n \in 1 .. last : more[n] = sequence[n]
  OBVIOUS
<1> HIDE DEF more
<1>3. PICK f : /\ f[0] = <<>>
               /\ \A n \in 1 .. last :
                    f[n] = IF sequence[n] \in S THEN Append(f[n - 1], sequence[n]) ELSE f[n - 1]
               /\ Chosen(sequence, S) = f[last]
  BY <1>2, ChosenSteps
<1>4. PICK g : /\ g[0] = <<>>
               /\ \A n \in 1 .. last + 1 :
                    g[n] = IF more[n] \in S THEN Append(g[n - 1], more[n]) ELSE g[n - 1]
               /\ Chosen(more, S) = g[last + 1]
  <2>1. Len(more) \in Nat
    BY <1>2
  <2> QED
    BY <1>2, <2>1, ChosenSteps
<1>5. f[last] = g[last]
  <2> DEFINE T == {n \in 0 .. last : f[n] = g[n]}
  <2>1. 0 \in T
    BY <1>2, <1>3, <1>4
  <2>2. ASSUME NEW n \in 1 .. last, n - 1 \in T
        PROVE  n \in T
    <3>1. n \in 1 .. last + 1 /\ more[n] = sequence[n] /\ f[n - 1] = g[n - 1]
      BY <1>2, <2>2
    <3> QED
      BY <1>3, <1>4, <3>1
  <2>3. last \in T
    <3>1. last \in Nat
      BY <1>2
    <3> HIDE DEF T, last
    <3>2. \A n \in 0 .. last : n \in T
      BY <2>1, <2>2, <3>1, LevelByLevel
    <3> QED
      BY <3>1, <3>2
  <2> QED
    BY <2>3
<1>6. last + 1 \in 1 .. last + 1 /\ (last + 1) - 1 = last
  BY <1>2
<1> QED
  BY <1>1, <1>2, <1>3, <1>4, <1>5, <1>6 DEF more

\* Choosing keeps to the elements in the set, and passes none of them over.
LEMMA ChosenElements ==
    ASSUME NEW X, NEW sequence \in Seq(X), NEW S
    PROVE  /\ Chosen(sequence, S) \in Seq(X)
           /\ Len(Chosen(sequence, S)) <= Len(sequence)
           /\ Range(Chosen(sequence, S)) = Range(sequence) \cap S
<1> DEFINE last == Len(sequence)
<1>1. PICK f : /\ f[0] = <<>>
               /\ \A n \in 1 .. last :
                    f[n] = IF sequence[n] \in S THEN Append(f[n - 1], sequence[n]) ELSE f[n - 1]
               /\ Chosen(sequence, S) = f[last]
  BY ChosenSteps
<1> DEFINE Upto(n) == {sequence[i] : i \in 1 .. n}
           T == {n \in 0 .. last : /\ f[n] \in Seq(X) /\ Len(f[n]) <= n
                                   /\ Range(f[n]) = Upto(n) \cap S}
<1>2. 0 \in T
  <2>1. last \in Nat /\ f[0] = <<>> /\ Len(<<>>) = 0 /\ <<>> \in Seq(X)
    BY <1>1
  <2>2. Range(<<>>) = {} /\ Upto(0) = {}
    BY DEF Range
  <2> HIDE DEF Upto
  <2>3. f[0] \in Seq(X) /\ Len(f[0]) <= 0 /\ Range(f[0]) = Upto(0) \cap S
    BY <2>1, <2>2
  <2>4. 0 \in 0 .. last
    BY <2>1
  <2> HIDE DEF last
  <2> QED
    BY <2>3, <2>4
<1>3. ASSUME NEW n \in 1 .. last, n - 1 \in T
      PROVE  n \in T
  <2>1. sequence[n] \in X /\ f[n - 1] \in Seq(X) /\ Len(f[n - 1]) <= n - 1
        /\ Range(f[n - 1]) = Upto(n - 1) \cap S
    BY <1>3
  <2>2. Upto(n) = Upto(n - 1) \cup {sequence[n]}
    <3>1. 1 .. n = (1 .. n - 1) \cup {n}
      OBVIOUS
    <3> QED
      BY <3>1
  <2> HIDE DEF Upto
  <2>3. CASE sequence[n] \in S
    <3>1. f[n] = Append(f[n - 1], sequence[n])
      BY <1>1, <2>3
    <3>3. f[n] \in Seq(X) /\ Len(f[n]) <= n
      BY <2>1, <3>1
    <3>2. Range(f[n]) = Range(f[n - 1]) \cup {sequence[n]}
      <4> DEFINE before == f[n - 1]
      <4>1. /\ DOMAIN f[n] = 1 .. Len(before) + 1 /\ DOMAIN before = 1 .. Len(before)
            /\ Len(before) \in Nat /\ f[n][Len(before) + 1] = sequence[n]
            /\ \A i \in 1 .. Len(before) : f[n][i] = before[i]
        BY <2>1, <3>1
      <4> HIDE DEF before
      <4>2. 1 .. Len(before) + 1 = (1 .. Len(before)) \cup {Len(before) + 1}
        BY <4>1
      <4>3. Range(f[n]) = Range(before) \cup {sequence[n]}
        BY <4>1, <4>2 DEF Range
      <4> QED
        BY <4>3 DEF before
    <3>4. Range(f[n]) = Upto(n) \cap S
      BY <2>1, <2>2, <2>3, <3>2
    <3> QED
      BY <3>3, <3>4 DEF Upto
  <2>4. CASE sequence[n] \notin S
    BY <1>1, <2>1, <2>2, <2>4
  <2> QED
    BY <2>3, <2>4
<1>4. last \in T
  <2>1. last \in Nat
    OBVIOUS
  <2> HIDE DEF T, last
  <2>2. \A k \in 0 .. last : k \in T
    BY <1>2, <1>3, <2>1, LevelByLevel
  <2> QED
    BY <2>1, <2>2
<1>5. Range(sequence) = Upto(last)
  BY DEF Range
<1> QED
  BY <1>1, <1>4, <1>5

\* Choosing twice is choosing what is in both sets.
LEMMA ChosenTwice ==
    ASSUME NEW X, NEW sequence \in Seq(X), NEW A, NEW B
    PROVE  Chosen(Chosen(sequence, A), B) = Chosen(sequence, A \cap B)
<1> DEFINE last == Len(sequence)
           both == A \cap B
<1>1. PICK f : /\ f[0] = <<>>
               /\ \A n \in 1 .. last :
                    f[n] = IF sequence[n] \in A THEN Append(f[n - 1], sequence[n]) ELSE f[n - 1]
               /\ Chosen(sequence, A) = f[last]
  BY ChosenSteps
<1>2. PICK g : /\ g[0] = <<>>
               /\ \A n \in 1 .. last :
                    g[n] = IF sequence[n] \in both THEN Append(g[n - 1], sequence[n]) ELSE g[n - 1]
               /\ Chosen(sequence, both) = g[last]
  <2> HIDE DEF both
  <2> QED
    BY ChosenSteps
<1> DEFINE T == {n \in 0 .. last : f[n] \in Seq(X) /\ Chosen(f[n], B) = g[n]}
<1>3. 0 \in T
  <2>1. Chosen(<<>>, B) = <<>>
    <3>1. Len(<<>>) = 0
      OBVIOUS
    <3> QED
      BY <3>1, ChosenSteps
  <2>2. 0 \in 0 .. last /\ <<>> \in Seq(X)
    OBVIOUS
  <2>3. f[0] \in Seq(X) /\ Chosen(f[0], B) = g[0]
    BY <1>1, <1>2, <2>1, <2>2
  <2> HIDE DEF last
  <2> QED
    BY <2>2, <2>3
<1>4. ASSUME NEW n \in 1 .. last, n - 1 \in T
      PROVE  n \in T
  <2>1. sequence[n] \in X /\ f[n - 1] \in Seq(X) /\ Chosen(f[n - 1], B) = g[n - 1]
    BY <1>4
  <2>2. CASE sequence[n] \in A
    <3>1. f[n] = Append(f[n - 1], sequence[n])
      BY <1>1, <2>2
    <3> DEFINE t == f[n - 1]
               x == sequence[n]
    <3>2. Chosen(f[n], B) = IF x \in B THEN Append(Chosen(t, B), x) ELSE Chosen(t, B)
      <4>1. t \in Seq(X) /\ x \in X /\ f[n] = Append(t, x)
        BY <2>1, <3>1
      <4> HIDE DEF t, x
      <4> QED
        BY <4>1, ChosenOfMore
    <3>3. x \in both <=> x \in B
      BY <2>2
    <3>4. g[n] = IF x \in both THEN Append(g[n - 1], x) ELSE g[n - 1]
      BY <1>2
    <3>5. f[n] \in Seq(X)
      BY <2>1, <3>1
    <3> QED
      BY <2>1, <3>2, <3>3, <3>4, <3>5
  <2>3. CASE sequence[n] \notin A
    BY <1>1, <1>2, <2>1, <2>3
  <2> QED
    BY <2>2, <2>3
<1>5. last \in T
  <2>1. last \in Nat
    OBVIOUS
  <2> HIDE DEF T, last
  <2>2. \A k \in 0 .. last : k \in T
    BY <1>3, <1>4, <2>1, LevelByLevel
  <2> QED
    BY <2>1, <2>2
<1> QED
  BY <1>1, <1>2, <1>5

\* What is chosen depends on the elements of the sequence only.
LEMMA ChosenInRange ==
    ASSUME NEW X, NEW sequence \in Seq(X), NEW A, NEW B,
           Range(sequence) \cap A = Range(sequence) \cap B
    PROVE  Chosen(sequence, A) = Chosen(sequence, B)
<1> DEFINE last == Len(sequence)
<1>1. PICK f : /\ f[0] = <<>>
               /\ \A n \in 1 .. last :
                    f[n] = IF sequence[n] \in A THEN Append(f[n - 1], sequence[n]) ELSE f[n - 1]
               /\ Chosen(sequence, A) = f[last]
  BY ChosenSteps
<1>2. PICK g : /\ g[0] = <<>>
               /\ \A n \in 1 .. last :
                    g[n] = IF sequence[n] \in B THEN Append(g[n - 1], sequence[n]) ELSE g[n - 1]
               /\ Chosen(sequence, B) = g[last]
  BY ChosenSteps
<1> DEFINE T == {n \in 0 .. last : f[n] = g[n]}
<1>3. 0 \in T
  BY <1>1, <1>2
<1>4. ASSUME NEW n \in 1 .. last, n - 1 \in T
      PROVE  n \in T
  <2>1. sequence[n] \in A <=> sequence[n] \in B
    BY DEF Range
  <2>2. f[n - 1] = g[n - 1]
    BY <1>4
  <2> QED
    BY <1>1, <1>2, <2>1, <2>2
<1>5. last \in T
  <2>1. last \in Nat
    OBVIOUS
  <2> HIDE DEF T, last
  <2>2. \A k \in 0 .. last : k \in T
    BY <1>3, <1>4, <2>1, LevelByLevel
  <2> QED
    BY <2>1, <2>2
<1> QED
  BY <1>1, <1>2, <1>5

\* A pipeline as its loop runs it, stage by stage.
LEMMA PipelineSteps ==
    ASSUME NEW documents, NEW stages, Len(stages) \in Nat
    PROVE  \E f : /\ f[0] = <<documents>>
                  /\ \A n \in 1 .. Len(stages) :
                       f[n] = IF f[n - 1] = <<>> THEN <<>> ELSE RunStage(f[n - 1][1], stages[n])
                  /\ run_pipeline(documents, stages) = f[Len(stages)]
<1> DEFINE last == Len(stages)
           Reached1(past, n) ==
             IF n = 0 THEN <<documents>>
             ELSE IF past[n - 1] = <<>> THEN <<>> ELSE RunStage(past[n - 1][1], stages[n])
           IsReached1(f) == f = [n \in 0 .. last |-> Reached1(f, n)]
           T == {k \in 0 .. last : \E f : f = [n \in 0 .. k |-> Reached1(f, n)]}
<1>1. 0 \in T
  <2> DEFINE first == [n \in 0 .. 0 |-> <<documents>>]
  <2>1. first = [n \in 0 .. 0 |-> Reached1(first, n)]
    OBVIOUS
  <2>2. \E f : f = [n \in 0 .. 0 |-> Reached1(f, n)]
    <3> HIDE DEF first, Reached1
    <3> QED
      BY <2>1
  <2> HIDE DEF Reached1
  <2> QED
    BY <2>2
<1>2. ASSUME NEW k \in 1 .. last, k - 1 \in T
      PROVE  k \in T
  <2>1. PICK f : f = [n \in 0 .. k - 1 |-> Reached1(f, n)]
    <3> HIDE DEF Reached1
    <3> QED
      BY <1>2
  <2> DEFINE g == [n \in 0 .. k |-> Reached1(f, n)]
  <2>2. \A n \in 0 .. k - 1 : n \in 0 .. k /\ g[n] = f[n]
    <3> HIDE DEF Reached1
    <3> QED
      BY <2>1
  <2>3. ASSUME NEW n \in 0 .. k
        PROVE  Reached1(f, n) = Reached1(g, n)
    <3>1. n # 0 => n - 1 \in 0 .. k - 1
      OBVIOUS
    <3> HIDE DEF g
    <3> QED
      BY <2>2, <3>1
  <2>4. g = [n \in 0 .. k |-> Reached1(g, n)]
    <3> HIDE DEF Reached1
    <3> QED
      BY <2>3
  <2>5. \E h : h = [n \in 0 .. k |-> Reached1(h, n)]
    <3> HIDE DEF g, Reached1
    <3> QED
      BY <2>4
  <2> HIDE DEF Reached1
  <2> QED
    BY <2>5
<1>3. last \in T
  <2>1. last \in Nat
    OBVIOUS
  <2> HIDE DEF T, last
  <2>2. \A k \in 0 .. last : k \in T
    BY <1>1, <1>2, <2>1, LevelByLevel
  <2> QED
    BY <2>1, <2>2
<1> DEFINE found == CHOOSE f : IsReached1(f)
<1>4. IsReached1(found)
  <2>1. \E f : IsReached1(f)
    <3> HIDE DEF Reached1
    <3> QED
      BY <1>3
  <2> HIDE DEF IsReached1
  <2> QED
    BY <2>1
<1>5. run_pipeline(documents, stages) = found[last]
  BY DEF run_pipeline
<1>6. \A n \in 0 .. last : found[n] = Reached1(found, n)
  <2> HIDE DEF found, Reached1
  <2> QED
    BY <1>4
<1>7. found[0] = <<documents>>
  <2> HIDE DEF found
  <2>1. 0 \in 0 .. last
    OBVIOUS
  <2> QED
    BY <1>6, <2>1
<1>8. ASSUME NEW n \in 1 .. last
      PROVE  found[n] = IF found[n - 1] = <<>> THEN <<>>
                        ELSE RunStage(found[n - 1][1], stages[n])
  <2> HIDE DEF found
  <2>1. n \in 0 .. last /\ n # 0 /\ n > 0
    OBVIOUS
  <2>2. found[n] = Reached1(found, n)
    BY <1>6, <2>1
  <2> QED
    BY <2>1, <2>2
<1> HIDE DEF found
<1> QED
  BY <1>5, <1>7, <1>8

\* Two pipelines come to the same if their first stage does.
LEMMA PipelinesMeet ==
    ASSUME NEW one, NEW other, NEW stages, Len(stages) \in Nat, Len(stages) >= 1,
           RunStage(one, stages[1]) = RunStage(other, stages[1])
    PROVE  run_pipeline(one, stages) = run_pipeline(other, stages)
<1> DEFINE last == Len(stages)
<1>1. PICK f : /\ f[0] = <<one>>
               /\ \A n \in 1 .. last :
                    f[n] = IF f[n - 1] = <<>> THEN <<>> ELSE RunStage(f[n - 1][1], stages[n])
               /\ run_pipeline(one, stages) = f[last]
  BY PipelineSteps
<1>2. PICK g : /\ g[0] = <<other>>
               /\ \A n \in 1 .. last :
                    g[n] = IF g[n - 1] = <<>> THEN <<>> ELSE RunStage(g[n - 1][1], stages[n])
               /\ run_pipeline(other, stages) = g[last]
  BY PipelineSteps
<1> DEFINE T == {n \in 0 .. last : n = 0 \/ f[n] = g[n]}
<1>3. f[1] = g[1]
  <2>1. 1 \in 1 .. last /\ 1 - 1 = 0 /\ <<one>> # <<>> /\ <<other>> # <<>>
        /\ <<one>>[1] = one /\ <<other>>[1] = other
    OBVIOUS
  <2>2. f[1] = RunStage(one, stages[1])
    BY <1>1, <2>1
  <2>3. g[1] = RunStage(other, stages[1])
    BY <1>2, <2>1
  <2> QED
    BY <2>2, <2>3
<1>4. 0 \in T
  OBVIOUS
<1>5. ASSUME NEW n \in 1 .. last, n - 1 \in T
      PROVE  n \in T
  <2>1. CASE n = 1
    BY <1>3, <2>1
  <2>2. CASE n # 1
    <3>1. f[n - 1] = g[n - 1]
      BY <1>5, <2>2
    <3>2. f[n] = g[n]
      BY <1>1, <1>2, <3>1
    <3> QED
      BY <3>2
  <2> QED
    BY <2>1, <2>2
<1>6. last \in T
  <2>1. last \in Nat
    OBVIOUS
  <2> HIDE DEF T, last
  <2>2. \A k \in 0 .. last : k \in T
    BY <1>4, <1>5, <2>1, LevelByLevel
  <2> QED
    BY <2>1, <2>2
<1>7. last # 0
  OBVIOUS
<1> QED
  BY <1>1, <1>2, <1>6, <1>7

\* A pipeline fails if its first stage does.
LEMMA PipelineFails ==
    ASSUME NEW documents, NEW stages, Len(stages) \in Nat, Len(stages) >= 1,
           RunStage(documents, stages[1]) = <<>>
    PROVE  run_pipeline(documents, stages) = <<>>
<1> DEFINE last == Len(stages)
<1>1. PICK f : /\ f[0] = <<documents>>
               /\ \A n \in 1 .. last :
                    f[n] = IF f[n - 1] = <<>> THEN <<>> ELSE RunStage(f[n - 1][1], stages[n])
               /\ run_pipeline(documents, stages) = f[last]
  BY PipelineSteps
<1> DEFINE T == {n \in 0 .. last : n = 0 \/ f[n] = <<>>}
<1>2. f[1] = <<>>
  <2>1. 1 \in 1 .. last /\ 1 - 1 = 0 /\ <<documents>> # <<>> /\ <<documents>>[1] = documents
    OBVIOUS
  <2> QED
    BY <1>1, <2>1
<1>3. 0 \in T
  OBVIOUS
<1>4. ASSUME NEW n \in 1 .. last, n - 1 \in T
      PROVE  n \in T
  BY <1>1, <1>2, <1>4
<1>5. last \in T
  <2>1. last \in Nat
    OBVIOUS
  <2> HIDE DEF T, last
  <2>2. \A k \in 0 .. last : k \in T
    BY <1>3, <1>4, <2>1, LevelByLevel
  <2> QED
    BY <2>1, <2>2
<1>6. last # 0
  OBVIOUS
<1> QED
  BY <1>1, <1>5, <1>6

\* The first filter over documents that an index found comes to what it comes to
\* over all of them, if the index leaves out none that the predicate is true of.
LEMMA FilterOverIndex ==
    ASSUME NEW X, NEW documents \in Seq(X), NEW predicate, NEW M,
           Filter(documents, predicate) # <<>>,
           \A d \in Range(documents) :
               (evaluate(predicate, d)[1] = "Boolean" /\ evaluate(predicate, d)[2] # FALSE)
                   => d \in M
    PROVE  Filter(Chosen(documents, M), predicate) = Filter(documents, predicate)
<1> DEFINE found == Chosen(documents, M)
           value(d) == evaluate(predicate, d)
           all == [d \in Range(documents) |-> value(d)]
           some == [d \in Range(found) |-> value(d)]
           True(values) == {d \in DOMAIN values : values[d][2]}
<1>1. found \in Seq(X) /\ Range(found) = Range(documents) \cap M
  BY ChosenElements
<1>2. /\ Filter(documents, predicate) = Holding(documents, all)
      /\ Filter(found, predicate) = Holding(found, some)
  BY DEF Filter
<1> HIDE DEF found
<1>3. /\ DOMAIN all = Range(documents) /\ \A d \in Range(documents) : all[d] = value(d)
      /\ DOMAIN some = Range(found) /\ \A d \in Range(found) : some[d] = value(d)
  OBVIOUS
<1> HIDE DEF all, some
<1>4. \A d \in Range(documents) : value(d)[1] = "Boolean"
  BY <1>2, <1>3 DEF Holding
<1>5. /\ Holding(documents, all) = <<Chosen(documents, True(all))>>
      /\ Holding(found, some) = <<Chosen(found, True(some))>>
  <2>1. \A d \in DOMAIN some : some[d][1] = "Boolean"
    BY <1>1, <1>3, <1>4
  <2>2. \A d \in DOMAIN all : all[d][1] = "Boolean"
    BY <1>3, <1>4
  <2> QED
    BY <2>1, <2>2 DEF Holding
<1>6. Range(documents) \cap (M \cap True(some)) = Range(documents) \cap True(all)
  <2>1. ASSUME NEW d \in Range(documents)
        PROVE  d \in M /\ d \in True(some) <=> d \in True(all)
    <3>1. d \in True(all) <=> value(d)[2]
      BY <1>3, <2>1
    <3>2. d \in True(some) <=> d \in M /\ value(d)[2]
      BY <1>1, <1>3, <2>1
    <3>3. value(d)[2] => value(d)[2] # FALSE
      OBVIOUS
    <3>4. value(d)[2] => d \in M
      BY <1>4, <3>3
    <3> QED
      BY <3>1, <3>2, <3>4
  <2> HIDE DEF True
  <2> QED
    BY <2>1
<1> HIDE DEF True
<1>7. Chosen(found, True(some)) = Chosen(documents, M \cap True(some))
  BY ChosenTwice DEF found
<1>8. Chosen(documents, M \cap True(some)) = Chosen(documents, True(all))
  BY <1>6, ChosenInRange
<1> QED
  BY <1>2, <1>5, <1>7, <1>8 DEF found

-----------------------------------------------------------------------------
(* The store *)

\* The greatest of zero and some numbers up to a bound.
LEMMA GreatestOf ==
    ASSUME NEW n \in Nat, NEW S \in SUBSET (1 .. n)
    PROVE  Max(S \cup {0}) \in 0 .. n /\ \A j \in S : j <= Max(S \cup {0})
<1> DEFINE all == S \cup {0}
           IsGreatest(x) == x \in all /\ \A y \in all : x >= y
<1>1. \E x : IsGreatest(x)
  <2>1. CASE S = {}
    BY <2>1
  <2>2. CASE S # {}
    <3> DEFINE Mirror == {n + 1 - j : j \in S}
    <3>0. \A j \in S : n + 1 - j \in 1 .. n
      OBVIOUS
    <3>1. Mirror \in SUBSET (1 .. n) /\ Mirror # {}
      BY <2>2, <3>0
    <3>2. PICK m \in Mirror : \A j \in Mirror : m <= j
      <4> HIDE DEF Mirror
      <4> QED
        BY <3>1, FirstOf
    <3>3. PICK x \in S : m = n + 1 - x
      BY <3>2
    <3>4. \A y \in S : n + 1 - y \in Mirror
      OBVIOUS
    <3>5. \A y \in S : x >= y
      BY <3>2, <3>3, <3>4
    <3> QED
      BY <3>3, <3>5
  <2> QED
    BY <2>1, <2>2
<1>2. Max(all) = CHOOSE x : IsGreatest(x)
  <2>1. \A x : IsGreatest(x) <=> x \in all /\ \A y \in all : x >= y
    OBVIOUS
  <2> QED
    BY DEF Max
<1>3. IsGreatest(Max(all))
  <2> HIDE DEF IsGreatest
  <2> QED
    BY <1>1, <1>2
<1> DEFINE most == Max(all)
<1>4. most \in all /\ \A y \in all : most >= y
  BY <1>3
<1> HIDE DEF most
<1>5. most \in 0 .. n /\ \A j \in S : j <= most
  BY <1>4
<1> QED
  BY <1>5 DEF most

\* The documents of a collection are scanned each once.
LEMMA ScanIsSequence ==
    ASSUME NEW n \in Nat, NEW documents, DOMAIN documents \subseteq 1 .. n
    PROVE  /\ Scan(documents) \in Seq({[id |-> i, fields |-> documents[i]] : i \in DOMAIN documents})
           /\ Range(Scan(documents)) = {[id |-> i, fields |-> documents[i]] : i \in DOMAIN documents}
           /\ Len(Scan(documents)) <= n
<1> DEFINE ids == DOMAIN documents
           last == Max(ids \cup {0})
           numbers == [i \in 1 .. last |-> i]
           order == Ascending(ids)
<1>1. last \in Nat /\ last <= n /\ ids \subseteq 1 .. last
  <2>1. last \in 0 .. n /\ \A j \in ids : j <= last
    BY GreatestOf
  <2> HIDE DEF last
  <2> QED
    BY <2>1
<1> HIDE DEF last
<1>2. numbers \in Seq(1 .. last) /\ Range(numbers) = 1 .. last /\ Len(numbers) = last
  BY <1>1 DEF Range
<1>3. order = Chosen(numbers, ids)
  BY DEF Ascending, last
<1> HIDE DEF numbers
<1>4. order \in Seq(1 .. last) /\ Range(order) = ids /\ Len(order) <= last
  <2> HIDE DEF order
  <2>1. /\ order \in Seq(1 .. last) /\ Range(order) = Range(numbers) \cap ids
        /\ Len(order) <= last
    BY <1>2, <1>3, ChosenElements
  <2> QED
    BY <1>1, <1>2, <2>1
<1>5. Scan(documents) = [i \in DOMAIN order |-> [id |-> order[i], fields |-> documents[order[i]]]]
  BY DEF Scan
<1> HIDE DEF order
<1>6. DOMAIN order = 1 .. Len(order) /\ Len(order) \in Nat
  BY <1>4
<1>7. {order[i] : i \in DOMAIN order} = ids
  BY <1>4 DEF Range
<1> DEFINE Document(i) == [id |-> i, fields |-> documents[i]]
           found == [i \in 1 .. Len(order) |-> Document(order[i])]
<1> HIDE DEF Document
<1>8. Scan(documents) = found
  BY <1>5, <1>6 DEF Document
<1>9. /\ found \in Seq({Document(i) : i \in ids})
      /\ {found[k] : k \in DOMAIN found} = {Document(i) : i \in ids}
  <2>1. \A i \in 1 .. Len(order) : order[i] \in ids
    BY <1>6, <1>7
  <2>2. DOMAIN found = 1 .. Len(order)
    OBVIOUS
  <2>3. \A k \in 1 .. Len(order) : found[k] = Document(order[k])
    OBVIOUS
  <2>4. found \in Seq({Document(i) : i \in ids})
    BY <1>6, <2>1
  <2> HIDE DEF found
  <2>5. \A i \in ids : \E k \in 1 .. Len(order) : i = order[k]
    BY <1>6, <1>7
  <2>6. \A k \in DOMAIN found : found[k] \in {Document(i) : i \in ids}
    BY <2>1, <2>2, <2>3
  <2>7. \A i \in ids : Document(i) \in {found[k] : k \in DOMAIN found}
    BY <2>2, <2>3, <2>5
  <2>8. {found[k] : k \in DOMAIN found} = {Document(i) : i \in ids}
    BY <2>6, <2>7
  <2> QED
    BY <2>4, <2>8
<1>10. Range(found) = {Document(i) : i \in ids}
  <2> HIDE DEF found
  <2> QED
    BY <1>9 DEF Range
<1>11. Len(found) = Len(order) /\ Len(order) <= n
  BY <1>1, <1>4, <1>6
<1> QED
  BY <1>8, <1>9, <1>10, <1>11 DEF Document

\* Of indexes that may be used, one comes first by name.
LEMMA FirstByName ==
    ASSUME NEW usable, usable # {}, \A n \in usable : Rank(n) \in Nat
    PROVE  \E n \in usable : \A m \in usable : Rank(n) <= Rank(m)
<1>1. PICK any \in usable : TRUE
  OBVIOUS
<1> DEFINE top == Rank(any)
           S == {k \in 1 .. top + 1 : \E n \in usable : k = Rank(n) + 1}
<1>2. top \in Nat
  BY <1>1
<1>3. S \in SUBSET (1 .. top + 1) /\ top + 1 \in S
  BY <1>1, <1>2
<1>4. PICK least \in S : \A k \in S : least <= k
  <2> HIDE DEF S, top
  <2>1. top + 1 \in Nat /\ S # {}
    BY <1>2, <1>3
  <2> QED
    BY <1>3, <2>1, FirstOf
<1>5. PICK n \in usable : least = Rank(n) + 1
  BY <1>4
<1>6. ASSUME NEW m \in usable
      PROVE  Rank(n) <= Rank(m)
  <2>1. Rank(m) \in Nat /\ Rank(n) \in Nat /\ least <= top + 1
    BY <1>2, <1>3, <1>4, <1>5
  <2>2. CASE Rank(m) + 1 <= top + 1
    <3>1. Rank(m) + 1 \in S
      BY <1>2, <2>1, <2>2
    <3>2. least <= Rank(m) + 1
      BY <1>4, <3>1
    <3> QED
      BY <1>5, <2>1, <3>2
  <2>3. CASE ~(Rank(m) + 1 <= top + 1)
    BY <1>2, <1>5, <2>1, <2>3
  <2> QED
    BY <2>2, <2>3
<1> QED
  BY <1>6

\* A store whose documents have ids given before, and the names of whose indexes
\* are ordered.
StoreTyped(s, next) ==
    /\ s = [collections |-> s.collections, definitions |-> s.definitions]
    /\ \A c \in DOMAIN s.collections : DOMAIN s.collections[c] \subseteq 1 .. next - 1
    /\ \A n \in DOMAIN s.definitions : Rank(n) \in Nat

\* An index scan that the planner chose is over an index of the collection, and
\* looks up the key that the first filter requires.
LEMMA PlanChooses ==
    ASSUME NEW q, WellFormed(q), NEW definitions, \A n \in DOMAIN definitions : Rank(n) \in Nat,
           q.command[1] \in Piped
    PROVE  \/ plan(q, definitions) = <<"CollectionScan">>
           \/ \E n \in DOMAIN definitions :
                /\ definitions[n].collection = q.command[2]
                /\ Filters(q.stages) = {1}
                /\ q.stages[1][2] \in Expressions
                /\ equality_key(q.stages[1][2], definitions[n].field) # <<>>
                /\ plan(q, definitions) =
                     <<"IndexScan", n, equality_key(q.stages[1][2], definitions[n].field)[1]>>
<1> DEFINE usable == Usable(q.command[2], q.stages, definitions)
           IsFirst(n) == n \in usable /\ \A m \in usable : Rank(n) <= Rank(m)
           first == CHOOSE n \in usable : \A m \in usable : Rank(n) <= Rank(m)
<1>1. CASE usable = {}
  BY <1>1 DEF plan
<1>2. CASE usable # {}
  <2>1. \A n \in usable : /\ n \in DOMAIN definitions
                          /\ definitions[n].collection = q.command[2]
                          /\ Filters(q.stages) # {}
                          /\ equality_key(Predicate(q.stages), definitions[n].field) # <<>>
    BY DEF Usable
  <2>2. \E n \in usable : \A m \in usable : Rank(n) <= Rank(m)
    <3> HIDE DEF usable
    <3> QED
      BY <1>2, <2>1, FirstByName
  <2>3. first \in usable
    <3> HIDE DEF usable
    <3> QED
      BY <2>2
  <2>4. plan(q, definitions) =
          <<"IndexScan", first, equality_key(Predicate(q.stages), definitions[first].field)[1]>>
    BY <1>2 DEF plan
  <2> HIDE DEF first, usable
  <2>5. Filters(q.stages) = {1} /\ q.stages[1][2] \in Expressions
    BY <2>1, <2>3, FilterFormed
  <2>6. Predicate(q.stages) = q.stages[1][2]
    BY <2>1, <2>3, FilterFormed
  <2> QED
    BY <2>1, <2>3, <2>4, <2>5, <2>6
<1> QED
  BY <1>1, <1>2

SessionInv == QueryAtHand /\ nextId \in Nat \ {0} /\ StoreTyped(store, nextId)

\* A pipeline over an index scan comes to what it comes to over a collection scan,
\* if the latter does not fail.
LEMMA PipelineOverIndex ==
    ASSUME NEW n \in Nat, NEW documents, DOMAIN documents \subseteq 1 .. n,
           NEW q, WellFormed(q), Filters(q.stages) = {1}, NEW field,
           equality_key(q.stages[1][2], field) # <<>>,
           \A d \in Range(Scan(documents)) : Exact(read_path(d, field)),
           run_pipeline(Scan(documents), q.stages) # <<>>
    PROVE  LET key == equality_key(q.stages[1][2], field)[1]
           IN  run_pipeline(scan_index(documents, field, key), q.stages)
                 = run_pipeline(Scan(documents), q.stages)
<1> DEFINE key == equality_key(q.stages[1][2], field)[1]
           all == Scan(documents)
           M == {d \in Range(all) : document_key(d, field) = key}
           predicate == q.stages[1][2]
           X == {[id |-> i, fields |-> documents[i]] : i \in DOMAIN documents}
<1>1. all \in Seq(X)
  BY ScanIsSequence
<1>2. scan_index(documents, field, key) = Chosen(all, M)
  BY DEF scan_index
<1>3. Len(q.stages) \in Nat /\ Len(q.stages) >= 1 /\ q.stages[1][1] = "Filter"
      /\ predicate \in Expressions
  <2>1. 1 \in DOMAIN q.stages /\ q.stages[1][1] = "Filter"
    BY DEF Filters
  <2>2. q.stages \in Seq(Range(q.stages)) /\ predicate \in Expressions
    BY FilterFormed DEF WellFormed
  <2> QED
    BY <2>1, <2>2
<1>4. \A documents1 : RunStage(documents1, q.stages[1]) = Filter(documents1, predicate)
  BY <1>3 DEF RunStage
<1>5. Filter(all, predicate) # <<>>
  BY <1>3, <1>4, PipelineFails
<1>6. ASSUME NEW d \in Range(all), evaluate(predicate, d)[1] = "Boolean",
             evaluate(predicate, d)[2] # FALSE
      PROVE  d \in M
  <2>1. read_path(d, field) = key
    BY <1>3, <1>6, TrueOnlyWithKey
  <2> QED
    BY <2>1 DEF document_key
<1> HIDE DEF all, M, X, predicate, key
<1>7. Filter(Chosen(all, M), predicate) = Filter(all, predicate)
  BY <1>1, <1>5, <1>6, FilterOverIndex
<1>8. run_pipeline(Chosen(all, M), q.stages) = run_pipeline(all, q.stages)
  BY <1>3, <1>4, <1>7, PipelinesMeet
<1> QED
  BY <1>2, <1>8 DEF all, key

\* In a store that a session can reach, an index scan alters nothing.
LEMMA AnswersAgree == SessionInv => IndexesChangeNothing
<1> SUFFICES ASSUME SessionInv, query # <<>>, Pipelined(query[1]),
                    IndexesExactFields(query[1].command[2])
             PROVE  AnswersAs(execute(query[1], store, nextId),
                              execute_planned(query[1], store, <<"CollectionScan">>, nextId))
  BY DEF IndexesChangeNothing
<1> DEFINE q == query[1]
           c == q.command[2]
           access == plan(q, store.definitions)
           scan == <<"CollectionScan">>
           planned == execute_planned(q, store, access, nextId)
           scanned == execute_planned(q, store, scan, nextId)
<1>1. WellFormed(q) /\ q.command[1] \in Piped /\ ~q.explain
  BY SessionAssumption DEF SessionInv, QueryAtHand, Pipelined, Piped
<1>2. execute(q, store, nextId) = planned
  BY DEF execute
<1> SUFFICES AnswersAs(planned, scanned)
  BY <1>2
<1>3. CASE access = scan
  <2>1. planned = scanned
    BY <1>3
  <2> HIDE DEF planned, scanned
  <2> QED
    BY <2>1 DEF AnswersAs
<1>4. CASE access # scan
  <2>1. \A n \in DOMAIN store.definitions : Rank(n) \in Nat
    BY DEF SessionInv, StoreTyped
  <2> HIDE DEF q
  <2>2. PICK n \in DOMAIN store.definitions :
          /\ store.definitions[n].collection = c
          /\ Filters(q.stages) = {1}
          /\ q.stages[1][2] \in Expressions
          /\ equality_key(q.stages[1][2], store.definitions[n].field) # <<>>
          /\ access = <<"IndexScan", n,
                        equality_key(q.stages[1][2], store.definitions[n].field)[1]>>
    <3> DEFINE defined == store.definitions
    <3>1. plan(q, defined) # <<"CollectionScan">>
      BY <1>4
    <3>2. \A n \in DOMAIN defined : Rank(n) \in Nat
      BY <2>1
    <3> HIDE DEF defined
    <3>3. \E n \in DOMAIN defined :
            /\ defined[n].collection = q.command[2]
            /\ Filters(q.stages) = {1}
            /\ q.stages[1][2] \in Expressions
            /\ equality_key(q.stages[1][2], defined[n].field) # <<>>
            /\ plan(q, defined) = <<"IndexScan", n,
                                   equality_key(q.stages[1][2], defined[n].field)[1]>>
      BY <1>1, <3>1, <3>2, PlanChooses
    <3> QED
      BY <3>3 DEF defined
  <2> DEFINE field == store.definitions[n].field
             key == equality_key(q.stages[1][2], field)[1]
             documents == store.collections[c]
             found == scan_index(documents, field, key)
             all == Scan(documents)
  <2>3. /\ planned = ExecutePipeline(q, store, access)
        /\ scanned = ExecutePipeline(q, store, scan)
    BY <1>1 DEF execute_planned, Piped
  <2>4. CASE ~validate_stages(q.stages, q.command[1]) \/ c \notin DOMAIN store.collections
    <3>1. scanned = Outcome(Error, store, 0)
      BY <2>3, <2>4 DEF ExecutePipeline
    <3>2. scanned.reply = Error
      BY <3>1 DEF Outcome
    <3> HIDE DEF scanned, planned
    <3> QED
      BY <3>2 DEF AnswersAs
  <2>5. CASE validate_stages(q.stages, q.command[1]) /\ c \in DOMAIN store.collections
    <3>1. Accessed(store, c, access) = found /\ Accessed(store, c, scan) = all
      <4>1. access[1] = "IndexScan" /\ access[2] = n /\ access[3] = key /\ scan[1] # "IndexScan"
        BY <2>2
      <4> HIDE DEF access, key, scan
      <4> QED
        BY <4>1 DEF Accessed
    <3> HIDE DEF access, scan, found, all
    <3>2. planned = OnSelected(q.command, store, run_pipeline(found, q.stages), Len(found))
      BY <2>3, <2>5, <3>1 DEF ExecutePipeline
    <3>3. scanned = OnSelected(q.command, store, run_pipeline(all, q.stages), Len(all))
      BY <2>3, <2>5, <3>1 DEF ExecutePipeline
    <3> HIDE DEF planned, scanned
    <3>4. CASE run_pipeline(all, q.stages) = <<>>
      <4>1. scanned.reply = Error
        BY <3>3, <3>4 DEF OnSelected, Outcome
      <4> QED
        BY <4>1 DEF AnswersAs
    <3>5. CASE run_pipeline(all, q.stages) # <<>>
      <4>1. nextId - 1 \in Nat /\ DOMAIN documents \subseteq 1 .. nextId - 1
        BY <2>5 DEF SessionInv, StoreTyped
      <4>2. \A d \in Range(Scan(documents)) : Exact(read_path(d, field))
        BY <2>2, <2>5 DEF IndexesExactFields, q
      <4> HIDE DEF documents, field
      <4>3. run_pipeline(found, q.stages) = run_pipeline(all, q.stages)
        BY <1>1, <2>2, <3>5, <4>1, <4>2, PipelineOverIndex DEF found, all, field
      <4> DEFINE effect == Effect(q.command[1], store, q.command[2],
                                  run_pipeline(all, q.stages)[1])
      <4>4. planned = Outcome(effect.reply, effect.store, Len(found))
        BY <3>2, <3>5, <4>3 DEF OnSelected
      <4>5. scanned = Outcome(effect.reply, effect.store, Len(all))
        BY <3>3, <3>5 DEF OnSelected
      <4> HIDE DEF effect
      <4> QED
        BY <4>4, <4>5 DEF AnswersAs, Outcome
    <3> QED
      BY <3>4, <3>5
  <2> QED
    BY <2>4, <2>5
<1> QED
  BY <1>3, <1>4

\* The loop of `update` as it runs, document by document.
LEMMA UpdateSteps ==
    ASSUME NEW s, NEW c, NEW documents, Len(documents) \in Nat
    PROVE  \E f : /\ f[0] = [reply |-> <<"Updated", 0>>, store |-> s]
                  /\ \A n \in 1 .. Len(documents) :
                       LET before == f[n - 1]
                           replaced == replace(before.store, c, documents[n])
                       IN  f[n] =
                             IF before.reply = Error THEN before
                             ELSE IF replaced = <<>> THEN [reply |-> Error, store |-> before.store]
                             ELSE [reply |-> <<"Updated", n>>, store |-> replaced[1]]
                  /\ UpdateAll(s, c, documents) = f[Len(documents)]
<1> DEFINE last == Len(documents)
           After1(past, n) ==
             LET before == past[n - 1]
                 replaced == replace(before.store, c, documents[n])
             IN  CASE n = 0 -> [reply |-> <<"Updated", 0>>, store |-> s]
                   [] n > 0 /\ before.reply = Error -> before
                   [] n > 0 /\ before.reply # Error /\ replaced = <<>> ->
                          [reply |-> Error, store |-> before.store]
                   [] OTHER -> [reply |-> <<"Updated", n>>, store |-> replaced[1]]
           IsAfter1(f) == f = [n \in 0 .. last |-> After1(f, n)]
           T == {k \in 0 .. last : \E f : f = [n \in 0 .. k |-> After1(f, n)]}
<1>1. 0 \in T
  <2> DEFINE first == [n \in 0 .. 0 |-> [reply |-> <<"Updated", 0>>, store |-> s]]
  <2>1. first = [n \in 0 .. 0 |-> After1(first, n)]
    OBVIOUS
  <2>2. \E f : f = [n \in 0 .. 0 |-> After1(f, n)]
    <3> HIDE DEF first, After1
    <3> QED
      BY <2>1
  <2> HIDE DEF After1
  <2> QED
    BY <2>2
<1>2. ASSUME NEW k \in 1 .. last, k - 1 \in T
      PROVE  k \in T
  <2>1. PICK f : f = [n \in 0 .. k - 1 |-> After1(f, n)]
    <3> HIDE DEF After1
    <3> QED
      BY <1>2
  <2> DEFINE g == [n \in 0 .. k |-> After1(f, n)]
  <2>2. \A n \in 0 .. k - 1 : n \in 0 .. k /\ g[n] = f[n]
    <3> HIDE DEF After1
    <3> QED
      BY <2>1
  <2>3. ASSUME NEW n \in 0 .. k
        PROVE  After1(f, n) = After1(g, n)
    <3>1. n # 0 => n - 1 \in 0 .. k - 1
      OBVIOUS
    <3> HIDE DEF g
    <3>2. n # 0 => f[n - 1] = g[n - 1]
      BY <2>2, <3>1
    <3>3. CASE n = 0
      BY <3>3
    <3>4. CASE n # 0
      BY <3>2, <3>4
    <3> QED
      BY <3>3, <3>4
  <2>4. g = [n \in 0 .. k |-> After1(g, n)]
    <3> HIDE DEF After1
    <3> QED
      BY <2>3
  <2>5. \E h : h = [n \in 0 .. k |-> After1(h, n)]
    <3> HIDE DEF g, After1
    <3> QED
      BY <2>4
  <2> HIDE DEF After1
  <2> QED
    BY <2>5
<1>3. last \in T
  <2>1. last \in Nat
    OBVIOUS
  <2> HIDE DEF T, last
  <2>2. \A k \in 0 .. last : k \in T
    BY <1>1, <1>2, <2>1, LevelByLevel
  <2> QED
    BY <2>1, <2>2
<1> DEFINE found == CHOOSE f : IsAfter1(f)
<1>4. IsAfter1(found)
  <2>1. \E f : IsAfter1(f)
    <3> HIDE DEF After1
    <3> QED
      BY <1>3
  <2> HIDE DEF IsAfter1
  <2> QED
    BY <2>1
<1>5. UpdateAll(s, c, documents) = found[last]
  BY DEF UpdateAll
<1>6. \A n \in 0 .. last : found[n] = After1(found, n)
  <2> HIDE DEF found, After1
  <2> QED
    BY <1>4
<1>7. found[0] = [reply |-> <<"Updated", 0>>, store |-> s]
  <2> HIDE DEF found
  <2>1. 0 \in 0 .. last
    OBVIOUS
  <2>2. found[0] = After1(found, 0)
    BY <1>6, <2>1
  <2> QED
    BY <2>2
<1>8. ASSUME NEW n \in 1 .. last
      PROVE  LET before == found[n - 1]
                 replaced == replace(before.store, c, documents[n])
             IN  found[n] =
                   IF before.reply = Error THEN before
                   ELSE IF replaced = <<>> THEN [reply |-> Error, store |-> before.store]
                   ELSE [reply |-> <<"Updated", n>>, store |-> replaced[1]]
  <2> HIDE DEF found
  <2>1. n \in 0 .. last /\ n # 0 /\ n > 0
    OBVIOUS
  <2>2. found[n] = After1(found, n)
    BY <1>6, <2>1
  <2> QED
    BY <2>1, <2>2
<1> HIDE DEF found
<1> QED
  BY <1>5, <1>7, <1>8

\* A document put in the place of another leaves ids and indexes as they were.
LEMMA ReplaceKeeps ==
    ASSUME NEW s, NEW c, NEW document, NEW next, StoreTyped(s, next),
           replace(s, c, document) # <<>>
    PROVE  LET t == replace(s, c, document)[1]
           IN  StoreTyped(t, next) /\ t.definitions = s.definitions
<1> DEFINE t == [s EXCEPT !.collections[c][document.id] = document.fields]
<1>1. replace(s, c, document)[1] = t
  BY DEF replace
<1>2. s = [collections |-> s.collections, definitions |-> s.definitions]
  BY DEF StoreTyped
<1>3. /\ t.definitions = s.definitions
      /\ t.collections = [s.collections EXCEPT ![c][document.id] = document.fields]
      /\ t = [collections |-> t.collections, definitions |-> t.definitions]
  BY <1>2
<1> HIDE DEF t
<1>4. DOMAIN t.collections = DOMAIN s.collections
  BY <1>3
<1>5. \A x \in DOMAIN s.collections : DOMAIN t.collections[x] = DOMAIN s.collections[x]
  BY <1>3
<1> QED
  BY <1>1, <1>3, <1>4, <1>5 DEF StoreTyped

\* So does `update`, whose reply is the number of documents unless it is refused one.
LEMMA UpdateKeeps ==
    ASSUME NEW s, NEW c, NEW documents, Len(documents) \in Nat, NEW next, StoreTyped(s, next)
    PROVE  LET updated == UpdateAll(s, c, documents)
           IN  /\ StoreTyped(updated.store, next) /\ updated.store.definitions = s.definitions
               /\ updated.reply = Error \/ updated.reply = <<"Updated", Len(documents)>>
<1> DEFINE last == Len(documents)
<1>1. PICK f : /\ f[0] = [reply |-> <<"Updated", 0>>, store |-> s]
               /\ \A n \in 1 .. last :
                    LET before == f[n - 1]
                        replaced == replace(before.store, c, documents[n])
                    IN  f[n] =
                          IF before.reply = Error THEN before
                          ELSE IF replaced = <<>> THEN [reply |-> Error, store |-> before.store]
                          ELSE [reply |-> <<"Updated", n>>, store |-> replaced[1]]
               /\ UpdateAll(s, c, documents) = f[last]
  BY UpdateSteps
<1> DEFINE Kept(n) == /\ StoreTyped(f[n].store, next)
                      /\ f[n].store.definitions = s.definitions
                      /\ f[n].reply = Error \/ f[n].reply = <<"Updated", n>>
           T == {n \in 0 .. last : Kept(n)}
<1>2. 0 \in T
  BY <1>1
<1>3. ASSUME NEW n \in 1 .. last, n - 1 \in T
      PROVE  n \in T
  <2> DEFINE before == f[n - 1]
             replaced == replace(before.store, c, documents[n])
  <2>1. StoreTyped(before.store, next) /\ before.store.definitions = s.definitions
    <3>1. Kept(n - 1)
      <4> HIDE DEF Kept
      <4> QED
        BY <1>3
    <3> QED
      BY <3>1
  <2>2. f[n] = IF before.reply = Error THEN before
               ELSE IF replaced = <<>> THEN [reply |-> Error, store |-> before.store]
               ELSE [reply |-> <<"Updated", n>>, store |-> replaced[1]]
    BY <1>1
  <2>3. replaced # <<>> => /\ StoreTyped(replaced[1], next)
                           /\ replaced[1].definitions = s.definitions
    BY <2>1, ReplaceKeeps
  <2> HIDE DEF before, replaced
  <2>4. /\ StoreTyped(f[n].store, next) /\ f[n].store.definitions = s.definitions
        /\ f[n].reply = Error \/ f[n].reply = <<"Updated", n>>
    BY <2>1, <2>2, <2>3
  <2> QED
    BY <2>4
<1>4. last \in T
  <2>1. last \in Nat
    OBVIOUS
  <2> HIDE DEF T, last
  <2>2. \A k \in 0 .. last : k \in T
    BY <1>2, <1>3, <2>1, LevelByLevel
  <2> QED
    BY <2>1, <2>2
<1>5. Kept(last)
  <2> HIDE DEF Kept
  <2> QED
    BY <1>4
<1> QED
  BY <1>1, <1>5

\* Sorting as it puts one document after the other in its place.
LEMMA SortedSteps ==
    ASSUME NEW documents, Len(documents) \in Nat, NEW keys
    PROVE  \E f : /\ f[0] = <<>>
                  /\ \A n \in 1 .. Len(documents) :
                       f[n] = Placed(f[n - 1], keys, documents[n])
                  /\ Sorted(documents, keys) = f[Len(documents)]
<1> DEFINE last == Len(documents)
           Sorted1(past, n) ==
             IF n = 0 THEN <<>>
             ELSE Placed(past[n - 1], keys, documents[n])
           IsSorted1(f) == f = [n \in 0 .. last |-> Sorted1(f, n)]
           T == {k \in 0 .. last : \E f : f = [n \in 0 .. k |-> Sorted1(f, n)]}
<1>1. 0 \in T
  <2> DEFINE first == [n \in 0 .. 0 |-> <<>>]
  <2>1. first = [n \in 0 .. 0 |-> Sorted1(first, n)]
    OBVIOUS
  <2>2. \E f : f = [n \in 0 .. 0 |-> Sorted1(f, n)]
    <3> HIDE DEF first, Sorted1
    <3> QED
      BY <2>1
  <2> HIDE DEF Sorted1
  <2> QED
    BY <2>2
<1>2. ASSUME NEW k \in 1 .. last, k - 1 \in T
      PROVE  k \in T
  <2>1. PICK f : f = [n \in 0 .. k - 1 |-> Sorted1(f, n)]
    <3> HIDE DEF Sorted1
    <3> QED
      BY <1>2
  <2> DEFINE g == [n \in 0 .. k |-> Sorted1(f, n)]
  <2>2. \A n \in 0 .. k - 1 : n \in 0 .. k /\ g[n] = f[n]
    <3> HIDE DEF Sorted1
    <3> QED
      BY <2>1
  <2>3. ASSUME NEW n \in 0 .. k
        PROVE  Sorted1(f, n) = Sorted1(g, n)
    <3>1. n # 0 => n - 1 \in 0 .. k - 1
      OBVIOUS
    <3> HIDE DEF g
    <3>2. n # 0 => f[n - 1] = g[n - 1]
      BY <2>2, <3>1
    <3>3. CASE n = 0
      BY <3>3
    <3>4. CASE n # 0
      BY <3>2, <3>4
    <3> QED
      BY <3>3, <3>4
  <2>4. g = [n \in 0 .. k |-> Sorted1(g, n)]
    <3> HIDE DEF Sorted1
    <3> QED
      BY <2>3
  <2>5. \E h : h = [n \in 0 .. k |-> Sorted1(h, n)]
    <3> HIDE DEF g, Sorted1
    <3> QED
      BY <2>4
  <2> HIDE DEF Sorted1
  <2> QED
    BY <2>5
<1>3. last \in T
  <2>1. last \in Nat
    OBVIOUS
  <2> HIDE DEF T, last
  <2>2. \A k \in 0 .. last : k \in T
    BY <1>1, <1>2, <2>1, LevelByLevel
  <2> QED
    BY <2>1, <2>2
<1> DEFINE found == CHOOSE f : IsSorted1(f)
<1>4. IsSorted1(found)
  <2>1. \E f : IsSorted1(f)
    <3> HIDE DEF Sorted1
    <3> QED
      BY <1>3
  <2> HIDE DEF IsSorted1
  <2> QED
    BY <2>1
<1>5. Sorted(documents, keys) = found[last]
  BY DEF Sorted
<1>6. \A n \in 0 .. last : found[n] = Sorted1(found, n)
  <2> HIDE DEF found, Sorted1
  <2> QED
    BY <1>4
<1>7. found[0] = <<>>
  <2> HIDE DEF found
  <2>1. 0 \in 0 .. last
    OBVIOUS
  <2> QED
    BY <1>6, <2>1
<1>8. ASSUME NEW n \in 1 .. last
      PROVE  found[n] = Placed(found[n - 1], keys, documents[n])
  <2> HIDE DEF found
  <2>1. n \in 0 .. last /\ n # 0 /\ n > 0
    OBVIOUS
  <2>2. found[n] = Sorted1(found, n)
    BY <1>6, <2>1
  <2> QED
    BY <2>1, <2>2
<1> HIDE DEF found
<1> QED
  BY <1>5, <1>7, <1>8

\* Assignments as their loop makes them, one by one.
LEMMA AssignSteps ==
    ASSUME NEW document, NEW assignments, Len(assignments) \in Nat
    PROVE  \E f : /\ f[0] = <<document>>
                  /\ \A n \in 1 .. Len(assignments) :
                       f[n] = IF f[n - 1] = <<>> THEN <<>> ELSE Assign(f[n - 1][1], assignments[n])
                  /\ apply_assignments(document, assignments) = f[Len(assignments)]
<1> DEFINE last == Len(assignments)
           Assigned1(past, n) ==
             IF n = 0 THEN <<document>>
             ELSE IF past[n - 1] = <<>> THEN <<>> ELSE Assign(past[n - 1][1], assignments[n])
           IsAssigned1(f) == f = [n \in 0 .. last |-> Assigned1(f, n)]
           T == {k \in 0 .. last : \E f : f = [n \in 0 .. k |-> Assigned1(f, n)]}
<1>1. 0 \in T
  <2> DEFINE first == [n \in 0 .. 0 |-> <<document>>]
  <2>1. first = [n \in 0 .. 0 |-> Assigned1(first, n)]
    OBVIOUS
  <2>2. \E f : f = [n \in 0 .. 0 |-> Assigned1(f, n)]
    <3> HIDE DEF first, Assigned1
    <3> QED
      BY <2>1
  <2> HIDE DEF Assigned1
  <2> QED
    BY <2>2
<1>2. ASSUME NEW k \in 1 .. last, k - 1 \in T
      PROVE  k \in T
  <2>1. PICK f : f = [n \in 0 .. k - 1 |-> Assigned1(f, n)]
    <3> HIDE DEF Assigned1
    <3> QED
      BY <1>2
  <2> DEFINE g == [n \in 0 .. k |-> Assigned1(f, n)]
  <2>2. \A n \in 0 .. k - 1 : n \in 0 .. k /\ g[n] = f[n]
    <3> HIDE DEF Assigned1
    <3> QED
      BY <2>1
  <2>3. ASSUME NEW n \in 0 .. k
        PROVE  Assigned1(f, n) = Assigned1(g, n)
    <3>1. n # 0 => n - 1 \in 0 .. k - 1
      OBVIOUS
    <3> HIDE DEF g
    <3>2. n # 0 => f[n - 1] = g[n - 1]
      BY <2>2, <3>1
    <3>3. CASE n = 0
      BY <3>3
    <3>4. CASE n # 0
      BY <3>2, <3>4
    <3> QED
      BY <3>3, <3>4
  <2>4. g = [n \in 0 .. k |-> Assigned1(g, n)]
    <3> HIDE DEF Assigned1
    <3> QED
      BY <2>3
  <2>5. \E h : h = [n \in 0 .. k |-> Assigned1(h, n)]
    <3> HIDE DEF g, Assigned1
    <3> QED
      BY <2>4
  <2> HIDE DEF Assigned1
  <2> QED
    BY <2>5
<1>3. last \in T
  <2>1. last \in Nat
    OBVIOUS
  <2> HIDE DEF T, last
  <2>2. \A k \in 0 .. last : k \in T
    BY <1>1, <1>2, <2>1, LevelByLevel
  <2> QED
    BY <2>1, <2>2
<1> DEFINE found == CHOOSE f : IsAssigned1(f)
<1>4. IsAssigned1(found)
  <2>1. \E f : IsAssigned1(f)
    <3> HIDE DEF Assigned1
    <3> QED
      BY <1>3
  <2> HIDE DEF IsAssigned1
  <2> QED
    BY <2>1
<1>5. apply_assignments(document, assignments) = found[last]
  BY DEF apply_assignments
<1>6. \A n \in 0 .. last : found[n] = Assigned1(found, n)
  <2> HIDE DEF found, Assigned1
  <2> QED
    BY <1>4
<1>7. found[0] = <<document>>
  <2> HIDE DEF found
  <2>1. 0 \in 0 .. last
    OBVIOUS
  <2> QED
    BY <1>6, <2>1
<1>8. ASSUME NEW n \in 1 .. last
      PROVE  found[n] = IF found[n - 1] = <<>> THEN <<>> ELSE Assign(found[n - 1][1], assignments[n])
  <2> HIDE DEF found
  <2>1. n \in 0 .. last /\ n # 0 /\ n > 0
    OBVIOUS
  <2>2. found[n] = Assigned1(found, n)
    BY <1>6, <2>1
  <2> QED
    BY <2>1, <2>2
<1> HIDE DEF found
<1> QED
  BY <1>5, <1>7, <1>8

\* Two complementary choices from a sequence have all its elements between them.
LEMMA ChosenParts ==
    ASSUME NEW X, NEW sequence \in Seq(X), NEW A, NEW B,
           \A x \in Range(sequence) : x \in A <=> x \notin B
    PROVE  Len(Chosen(sequence, A)) + Len(Chosen(sequence, B)) = Len(sequence)
<1> DEFINE last == Len(sequence)
<1>1. PICK f : /\ f[0] = <<>>
               /\ \A n \in 1 .. last :
                    f[n] = IF sequence[n] \in A THEN Append(f[n - 1], sequence[n]) ELSE f[n - 1]
               /\ Chosen(sequence, A) = f[last]
  BY ChosenSteps
<1>2. PICK g : /\ g[0] = <<>>
               /\ \A n \in 1 .. last :
                    g[n] = IF sequence[n] \in B THEN Append(g[n - 1], sequence[n]) ELSE g[n - 1]
               /\ Chosen(sequence, B) = g[last]
  BY ChosenSteps
<1> DEFINE Added(n) == f[n] \in Seq(X) /\ g[n] \in Seq(X) /\ Len(f[n]) + Len(g[n]) = n
           T == {n \in 0 .. last : Added(n)}
<1>0. last \in Nat
  OBVIOUS
<1>3. 0 \in T
  <2>1. <<>> \in Seq(X) /\ Len(<<>>) = 0
    OBVIOUS
  <2>2. Added(0)
    BY <1>1, <1>2, <2>1
  <2> HIDE DEF Added, last
  <2> QED
    BY <1>0, <2>2
<1>4. ASSUME NEW n \in 1 .. last, n - 1 \in T
      PROVE  n \in T
  <2>1. sequence[n] \in X /\ (sequence[n] \in A <=> sequence[n] \notin B)
    BY DEF Range
  <2> DEFINE x == sequence[n]
             one == f[n - 1]
             other == g[n - 1]
  <2>2. /\ f[n] = IF x \in A THEN Append(one, x) ELSE one
        /\ g[n] = IF x \in B THEN Append(other, x) ELSE other
    BY <1>1, <1>2
  <2>3. one \in Seq(X) /\ other \in Seq(X) /\ Len(one) + Len(other) = n - 1
    BY <1>4
  <2> HIDE DEF x, one, other
  <2>4. /\ Append(one, x) \in Seq(X) /\ Len(Append(one, x)) = Len(one) + 1
        /\ Append(other, x) \in Seq(X) /\ Len(Append(other, x)) = Len(other) + 1
        /\ Len(one) \in Nat /\ Len(other) \in Nat
    BY <2>1, <2>3 DEF x
  <2>5. x \in A <=> x \notin B
    BY <2>1 DEF x
  <2>6. ASSUME x \in A
        PROVE  Added(n)
    <3>1. f[n] = Append(one, x) /\ g[n] = other
      BY <2>2, <2>5, <2>6
    <3> QED
      BY <2>3, <2>4, <3>1
  <2>7. ASSUME x \notin A
        PROVE  Added(n)
    <3>1. f[n] = one /\ g[n] = Append(other, x)
      BY <2>2, <2>5, <2>7
    <3> QED
      BY <2>3, <2>4, <3>1
  <2>8. n \in 0 .. last
    OBVIOUS
  <2>9. Added(n)
    BY <2>6, <2>7, <2>8
  <2> HIDE DEF Added
  <2> QED
    BY <2>8, <2>9
<1>5. last \in T
  <2>1. last \in Nat
    OBVIOUS
  <2> HIDE DEF T, last
  <2>2. \A k \in 0 .. last : k \in T
    BY <1>3, <1>4, <2>1, LevelByLevel
  <2> QED
    BY <2>1, <2>2
<1> QED
  BY <1>1, <1>2, <1>5

\* The elements of two sequences one behind the other.
LEMMA ElementsOfBoth ==
    ASSUME NEW X, NEW s \in Seq(X), NEW t \in Seq(X)
    PROVE  s \o t \in Seq(X) /\ Len(s \o t) = Len(s) + Len(t) /\ Range(s \o t) = Range(s) \cup Range(t)
<1>1. s \o t \in Seq(X) /\ Len(s \o t) = Len(s) + Len(t) /\ Len(s) \in Nat /\ Len(t) \in Nat
  OBVIOUS
<1>2. /\ \A i \in 1 .. Len(s) : (s \o t)[i] = s[i]
      /\ \A i \in Len(s) + 1 .. Len(s) + Len(t) : (s \o t)[i] = t[i - Len(s)]
  OBVIOUS
<1> DEFINE both == s \o t
<1>3. /\ DOMAIN both = 1 .. Len(s) + Len(t) /\ DOMAIN s = 1 .. Len(s) /\ DOMAIN t = 1 .. Len(t)
  BY <1>1
<1>4. \A x \in Range(both) : x \in Range(s) \cup Range(t)
  <2>1. \A i \in 1 .. Len(s) + Len(t) : i \in 1 .. Len(s) \/ i \in Len(s) + 1 .. Len(s) + Len(t)
    BY <1>1
  <2>2. \A i \in Len(s) + 1 .. Len(s) + Len(t) : i - Len(s) \in 1 .. Len(t)
    BY <1>1
  <2> HIDE DEF both
  <2> QED
    BY <1>2, <1>3, <2>1, <2>2 DEF Range, both
<1>5. \A x \in Range(s) \cup Range(t) : x \in Range(both)
  <2>1. \A i \in 1 .. Len(s) : i \in 1 .. Len(s) + Len(t)
    BY <1>1
  <2>2. \A i \in 1 .. Len(t) :
          /\ i + Len(s) \in Len(s) + 1 .. Len(s) + Len(t) /\ i + Len(s) - Len(s) = i
          /\ i + Len(s) \in 1 .. Len(s) + Len(t)
    BY <1>1
  <2>3. \A i \in 1 .. Len(t) : both[i + Len(s)] = t[i]
    BY <1>2, <2>2
  <2>4. \A i \in 1 .. Len(s) : both[i] = s[i]
    BY <1>2
  <2> HIDE DEF both
  <2>5. \A x \in Range(s) : x \in Range(both)
    BY <1>3, <2>1, <2>4 DEF Range
  <2>6. ASSUME NEW x \in Range(t)
        PROVE  x \in Range(both)
    <3>1. PICK i \in 1 .. Len(t) : t[i] = x
      BY <1>3 DEF Range
    <3>2. i + Len(s) \in DOMAIN both /\ both[i + Len(s)] = x
      BY <1>3, <2>2, <2>3, <3>1
    <3> QED
      BY <3>2 DEF Range
  <2> QED
    BY <2>5, <2>6
<1> QED
  BY <1>1, <1>4, <1>5

\* A document put among sorted ones is the only one more.
LEMMA PlacedElements ==
    ASSUME NEW X, NEW sorted \in Seq(X), NEW keys, NEW document \in X
    PROVE  LET placed == Placed(sorted, keys, document)
           IN  /\ placed \in Seq(X) /\ Len(placed) = Len(sorted) + 1
               /\ Range(placed) = Range(sorted) \cup {document}
<1> DEFINE later == {d \in Range(sorted) : Precedes(keys, document, d)}
           before == Chosen(sorted, Range(sorted) \ later)
           behind == Chosen(sorted, later)
           one == <<document>>
<1>1. Placed(sorted, keys, document) = before \o one \o behind
  BY DEF Placed
<1>2. later \subseteq Range(sorted)
  OBVIOUS
<1> HIDE DEF later
<1>3. /\ before \in Seq(X) /\ Range(before) = Range(sorted) \ later
      /\ behind \in Seq(X) /\ Range(behind) = later
  <2>1. /\ before \in Seq(X) /\ Range(before) = Range(sorted) \cap (Range(sorted) \ later)
        /\ behind \in Seq(X) /\ Range(behind) = Range(sorted) \cap later
    BY ChosenElements
  <2> QED
    BY <1>2, <2>1
<1>4. Len(before) + Len(behind) = Len(sorted)
  <2> DEFINE rest == Range(sorted) \ later
  <2>1. \A x \in Range(sorted) : x \in rest <=> x \notin later
    OBVIOUS
  <2> HIDE DEF rest
  <2>2. Len(Chosen(sorted, rest)) + Len(Chosen(sorted, later)) = Len(sorted)
    BY <2>1, ChosenParts
  <2> QED
    BY <2>2 DEF rest
<1>5. one \in Seq(X) /\ Len(one) = 1 /\ Range(one) = {document}
  BY DEF Range
<1> HIDE DEF before, behind, one
<1>6. /\ before \o one \in Seq(X) /\ Len(before \o one) = Len(before) + 1
      /\ Range(before \o one) = Range(before) \cup {document}
  <2>1. /\ before \o one \in Seq(X) /\ Len(before \o one) = Len(before) + Len(one)
        /\ Range(before \o one) = Range(before) \cup Range(one)
    <3>1. before \in Seq(X) /\ one \in Seq(X)
      BY <1>3, <1>5
    <3> QED
      BY <3>1, ElementsOfBoth
  <2> QED
    BY <1>5, <2>1
<1> DEFINE front == before \o one
<1>7. front \in Seq(X) /\ Len(front) = Len(before) + 1 /\ Range(front) = Range(before) \cup {document}
  BY <1>6
<1> HIDE DEF front
<1>8. /\ front \o behind \in Seq(X) /\ Len(front \o behind) = Len(front) + Len(behind)
      /\ Range(front \o behind) = Range(front) \cup Range(behind)
  <2>1. front \in Seq(X) /\ behind \in Seq(X)
    BY <1>3, <1>7
  <2> QED
    BY <2>1, ElementsOfBoth
<1>9. Len(before) \in Nat /\ Len(behind) \in Nat /\ Len(sorted) \in Nat
  BY <1>3
<1>10. Len(front \o behind) = Len(sorted) + 1
  BY <1>4, <1>7, <1>8, <1>9
<1>11. Range(front \o behind) = Range(sorted) \cup {document}
  BY <1>2, <1>3, <1>7, <1>8
<1> QED
  BY <1>1, <1>8, <1>10, <1>11 DEF front

\* Sorting neither loses nor adds a document.
LEMMA SortedElements ==
    ASSUME NEW X, NEW documents \in Seq(X), NEW keys
    PROVE  LET sorted == Sorted(documents, keys)
           IN  /\ sorted \in Seq(X) /\ Len(sorted) = Len(documents)
               /\ Range(sorted) = Range(documents)
<1> DEFINE last == Len(documents)
<1>1. PICK f : /\ f[0] = <<>>
               /\ \A n \in 1 .. last : f[n] = Placed(f[n - 1], keys, documents[n])
               /\ Sorted(documents, keys) = f[last]
  BY SortedSteps
<1> DEFINE Upto(n) == {documents[i] : i \in 1 .. n}
           T == {n \in 0 .. last : f[n] \in Seq(X) /\ Len(f[n]) = n /\ Range(f[n]) = Upto(n)}
<1>2. 0 \in T
  <2>1. last \in Nat /\ <<>> \in Seq(X) /\ Len(<<>>) = 0
    OBVIOUS
  <2>2. Range(<<>>) = {} /\ Upto(0) = {}
    BY DEF Range
  <2> HIDE DEF Upto
  <2>3. f[0] \in Seq(X) /\ Len(f[0]) = 0 /\ Range(f[0]) = Upto(0)
    BY <1>1, <2>1, <2>2
  <2> HIDE DEF last
  <2> QED
    BY <2>1, <2>3
<1>3. ASSUME NEW n \in 1 .. last, n - 1 \in T
      PROVE  n \in T
  <2>1. f[n - 1] \in Seq(X) /\ Len(f[n - 1]) = n - 1 /\ Range(f[n - 1]) = Upto(n - 1)
    BY <1>3
  <2>2. documents[n] \in X /\ f[n] = Placed(f[n - 1], keys, documents[n])
    BY <1>1
  <2>3. /\ f[n] \in Seq(X) /\ Len(f[n]) = (n - 1) + 1
        /\ Range(f[n]) = Range(f[n - 1]) \cup {documents[n]}
    BY <2>1, <2>2, PlacedElements
  <2>4. Upto(n) = Upto(n - 1) \cup {documents[n]}
    <3>1. \A i : i \in 1 .. n <=> i \in 1 .. n - 1 \/ i = n
      OBVIOUS
    <3> QED
      BY <3>1
  <2>5. (n - 1) + 1 = n
    OBVIOUS
  <2> HIDE DEF Upto
  <2>6. f[n] \in Seq(X) /\ Len(f[n]) = n /\ Range(f[n]) = Upto(n)
    BY <2>1, <2>3, <2>4, <2>5
  <2> QED
    BY <2>6
<1>4. last \in T
  <2>1. last \in Nat
    OBVIOUS
  <2> HIDE DEF T, last
  <2>2. \A k \in 0 .. last : k \in T
    BY <1>2, <1>3, <2>1, LevelByLevel
  <2> QED
    BY <2>1, <2>2
<1>5. Upto(last) = Range(documents)
  BY DEF Range
<1> HIDE DEF Upto
<1> QED
  BY <1>1, <1>4, <1>5

\* The lesser of two numbers.
LEMMA MinOfTwo ==
    ASSUME NEW a \in Int, NEW b \in Int
    PROVE  Min({a, b}) = IF a <= b THEN a ELSE b
<1> DEFINE least == IF a <= b THEN a ELSE b
<1>1. least \in {a, b} /\ \A y \in {a, b} : least <= y
  OBVIOUS
<1>2. \A x \in {a, b} : (\A y \in {a, b} : x <= y) => x = least
  OBVIOUS
<1> HIDE DEF least
<1> QED
  BY <1>1, <1>2 DEF Min, least

\* What is a function from the first numbers is a sequence.
LEMMA FunctionsAreSequences ==
    ASSUME NEW n \in Nat, NEW f, f = [i \in 1 .. n |-> f[i]]
    PROVE  f \in Seq(Range(f)) /\ Len(f) = n
<1>1. \A i \in 1 .. n : f[i] \in Range(f)
  BY DEF Range
<1> QED
  BY <1>1

\* A part of a sequence is one.
LEMMA PartsAreSequences ==
    ASSUME NEW X, NEW s \in Seq(X), NEW from \in Nat, from >= 1, NEW to \in 0 .. Len(s)
    PROVE  SubSeq(s, from, to) \in Seq(X) /\ Len(SubSeq(s, from, to)) <= Len(s)
OBVIOUS

IsSequence(s) == s \in Seq(Range(s))

\* A stage makes a sequence of a sequence, no longer one, if it does not fail.
LEMMA StagesGiveSequences ==
    ASSUME NEW documents, IsSequence(documents), NEW stage, StageFormed(stage),
           RunStage(documents, stage) # <<>>
    PROVE  LET made == RunStage(documents, stage)[1]
           IN  IsSequence(made) /\ Len(made) <= Len(documents)
<1> DEFINE result == RunStage(documents, stage)
           argument == stage[2]
           size == Len(documents)
<1>1. size \in Nat /\ DOMAIN documents = 1 .. size
  BY DEF IsSequence
<1>2. CASE stage[1] = "Filter"
  <2> DEFINE values == [d \in Range(documents) |-> evaluate(argument, d)]
             S == {d \in DOMAIN values : values[d][2]}
  <2>1. result = Holding(documents, values)
    BY <1>2 DEF RunStage, Filter
  <2> HIDE DEF values, result
  <2>2. result # <<>> => result = <<Chosen(documents, S)>>
    BY <2>1 DEF Holding
  <2> DEFINE chosen == Chosen(documents, S)
  <2>3. chosen \in Seq(Range(documents)) /\ Len(chosen) <= size
    BY ChosenElements DEF IsSequence
  <2> HIDE DEF chosen
  <2>4. DOMAIN chosen = 1 .. Len(chosen) /\ Len(chosen) \in Nat
        /\ chosen = [i \in 1 .. Len(chosen) |-> chosen[i]]
    BY <2>3
  <2>5. IsSequence(chosen)
    BY <2>4, FunctionsAreSequences DEF IsSequence
  <2>6. result[1] = chosen
    BY <2>2 DEF chosen, result
  <2> QED
    BY <2>3, <2>5, <2>6 DEF result
<1>3. CASE stage[1] = "Project"
  <2> DEFINE made == [i \in 1 .. size |-> project(documents[i], argument)]
  <2>1. result = <<made>>
    BY <1>1, <1>3 DEF RunStage
  <2>2. made = [i \in 1 .. size |-> made[i]]
    OBVIOUS
  <2> HIDE DEF made, result
  <2>3. IsSequence(made) /\ Len(made) <= size
    BY <1>1, <2>2, FunctionsAreSequences DEF IsSequence
  <2> QED
    BY <2>1, <2>3 DEF result
<1>4. CASE stage[1] = "Sort"
  <2>1. result = sort_documents(documents, argument)
    BY <1>4 DEF RunStage
  <2> DEFINE made == Sorted(documents, argument)
  <2>2. result = <<made>>
    <3> HIDE DEF result
    <3>1. result # <<>>
      BY DEF result
    <3> QED
      BY <2>1, <3>1 DEF sort_documents
  <2>3. made \in Seq(Range(documents)) /\ Len(made) = size
    BY SortedElements DEF IsSequence
  <2> HIDE DEF made, result
  <2>4. made = [i \in 1 .. size |-> made[i]] /\ size <= size
    BY <1>1, <2>3
  <2>5. IsSequence(made) /\ Len(made) <= size
    BY <1>1, <2>3, <2>4, FunctionsAreSequences DEF IsSequence
  <2> QED
    BY <2>2, <2>5 DEF result
<1>5. CASE stage[1] \in {"Limit", "Skip"}
  <2>1. argument \in Nat
    BY <1>5 DEF StageFormed
  <2>2. PICK from \in Nat, to \in 0 .. size : from >= 1 /\ result = <<SubSeq(documents, from, to)>>
    <3>1. CASE stage[1] = "Limit"
      <4> DEFINE to == Min({argument, size})
      <4>1. result = <<SubSeq(documents, 1, to)>>
        BY <3>1 DEF RunStage
      <4>2. to = IF argument <= size THEN argument ELSE size
        BY <1>1, <2>1, MinOfTwo
      <4>3. to \in 0 .. size
        BY <1>1, <2>1, <4>2
      <4> HIDE DEF to, result
      <4> QED
        BY <4>1, <4>3
    <3>2. CASE stage[1] = "Skip"
      <4>1. result = <<SubSeq(documents, argument + 1, size)>>
        BY <3>2 DEF RunStage
      <4> DEFINE from == argument + 1
      <4>2. from \in Nat /\ from >= 1 /\ size \in 0 .. size
        BY <1>1, <2>1
      <4>3. result = <<SubSeq(documents, from, size)>>
        BY <4>1
      <4> HIDE DEF result, from, size
      <4> QED
        BY <4>2, <4>3
    <3> QED
      BY <1>5, <3>1, <3>2
  <2> DEFINE part == SubSeq(documents, from, to)
  <2>3. part \in Seq(Range(documents)) /\ Len(part) <= size
    BY <1>1, <2>2, PartsAreSequences DEF IsSequence
  <2> HIDE DEF part
  <2>4. DOMAIN part = 1 .. Len(part) /\ Len(part) \in Nat
        /\ part = [i \in 1 .. Len(part) |-> part[i]]
    BY <2>3
  <2>5. IsSequence(part)
    BY <2>4, FunctionsAreSequences DEF IsSequence
  <2>6. result = <<part>>
    BY <2>2 DEF part
  <2> HIDE DEF result
  <2> QED
    BY <2>3, <2>5, <2>6 DEF result
<1>6. CASE stage[1] = "Set"
  <2> DEFINE changed == [i \in DOMAIN documents |-> apply_assignments(documents[i], argument)]
             made == [i \in 1 .. size |-> changed[i][1]]
  <2>1. result = <<made>>
    <3>1. result = Set(documents, argument)
      BY <1>6 DEF RunStage
    <3>2. Set(documents, argument) =
            IF <<>> \in Range(changed) THEN <<>> ELSE <<[i \in DOMAIN documents |-> changed[i][1]]>>
      BY DEF Set
    <3> HIDE DEF changed, result
    <3>3. result # <<>>
      BY DEF result
    <3> QED
      BY <1>1, <3>1, <3>2, <3>3
  <2>2. made = [i \in 1 .. size |-> made[i]]
    OBVIOUS
  <2> HIDE DEF made, result
  <2>3. IsSequence(made) /\ Len(made) <= size
    BY <1>1, <2>2, FunctionsAreSequences DEF IsSequence
  <2> QED
    BY <2>1, <2>3 DEF result
<1> QED
  BY <1>2, <1>3, <1>4, <1>5, <1>6 DEF StageFormed

\* So does a pipeline.
LEMMA PipelineGivesSequence ==
    ASSUME NEW documents, IsSequence(documents), NEW q, WellFormed(q),
           run_pipeline(documents, q.stages) # <<>>
    PROVE  LET made == run_pipeline(documents, q.stages)[1]
           IN  IsSequence(made) /\ Len(made) <= Len(documents)
<1> DEFINE stages == q.stages
           last == Len(stages)
           size == Len(documents)
<1>1. last \in Nat /\ \A n \in 1 .. last : StageFormed(stages[n])
  BY DEF WellFormed
<1>0. size \in Nat
  BY DEF IsSequence
<1>2. PICK f : /\ f[0] = <<documents>>
               /\ \A n \in 1 .. last :
                    f[n] = IF f[n - 1] = <<>> THEN <<>> ELSE RunStage(f[n - 1][1], stages[n])
               /\ run_pipeline(documents, stages) = f[last]
  <2> HIDE DEF stages, size
  <2> QED
    BY <1>1, PipelineSteps
<1> DEFINE T == {n \in 0 .. last : f[n] = <<>> \/ (IsSequence(f[n][1]) /\ Len(f[n][1]) <= size)}
<1>3. 0 \in T
  BY <1>0, <1>1, <1>2
<1>4. ASSUME NEW n \in 1 .. last, n - 1 \in T
      PROVE  n \in T
  <2>1. f[n - 1] = <<>> \/ (IsSequence(f[n - 1][1]) /\ Len(f[n - 1][1]) <= size)
    BY <1>4
  <2>2. f[n] = IF f[n - 1] = <<>> THEN <<>> ELSE RunStage(f[n - 1][1], stages[n])
    BY <1>2
  <2>3. StageFormed(stages[n])
    BY <1>1
  <2>4. f[n] = <<>> \/ (IsSequence(f[n][1]) /\ Len(f[n][1]) <= size)
    <3>1. CASE f[n] # <<>>
      <4>1. f[n - 1] # <<>> /\ f[n] = RunStage(f[n - 1][1], stages[n])
        BY <2>2, <3>1
      <4>2. IsSequence(f[n][1]) /\ Len(f[n][1]) <= Len(f[n - 1][1])
        BY <2>1, <2>3, <3>1, <4>1, StagesGiveSequences
      <4>3. Len(f[n][1]) \in Nat /\ Len(f[n - 1][1]) \in Nat
        BY <2>1, <4>1, <4>2 DEF IsSequence
      <4>4. Len(f[n - 1][1]) <= size
        BY <2>1, <4>1
      <4> HIDE DEF size
      <4> QED
        BY <1>0, <4>2, <4>3, <4>4
    <3> QED
      BY <3>1
  <2> QED
    BY <2>4
<1>5. last \in T
  <2> HIDE DEF T, last
  <2>2. \A k \in 0 .. last : k \in T
    BY <1>1, <1>3, <1>4, LevelByLevel
  <2> QED
    BY <1>1, <2>2
<1> QED
  BY <1>2, <1>5

\* What a plan gives access to are documents of the collection.
LEMMA AccessedDocuments ==
    ASSUME NEW s, NEW next \in Nat \ {0}, StoreTyped(s, next), NEW c \in DOMAIN s.collections,
           NEW access
    PROVE  LET documents == Accessed(s, c, access)
           IN  /\ IsSequence(documents) /\ Len(documents) <= next - 1
               /\ Range(documents) \subseteq Range(Scan(s.collections[c]))
<1> DEFINE all == Scan(s.collections[c])
           X == {[id |-> i, fields |-> s.collections[c][i]] : i \in DOMAIN s.collections[c]}
           documents == Accessed(s, c, access)
<1>1. all \in Seq(X) /\ Len(all) <= next - 1
  <2>1. next - 1 \in Nat /\ DOMAIN s.collections[c] \subseteq 1 .. next - 1
    BY DEF StoreTyped
  <2> QED
    BY <2>1, ScanIsSequence
<1>2. \E S : documents = all \/ documents = Chosen(all, S)
  BY DEF Accessed, scan_index
<1> HIDE DEF all, documents, X
<1>3. PICK S : documents = all \/ documents = Chosen(all, S)
  BY <1>2
<1>4. /\ documents \in Seq(X) /\ Len(documents) <= Len(all)
      /\ Range(documents) \subseteq Range(all)
  <2>1. /\ Chosen(all, S) \in Seq(X) /\ Len(Chosen(all, S)) <= Len(all)
        /\ Range(Chosen(all, S)) = Range(all) \cap S
    BY <1>1, ChosenElements
  <2>2. Len(all) \in Nat
    BY <1>1
  <2> QED
    BY <1>1, <1>3, <2>1, <2>2
<1>5. Len(documents) \in Nat /\ Len(all) \in Nat
      /\ documents = [i \in 1 .. Len(documents) |-> documents[i]]
  BY <1>1, <1>4
<1>6. IsSequence(documents)
  BY <1>5, FunctionsAreSequences DEF IsSequence
<1>7. Len(documents) <= next - 1
  BY <1>1, <1>4, <1>5
<1> QED
  BY <1>4, <1>6, <1>7 DEF documents, all

\* A pipeline and what is done with its result leave new ids and indexes alone; it
\* examines and returns no more documents than there are.
LEMMA PipelineKeeps ==
    ASSUME NEW q, WellFormed(q), q.command[1] \in Piped, NEW access, NEW s,
           NEW next \in Nat \ {0}, StoreTyped(s, next)
    PROVE  LET outcome == ExecutePipeline(q, s, access)
           IN  /\ StoreTyped(outcome.store, next) /\ outcome.store.definitions = s.definitions
               /\ outcome.examined \in 0 .. next - 1
               /\ result_count(outcome.reply) \in 0 .. next - 1
<1> DEFINE c == q.command[2]
           documents == Accessed(s, c, access)
           selected == run_pipeline(documents, q.stages)
           effect == Effect(q.command[1], s, c, selected[1])
           outcome == ExecutePipeline(q, s, access)
<1>0. result_count(Error) = 0 /\ next - 1 \in Nat
  BY DEF result_count, Error
<1>1. CASE c \notin DOMAIN s.collections \/ ~validate_stages(q.stages, q.command[1])
  <2>1. outcome.store = s /\ outcome.examined = 0 /\ outcome.reply = Error
    BY <1>1 DEF ExecutePipeline, Outcome
  <2> HIDE DEF outcome
  <2> QED
    BY <1>0, <2>1 DEF outcome
<1>2. CASE c \in DOMAIN s.collections /\ validate_stages(q.stages, q.command[1])
  <2>1. outcome = OnSelected(q.command, s, selected, Len(documents))
    BY <1>2 DEF ExecutePipeline
  <2>2. IsSequence(documents) /\ Len(documents) <= next - 1
    BY <1>2, AccessedDocuments
  <2> HIDE DEF documents, outcome
  <2>3. selected # <<>> => IsSequence(selected[1]) /\ Len(selected[1]) <= Len(documents)
    BY <2>2, PipelineGivesSequence
  <2>0. Len(documents) \in 0 .. next - 1
    BY <2>2, <1>0 DEF IsSequence
  <2> HIDE DEF selected
  <2>4. CASE selected = <<>>
    <3>1. outcome.store = s /\ outcome.examined = Len(documents) /\ outcome.reply = Error
      BY <2>1, <2>4 DEF OnSelected, Outcome
    <3> QED
      BY <1>0, <2>0, <3>1 DEF outcome
  <2>5. CASE selected # <<>>
    <3> DEFINE size == Len(selected[1])
    <3>0. size \in 0 .. next - 1
      <4>1. size \in Nat /\ size <= Len(documents)
        BY <2>3, <2>5 DEF IsSequence
      <4> QED
        BY <1>0, <2>0, <4>1
    <3>1. /\ outcome.store = effect.store /\ outcome.reply = effect.reply
          /\ outcome.examined = Len(documents)
      BY <2>1, <2>5 DEF OnSelected, Outcome
    <3>2. CASE q.command[1] = "Get"
      <4>1. effect.store = s /\ effect.reply = <<"Documents", selected[1]>>
        BY <3>2 DEF Effect
      <4>2. result_count(effect.reply) = size
        BY <4>1 DEF result_count
      <4> HIDE DEF effect, size
      <4> QED
        BY <2>0, <3>0, <3>1, <4>1, <4>2 DEF outcome
    <3>3. CASE q.command[1] = "Update"
      <4>1. effect = UpdateAll(s, c, selected[1])
        BY <3>3 DEF Effect
      <4>2. size \in Nat
        BY <3>0
      <4> HIDE DEF effect
      <4>3. /\ StoreTyped(effect.store, next) /\ effect.store.definitions = s.definitions
            /\ effect.reply = Error \/ effect.reply = <<"Updated", size>>
        BY <4>1, <4>2, UpdateKeeps
      <4> HIDE DEF size
      <4>4. result_count(<<"Updated", size>>) = size
        BY DEF result_count
      <4>5. result_count(effect.reply) \in 0 .. next - 1
        BY <1>0, <3>0, <4>3, <4>4
      <4> QED
        BY <2>0, <3>1, <4>3, <4>5 DEF outcome
    <3>4. CASE q.command[1] = "Delete"
      <4> DEFINE t == DeleteAll(s, c, selected[1])
                 gone == {selected[1][i].id : i \in DOMAIN selected[1]}
      <4>1. effect.store = t /\ effect.reply = <<"Deleted", size>>
        BY <3>4 DEF Effect
      <4>2. t = [s EXCEPT !.collections[c] = Without(s.collections[c], gone)]
        BY DEF DeleteAll
      <4> HIDE DEF t, effect, gone, size
      <4>3. s = [collections |-> s.collections, definitions |-> s.definitions]
        BY DEF StoreTyped
      <4>4. /\ t = [collections |-> t.collections, definitions |-> s.definitions]
            /\ t.collections = [s.collections EXCEPT ![c] = Without(s.collections[c], gone)]
        BY <4>2, <4>3
      <4>5. DOMAIN Without(s.collections[c], gone) \subseteq DOMAIN s.collections[c]
        BY DEF Without
      <4>6. StoreTyped(t, next) /\ t.definitions = s.definitions
        BY <4>4, <4>5 DEF StoreTyped
      <4>7. result_count(effect.reply) = size
        BY <4>1 DEF result_count
      <4> QED
        BY <2>0, <3>0, <3>1, <4>1, <4>6, <4>7 DEF outcome
    <3> QED
      BY <3>2, <3>3, <3>4 DEF Piped
  <2> QED
    BY <2>4, <2>5
<1> QED
  BY <1>1, <1>2

\* An insertion gives one more id, the next one or one below it.
LEMMA InsertKeeps ==
    ASSUME NEW q, NEW s, NEW next \in Nat \ {0}, StoreTyped(s, next), NEW fresh \in 1 .. next
    PROVE  LET outcome == ExecuteInsert(q, s, fresh)
           IN  \/ StoreTyped(outcome.store, next)
               \/ /\ fresh = next /\ outcome.reply = <<"Inserted", next>>
                  /\ StoreTyped(outcome.store, next + 1)
<1> DEFINE c == q.command[2]
           value == evaluate(q.command[3], [id |-> 0, fields |-> NoFields])
           outcome == ExecuteInsert(q, s, fresh)
           more == With(s.collections[c], fresh, value[2])
           t == [s EXCEPT !.collections[c] = more]
<1>1. outcome = InsertValue(c, value, s, fresh)
  BY DEF ExecuteInsert
<1> HIDE DEF outcome, value
<1>2. \/ outcome = Outcome(Error, s, 0)
      \/ c \in DOMAIN s.collections /\ outcome = Outcome(<<"Inserted", fresh>>, t, 0)
  BY <1>1 DEF InsertValue
<1>3. CASE outcome = Outcome(Error, s, 0)
  BY <1>3 DEF Outcome, outcome
<1>4. CASE c \in DOMAIN s.collections /\ outcome = Outcome(<<"Inserted", fresh>>, t, 0)
  <2>1. s = [collections |-> s.collections, definitions |-> s.definitions]
    BY DEF StoreTyped
  <2> HIDE DEF more
  <2>2. /\ t = [collections |-> t.collections, definitions |-> s.definitions]
        /\ t.collections = [s.collections EXCEPT ![c] = more]
    BY <2>1
  <2> HIDE DEF t
  <2>3. DOMAIN more = DOMAIN s.collections[c] \cup {fresh}
    BY DEF more, With
  <2>4. \A x \in DOMAIN s.collections : DOMAIN s.collections[x] \subseteq 1 .. next - 1
    BY DEF StoreTyped
  <2>5. ASSUME NEW above \in Nat, next <= above + 1, fresh <= above
        PROVE  StoreTyped(t, above + 1)
    <3>1. above + 1 - 1 = above /\ 1 .. next - 1 \subseteq 1 .. above /\ fresh \in 1 .. above
      BY <2>5
    <3>2. \A x \in DOMAIN t.collections : DOMAIN t.collections[x] \subseteq 1 .. above
      BY <1>4, <2>2, <2>3, <2>4, <3>1
    <3> QED
      BY <2>2, <3>1, <3>2 DEF StoreTyped
  <2>6. IF fresh = next THEN StoreTyped(t, next + 1) ELSE StoreTyped(t, next)
    <3>1. CASE fresh = next
      BY <2>5, <3>1
    <3>2. CASE fresh # next
      <4>1. next - 1 \in Nat /\ next <= (next - 1) + 1 /\ fresh <= next - 1 /\ (next - 1) + 1 = next
        BY <3>2
      <4>2. StoreTyped(t, (next - 1) + 1)
        BY <2>5, <4>1
      <4> QED
        BY <3>2, <4>1, <4>2
    <3> QED
      BY <3>1, <3>2
  <2>7. outcome.store = t /\ outcome.reply = <<"Inserted", fresh>>
    BY <1>4 DEF Outcome
  <2> QED
    BY <2>6, <2>7 DEF outcome
<1> QED
  BY <1>2, <1>3, <1>4

\* Collections and indexes come and go, without documents.
LEMMA CatalogueKeeps ==
    ASSUME NEW command, command[1] \in Cataloguing,
           command[1] = "CreateIndex" => Rank(command[2]) \in Nat,
           NEW s, NEW next \in Nat \ {0}, StoreTyped(s, next),
           Catalogued(command, s) # <<>>
    PROVE  StoreTyped(Catalogued(command, s)[1], next)
<1> DEFINE name == command[2]
           t == Catalogued(command, s)[1]
<1>1. s = [collections |-> s.collections, definitions |-> s.definitions]
  BY DEF StoreTyped
<1>2. CASE command[1] = "CreateCollection"
  <2> DEFINE more == With(s.collections, name, NoFields)
  <2>1. t = [s EXCEPT !.collections = more]
    BY <1>2 DEF Catalogued
  <2> HIDE DEF more
  <2>2. t = [collections |-> more, definitions |-> s.definitions]
    BY <1>1, <2>1
  <2> HIDE DEF t
  <2>3. /\ DOMAIN more = DOMAIN s.collections \cup {name}
        /\ \A c \in DOMAIN more : more[c] = IF c = name THEN NoFields ELSE s.collections[c]
    BY DEF more, With
  <2>4. DOMAIN NoFields = {}
    BY DEF NoFields
  <2>5. \A c \in DOMAIN more : DOMAIN more[c] \subseteq 1 .. next - 1
    BY <2>3, <2>4 DEF StoreTyped
  <2>6. StoreTyped(t, next)
    BY <2>2, <2>5 DEF StoreTyped
  <2> QED
    BY <2>6 DEF t
<1>3. CASE command[1] = "DropCollection"
  <2>1. \E D : t = [collections |-> Without(s.collections, {name}),
                    definitions |-> Without(s.definitions, D)]
    BY <1>3 DEF Catalogued
  <2>2. PICK D : t = [collections |-> Without(s.collections, {name}),
                      definitions |-> Without(s.definitions, D)]
    BY <2>1
  <2> HIDE DEF t
  <2>3. StoreTyped(t, next)
    BY <2>2 DEF StoreTyped, Without
  <2> QED
    BY <2>3 DEF t
<1>4. CASE command[1] = "CreateIndex"
  <2> DEFINE definition == [collection |-> command[3], field |-> command[4][1]]
             more == With(s.definitions, name, definition)
  <2>1. t = [s EXCEPT !.definitions = more]
    BY <1>4 DEF Catalogued
  <2> HIDE DEF more, definition
  <2>2. t = [collections |-> s.collections, definitions |-> more]
    BY <1>1, <2>1
  <2> HIDE DEF t
  <2>3. DOMAIN more = DOMAIN s.definitions \cup {name}
    BY DEF more, With
  <2>4. StoreTyped(t, next)
    BY <1>4, <2>2, <2>3 DEF StoreTyped
  <2> QED
    BY <2>4 DEF t
<1>5. CASE command[1] = "DropIndex"
  <2>1. t = [s EXCEPT !.definitions = Without(s.definitions, {name})]
    BY <1>5 DEF Catalogued
  <2>2. t = [collections |-> s.collections, definitions |-> Without(s.definitions, {name})]
    BY <1>1, <2>1
  <2> HIDE DEF t
  <2>3. StoreTyped(t, next)
    BY <2>2 DEF StoreTyped, Without
  <2> QED
    BY <2>3 DEF t
<1> QED
  BY <1>2, <1>3, <1>4, <1>5 DEF Cataloguing

\* A query gives at most the next id, and a name with a rank to each index.
LEMMA ExecutionKeeps ==
    ASSUME NEW q, WellFormed(q), q.command[1] = "CreateIndex" => Rank(q.command[2]) \in Nat,
           NEW access, NEW s, NEW next \in Nat \ {0}, StoreTyped(s, next),
           NEW fresh \in 1 .. next
    PROVE  LET outcome == execute_planned(q, s, access, fresh)
           IN  \/ StoreTyped(outcome.store, next)
               \/ /\ q.command[1] = "Insert" /\ fresh = next
                  /\ outcome.reply = <<"Inserted", next>> /\ StoreTyped(outcome.store, next + 1)
<1> DEFINE outcome == execute_planned(q, s, access, fresh)
           kind == q.command[1]
<1>1. kind \in Piped \cup Cataloguing \cup {"Insert"}
  BY DEF WellFormed
<1>2. CASE q.explain
  <2>1. outcome.store = s
    BY <1>2 DEF execute_planned, Outcome
  <2> QED
    BY <2>1
<1>3. CASE ~q.explain /\ kind = "Insert"
  <2>1. outcome = ExecuteInsert(q, s, fresh)
    BY <1>3 DEF execute_planned, Piped
  <2> QED
    <3>1. LET inserted == ExecuteInsert(q, s, fresh)
          IN  \/ StoreTyped(inserted.store, next)
              \/ /\ fresh = next /\ inserted.reply = <<"Inserted", next>>
                 /\ StoreTyped(inserted.store, next + 1)
      BY InsertKeeps
    <3> HIDE DEF outcome
    <3>2. \/ StoreTyped(outcome.store, next)
          \/ /\ fresh = next /\ outcome.reply = <<"Inserted", next>>
             /\ StoreTyped(outcome.store, next + 1)
      BY <2>1, <3>1
    <3> QED
      BY <1>3, <3>2 DEF outcome
<1>4. CASE ~q.explain /\ kind \in Piped
  <2>1. outcome = ExecutePipeline(q, s, access)
    BY <1>4 DEF execute_planned, Piped
  <2> QED
    BY <1>4, <2>1, PipelineKeeps
<1>5. CASE ~q.explain /\ kind \in Cataloguing
  <2> DEFINE catalogued == Catalogued(q.command, s)
  <2>1. outcome = IF catalogued = <<>> THEN Outcome(Error, s, 0)
                  ELSE Outcome(<<kind, q.command[2]>>, catalogued[1], 0)
    BY <1>5 DEF execute_planned, Piped, Cataloguing
  <2>2. catalogued # <<>> => StoreTyped(catalogued[1], next)
    BY <1>5, CatalogueKeeps
  <2> HIDE DEF catalogued
  <2>3. outcome.store = s \/ (catalogued # <<>> /\ outcome.store = catalogued[1])
    BY <2>1 DEF Outcome
  <2> HIDE DEF outcome
  <2>4. StoreTyped(outcome.store, next)
    BY <2>2, <2>3
  <2> QED
    BY <2>4 DEF outcome
<1> QED
  BY <1>1, <1>2, <1>3, <1>4, <1>5

\* Ids once given stay so.
LEMMA IdsStay ==
    ASSUME NEW s, NEW next \in Nat, StoreTyped(s, next)
    PROVE  StoreTyped(s, next + 1)
<1>1. 1 .. next - 1 \subseteq 1 .. (next + 1) - 1
  OBVIOUS
<1> QED
  BY <1>1 DEF StoreTyped

\* The store of a session has the ids that were given, and indexes with names in
\* an order.
THEOREM SessionIsTyped == QuerySpec => []SessionInv
<1>1. QueryInit => SessionInv
  <2> SUFFICES ASSUME QueryInit PROVE SessionInv
    OBVIOUS
  <2>1. query = <<>> /\ store = FirstStore /\ nextId = 1
    BY DEF QueryInit
  <2>2. /\ FirstStore = [collections |-> FirstStore.collections, definitions |-> <<>>]
        /\ \A c \in DOMAIN FirstStore.collections : FirstStore.collections[c] = <<>>
    BY SessionAssumption DEF NoFields
  <2>3. DOMAIN <<>> = {}
    OBVIOUS
  <2>4. FirstStore.definitions = <<>>
    BY <2>2
  <2>5. StoreTyped(FirstStore, 1)
    BY <2>2, <2>3, <2>4 DEF StoreTyped
  <2> QED
    BY <2>1, <2>5 DEF SessionInv, QueryAtHand
<1>2. SessionInv /\ [QueryNext]_queryVars => SessionInv'
  <2> SUFFICES ASSUME SessionInv, [QueryNext]_queryVars PROVE SessionInv'
    OBVIOUS
  <2>1. ASSUME NEW tree \in Trees, Submit(tree)
        PROVE  SessionInv'
    BY <2>1 DEF Submit, SessionInv, QueryAtHand
  <2>2. CASE ExecuteQuery
    <3> DEFINE access == plan(query[1], store.definitions)
    <3>1. PICK outcome : /\ outcome = execute_planned(query[1], store, access, nextId)
                         /\ store' = outcome.store
                         /\ nextId' = IF outcome.reply[1] = "Inserted" THEN nextId + 1 ELSE nextId
                         /\ query # <<>> /\ query' = <<>>
      BY <2>2 DEF ExecuteQuery, execute
    <3>2. /\ WellFormed(query[1])
          /\ query[1].command[1] = "CreateIndex" => Rank(query[1].command[2]) \in Nat
      BY <3>1, SessionAssumption DEF SessionInv, QueryAtHand
    <3>3. nextId \in Nat \ {0} /\ StoreTyped(store, nextId)
      BY DEF SessionInv
    <3> HIDE DEF access
    <3>9. nextId \in 1 .. nextId
      BY <3>3
    <3>4. \/ StoreTyped(outcome.store, nextId)
          \/ outcome.reply = <<"Inserted", nextId>> /\ StoreTyped(outcome.store, nextId + 1)
      <4> DEFINE made == execute_planned(query[1], store, access, nextId)
      <4>1. \/ StoreTyped(made.store, nextId)
            \/ made.reply = <<"Inserted", nextId>> /\ StoreTyped(made.store, nextId + 1)
        BY <3>2, <3>3, <3>9, ExecutionKeeps
      <4> HIDE DEF made
      <4>2. outcome = made
        BY <3>1 DEF made
      <4> QED
        BY <4>1, <4>2
    <3>5. StoreTyped(outcome.store, nextId) => StoreTyped(outcome.store, nextId + 1)
      BY <3>3, IdsStay
    <3>6. nextId' \in Nat \ {0} /\ StoreTyped(store', nextId')
      BY <3>1, <3>3, <3>4, <3>5
    <3>7. StoreTyped(store, nextId)' <=> StoreTyped(store', nextId')
      BY DEF StoreTyped
    <3> QED
      BY <3>1, <3>6, <3>7 DEF SessionInv, QueryAtHand
  <2>3. CASE UNCHANGED queryVars
    BY <2>3 DEF queryVars, SessionInv, QueryAtHand, StoreTyped
  <2> QED
    BY <2>1, <2>2, <2>3 DEF QueryNext
<1> QED
  BY <1>1, <1>2, PTL DEF QuerySpec

\* For any trees, documents and indexes: what a query over a scan of its collection
\* answers and stores, it answers and stores over the index that the planner chooses.
THEOREM AlwaysIndexesChangeNothing == QuerySpec => []IndexesChangeNothing
BY AnswersAgree, SessionIsTyped, PTL

-----------------------------------------------------------------------------
(* Pipelines in parts *)

\* A stage gives one result or none.
LEMMA StagesAnswerOnce ==
    ASSUME NEW documents, NEW stage, StageFormed(stage)
    PROVE  \/ RunStage(documents, stage) = <<>>
           \/ RunStage(documents, stage) = <<RunStage(documents, stage)[1]>>
<1> DEFINE argument == stage[2]
           result == RunStage(documents, stage)
<1> SUFFICES ASSUME result # <<>> PROVE \E made : result = <<made>>
  OBVIOUS
<1>1. CASE stage[1] = "Filter"
  <2> DEFINE values == [d \in Range(documents) |-> evaluate(argument, d)]
  <2>1. result = Holding(documents, values)
    BY <1>1 DEF RunStage, Filter
  <2> HIDE DEF values, result
  <2> QED
    BY <2>1 DEF Holding
<1>2. CASE stage[1] = "Project"
  BY <1>2 DEF RunStage
<1>3. CASE stage[1] = "Sort"
  <2>1. result = sort_documents(documents, argument)
    BY <1>3 DEF RunStage
  <2> HIDE DEF result
  <2> QED
    BY <2>1 DEF sort_documents
<1>4. CASE stage[1] = "Limit"
  BY <1>4 DEF RunStage
<1>5. CASE stage[1] = "Skip"
  BY <1>5 DEF RunStage
<1>6. CASE stage[1] = "Set"
  <2>1. result = Set(documents, argument)
    BY <1>6 DEF RunStage
  <2> HIDE DEF result
  <2> QED
    BY <2>1 DEF Set
<1> QED
  BY <1>1, <1>2, <1>3, <1>4, <1>5, <1>6 DEF StageFormed

\* A stage other than `project` and `set` gives documents that it was given.
LEMMA SelectingStages ==
    ASSUME NEW documents, IsSequence(documents), NEW stage, StageFormed(stage),
           stage[1] \notin {"Project", "Set"}, RunStage(documents, stage) # <<>>
    PROVE  Range(RunStage(documents, stage)[1]) \subseteq Range(documents)
<1> DEFINE argument == stage[2]
           result == RunStage(documents, stage)
           size == Len(documents)
<1>0. size \in Nat /\ documents \in Seq(Range(documents)) /\ DOMAIN documents = 1 .. size
  BY DEF IsSequence
<1>1. CASE stage[1] = "Filter"
  <2> DEFINE values == [d \in Range(documents) |-> evaluate(argument, d)]
             S == {d \in DOMAIN values : values[d][2]}
  <2>1. result = Holding(documents, values)
    BY <1>1 DEF RunStage, Filter
  <2> HIDE DEF values, result
  <2>2. result = <<Chosen(documents, S)>>
    BY <2>1 DEF Holding, result
  <2> HIDE DEF S
  <2>3. Range(Chosen(documents, S)) = Range(documents) \cap S
    BY <1>0, ChosenElements
  <2>4. result[1] = Chosen(documents, S)
    BY <2>2
  <2> QED
    BY <2>3, <2>4 DEF result
<1>2. CASE stage[1] = "Sort"
  <2>1. result = sort_documents(documents, argument)
    BY <1>2 DEF RunStage
  <2> HIDE DEF result
  <2>2. result = <<Sorted(documents, argument)>>
    BY <2>1 DEF sort_documents, result
  <2>3. Range(Sorted(documents, argument)) = Range(documents)
    BY <1>0, SortedElements
  <2>4. result[1] = Sorted(documents, argument)
    BY <2>2
  <2> QED
    BY <2>3, <2>4 DEF result
<1>3. CASE stage[1] \in {"Limit", "Skip"}
  <2>1. argument \in Nat
    BY <1>3 DEF StageFormed
  <2>2. PICK from \in Nat, to \in 0 .. size : from >= 1 /\ result = <<SubSeq(documents, from, to)>>
    <3>1. CASE stage[1] = "Limit"
      <4> DEFINE to == Min({argument, size})
      <4>1. result = <<SubSeq(documents, 1, to)>>
        BY <3>1 DEF RunStage
      <4>2. to = IF argument <= size THEN argument ELSE size
        BY <1>0, <2>1, MinOfTwo
      <4>3. to \in 0 .. size
        BY <1>0, <2>1, <4>2
      <4>4. 1 \in Nat /\ 1 >= 1
        OBVIOUS
      <4> HIDE DEF to, result, size
      <4> QED
        BY <4>1, <4>3, <4>4
    <3>2. CASE stage[1] = "Skip"
      <4>1. result = <<SubSeq(documents, argument + 1, size)>>
        BY <3>2 DEF RunStage
      <4> DEFINE from == argument + 1
      <4>2. from \in Nat /\ from >= 1 /\ size \in 0 .. size
        BY <1>0, <2>1
      <4>3. result = <<SubSeq(documents, from, size)>>
        BY <4>1
      <4> HIDE DEF result, from, size
      <4> QED
        BY <4>2, <4>3
    <3> QED
      BY <1>3, <3>1, <3>2
  <2> DEFINE part == SubSeq(documents, from, to)
  <2>3. part \in Seq(Range(documents))
    BY <1>0, <2>2, PartsAreSequences DEF IsSequence
  <2> HIDE DEF part
  <2>4. Range(part) \subseteq Range(documents)
    BY <2>3 DEF Range
  <2>5. result = <<part>>
    BY <2>2 DEF part
  <2>6. result[1] = part
    BY <2>5
  <2> QED
    BY <2>4, <2>6
<1> QED
  BY <1>1, <1>2, <1>3 DEF StageFormed

\* What the first stages of a pipeline come to.
RunFirst(documents, stages, n) == run_pipeline(documents, SubSeq(stages, 1, n))

\* A pipeline goes from one prefix of its stages to the next.
LEMMA PipelineByPrefix ==
    ASSUME NEW documents, NEW stages, IsSequence(stages)
    PROVE  /\ RunFirst(documents, stages, 0) = <<documents>>
           /\ \A n \in 1 .. Len(stages) :
                RunFirst(documents, stages, n) =
                  IF RunFirst(documents, stages, n - 1) = <<>> THEN <<>>
                  ELSE RunStage(RunFirst(documents, stages, n - 1)[1], stages[n])
           /\ RunFirst(documents, stages, Len(stages)) = run_pipeline(documents, stages)
<1> DEFINE last == Len(stages)
<1>1. last \in Nat
  BY DEF IsSequence
<1>2. PICK f : /\ f[0] = <<documents>>
               /\ \A n \in 1 .. last :
                    f[n] = IF f[n - 1] = <<>> THEN <<>> ELSE RunStage(f[n - 1][1], stages[n])
               /\ run_pipeline(documents, stages) = f[last]
  BY <1>1, PipelineSteps
<1>3. ASSUME NEW m \in 0 .. last
      PROVE  RunFirst(documents, stages, m) = f[m]
  <2> DEFINE prefix == SubSeq(stages, 1, m)
  <2>1. Len(prefix) = m /\ \A n \in 1 .. m : prefix[n] = stages[n]
    BY <1>1 DEF IsSequence
  <2> HIDE DEF prefix
  <2>2. PICK g : /\ g[0] = <<documents>>
                 /\ \A n \in 1 .. m :
                      g[n] = IF g[n - 1] = <<>> THEN <<>> ELSE RunStage(g[n - 1][1], prefix[n])
                 /\ run_pipeline(documents, prefix) = g[m]
    <3>1. Len(prefix) \in Nat
      BY <2>1
    <3> QED
      BY <2>1, <3>1, PipelineSteps
  <2> DEFINE T == {n \in 0 .. m : f[n] = g[n]}
  <2>3. 0 \in T
    BY <1>2, <2>2
  <2>4. ASSUME NEW n \in 1 .. m, n - 1 \in T
        PROVE  n \in T
    <3>1. f[n - 1] = g[n - 1] /\ prefix[n] = stages[n] /\ n \in 1 .. last
      BY <1>1, <2>1, <2>4
    <3>2. f[n] = g[n]
      BY <1>2, <2>2, <3>1
    <3> QED
      BY <3>2
  <2>5. m \in T
    <3>1. m \in Nat
      OBVIOUS
    <3> HIDE DEF T
    <3>2. \A k \in 0 .. m : k \in T
      BY <2>3, <2>4, <3>1, LevelByLevel
    <3> QED
      BY <3>1, <3>2
  <2> QED
    BY <2>2, <2>5 DEF RunFirst, prefix
<1>4. ASSUME NEW n \in 1 .. last
      PROVE  n \in 0 .. last /\ n - 1 \in 0 .. last
  BY <1>1
<1>5. 0 \in 0 .. last /\ last \in 0 .. last
  BY <1>1
<1> HIDE DEF last
<1>6. RunFirst(documents, stages, 0) = <<documents>>
  BY <1>2, <1>3, <1>5
<1>7. RunFirst(documents, stages, last) = run_pipeline(documents, stages)
  BY <1>2, <1>3, <1>5
<1>8. ASSUME NEW n \in 1 .. last
      PROVE  RunFirst(documents, stages, n) =
               IF RunFirst(documents, stages, n - 1) = <<>> THEN <<>>
               ELSE RunStage(RunFirst(documents, stages, n - 1)[1], stages[n])
  <2>1. RunFirst(documents, stages, n) = f[n] /\ RunFirst(documents, stages, n - 1) = f[n - 1]
    BY <1>3, <1>4
  <2> QED
    BY <1>2, <2>1
<1> QED
  BY <1>6, <1>7, <1>8 DEF last

AllFormed(stages) == IsSequence(stages) /\ \A n \in DOMAIN stages : StageFormed(stages[n])

\* So a prefix gives one result or none, too.
LEMMA PrefixesAnswerOnce ==
    ASSUME NEW documents, NEW stages, AllFormed(stages), NEW n \in 0 .. Len(stages)
    PROVE  \/ RunFirst(documents, stages, n) = <<>>
           \/ RunFirst(documents, stages, n) = <<RunFirst(documents, stages, n)[1]>>
<1>1. CASE n = 0
  <2>1. RunFirst(documents, stages, n) = <<documents>>
    BY <1>1, PipelineByPrefix DEF AllFormed
  <2> QED
    BY <2>1
<1>2. CASE n # 0
  <2>1. n \in 1 .. Len(stages) /\ StageFormed(stages[n])
    BY <1>2 DEF AllFormed, IsSequence
  <2> DEFINE before == RunFirst(documents, stages, n - 1)
             after == RunFirst(documents, stages, n)
  <2>2. after = IF before = <<>> THEN <<>> ELSE RunStage(before[1], stages[n])
    BY <2>1, PipelineByPrefix DEF AllFormed
  <2> HIDE DEF before, after
  <2>3. \/ RunStage(before[1], stages[n]) = <<>>
        \/ RunStage(before[1], stages[n]) = <<RunStage(before[1], stages[n])[1]>>
    BY <2>1, StagesAnswerOnce
  <2>4. after = <<>> \/ after = <<after[1]>>
    BY <2>2, <2>3
  <2> QED
    BY <2>4 DEF after
<1> QED
  BY <1>1, <1>2

\* The part of a pipeline behind a prefix, and what it does.
LEMMA PipelineSplits ==
    ASSUME NEW documents, NEW stages, AllFormed(stages), NEW k \in 0 .. Len(stages)
    PROVE  LET rest == SubSeq(stages, k + 1, Len(stages))
               first == RunFirst(documents, stages, k)
           IN  /\ AllFormed(rest) /\ \A n \in DOMAIN rest : rest[n] = stages[k + n]
               /\ Len(rest) = Len(stages) - k
               /\ run_pipeline(documents, stages) =
                    IF first = <<>> THEN <<>> ELSE run_pipeline(first[1], rest)
<1>0. k \in Nat /\ k <= Len(stages) /\ k \in Int /\ Len(stages) \in Nat
  BY DEF AllFormed, IsSequence
<1> DEFINE rest == SubSeq(stages, k + 1, Len(stages))
           first == RunFirst(documents, stages, k)
           left == Len(stages) - k
<1>1. Len(stages) \in Nat /\ left \in Nat /\ DOMAIN stages = 1 .. Len(stages)
  BY DEF AllFormed, IsSequence
<1>2. Len(rest) = left /\ rest \in Seq(Range(stages)) /\ \A n \in 1 .. left : rest[n] = stages[k + n]
  <2>1. stages \in Seq(Range(stages)) /\ k \in Nat
    BY DEF AllFormed, IsSequence
  <2>2. Len(rest) = left
    <3> DEFINE whole == Len(stages)
    <3>1. CASE k = whole
      <4>1. SubSeq(stages, k + 1, whole) = <<>>
        BY <1>1, <2>1, <3>1
      <4> QED
        BY <1>1, <3>1, <4>1
    <3>2. CASE k # whole
      <4>1. k + 1 <= whole /\ k + 1 \in Nat /\ k + 1 >= 1 /\ whole \in Nat
        <5>1. whole \in Nat /\ k <= whole /\ k \in Nat /\ k # whole
          BY <1>0, <3>2
        <5> HIDE DEF whole
        <5> QED
          BY <5>1
      <4>2. Len(SubSeq(stages, k + 1, whole)) = whole - (k + 1) + 1
        BY <2>1, <4>1
      <4> QED
        BY <1>0, <1>1, <2>1, <4>1, <4>2
    <3> QED
      BY <3>1, <3>2
  <2>3. \A n \in 1 .. left : rest[n] = stages[(k + 1) + n - 1] /\ (k + 1) + n - 1 = k + n
    BY <1>1, <2>1
  <2>4. rest \in Seq(Range(stages))
    BY <1>1, <2>1
  <2> HIDE DEF rest
  <2> QED
    BY <2>2, <2>3, <2>4
<1> HIDE DEF rest
<1>3. DOMAIN rest = 1 .. left /\ rest = [n \in 1 .. left |-> rest[n]]
  BY <1>2
<1>4. \A n \in 1 .. left : k + n \in 1 .. Len(stages) /\ StageFormed(rest[n])
  <2> TAKE n \in 1 .. left
  <2>1. k + n \in 1 .. Len(stages)
    BY <1>0, <1>1
  <2>2. StageFormed(stages[k + n])
    BY <1>1, <2>1 DEF AllFormed
  <2>3. rest[n] = stages[k + n]
    BY <1>2
  <2> QED
    BY <2>1, <2>2, <2>3
<1>5. AllFormed(rest)
  BY <1>1, <1>3, <1>4, FunctionsAreSequences DEF AllFormed, IsSequence
<1>6. CASE first = <<>>
  <2> DEFINE T == {n \in 0 .. left : RunFirst(documents, stages, k + n) = <<>>}
  <2>1. 0 \in T
    BY <1>1, <1>6
  <2>2. ASSUME NEW n \in 1 .. left, n - 1 \in T
        PROVE  n \in T
    <3>1. k + n \in 1 .. Len(stages) /\ (k + n) - 1 = k + (n - 1)
      BY <1>1
    <3>2. RunFirst(documents, stages, (k + n) - 1) = <<>>
      BY <2>2, <3>1
    <3>3. RunFirst(documents, stages, k + n) = <<>>
      BY <3>1, <3>2, PipelineByPrefix DEF AllFormed
    <3> QED
      BY <3>3
  <2>3. left \in T
    <3> HIDE DEF T, left
    <3>1. \A n \in 0 .. left : n \in T
      BY <1>1, <2>1, <2>2, LevelByLevel
    <3> QED
      BY <1>1, <3>1
  <2>4. k + left = Len(stages)
    BY <1>1
  <2>5. run_pipeline(documents, stages) = <<>>
    BY <2>3, <2>4, PipelineByPrefix DEF AllFormed
  <2> QED
    BY <1>2, <1>3, <1>5, <1>6, <2>5 DEF rest
<1>7. CASE first # <<>>
  <2> DEFINE Goes(n) == RunFirst(documents, stages, k + n) = RunFirst(first[1], rest, n)
             T == {n \in 0 .. left : Goes(n)}
  <2>0. first = <<first[1]>>
    BY <1>7, PrefixesAnswerOnce
  <2>1. 0 \in T
    <3>1. RunFirst(documents, stages, k + 0) = first /\ 0 \in 0 .. left
      BY <1>1
    <3> HIDE DEF first
    <3>2. RunFirst(first[1], rest, 0) = <<first[1]>>
      BY <1>5, PipelineByPrefix DEF AllFormed
    <3> QED
      BY <2>0, <3>1, <3>2
  <2>2. ASSUME NEW n \in 1 .. left, n - 1 \in T
        PROVE  n \in T
    <3>1. k + n \in 1 .. Len(stages) /\ (k + n) - 1 = k + (n - 1) /\ n \in 1 .. Len(rest)
      BY <1>1, <1>2
    <3> DEFINE one == RunFirst(documents, stages, (k + n) - 1)
               other == RunFirst(first[1], rest, n - 1)
    <3>2. one = other
      BY <2>2, <3>1
    <3>3. RunFirst(documents, stages, k + n) =
            IF one = <<>> THEN <<>> ELSE RunStage(one[1], stages[k + n])
      BY <3>1, PipelineByPrefix DEF AllFormed
    <3> HIDE DEF first
    <3>4. RunFirst(first[1], rest, n) =
            IF other = <<>> THEN <<>> ELSE RunStage(other[1], rest[n])
      BY <1>5, <3>1, PipelineByPrefix DEF AllFormed
    <3>5. rest[n] = stages[k + n]
      BY <1>2
    <3> HIDE DEF one, other
    <3>6. Goes(n)
      BY <3>2, <3>3, <3>4, <3>5
    <3> HIDE DEF Goes
    <3> QED
      BY <3>6
  <2>3. Goes(left)
    <3> HIDE DEF Goes, left
    <3>1. \A n \in 0 .. left : n \in T
      <4> HIDE DEF T
      <4> QED
        BY <1>1, <2>1, <2>2, LevelByLevel
    <3> QED
      BY <1>1, <3>1
  <2>4. k + left = Len(stages) /\ left = Len(rest)
    BY <1>1, <1>2
  <2> HIDE DEF first, left
  <2>5. RunFirst(documents, stages, Len(stages)) = run_pipeline(documents, stages)
    BY PipelineByPrefix DEF AllFormed
  <2>6. RunFirst(first[1], rest, Len(rest)) = run_pipeline(first[1], rest)
    BY <1>5, PipelineByPrefix DEF AllFormed
  <2>7. run_pipeline(documents, stages) = run_pipeline(first[1], rest)
    BY <2>3, <2>4, <2>5, <2>6
  <2> QED
    BY <1>2, <1>3, <1>5, <1>7, <2>7 DEF rest, first, left
<1> QED
  BY <1>6, <1>7
-----------------------------------------------------------------------------
(* Assignments *)

IsDocument(d) == d = [id |-> d.id, fields |-> d.fields]

\* An assignment leaves a document its id.
LEMMA AssignKeepsId ==
    ASSUME NEW document, IsDocument(document), NEW assignment, Assign(document, assignment) # <<>>
    PROVE  LET after == Assign(document, assignment)
           IN  after = <<after[1]>> /\ IsDocument(after[1]) /\ after[1].id = document.id
<1> DEFINE value == evaluate(assignment[2], document)
           path == assignment[1]
           put == set_segments(document.fields, path, value)
           after == Assign(document, assignment)
<1>1. put = <<>> \/ \E fields : put = <<fields>>
  BY DEF set_segments
<1>2. after = <<>> \/ after = [i \in DOMAIN put |-> [document EXCEPT !.fields = put[i]]]
  BY DEF Assign, AssignValue
<1> HIDE DEF put, after
<1>3. put # <<>>
  <2>1. DOMAIN <<>> = {}
    OBVIOUS
  <2>2. put = <<>> => [i \in DOMAIN put |-> [document EXCEPT !.fields = put[i]]] = <<>>
    BY <2>1
  <2> QED
    BY <1>2, <2>2 DEF after
<1>4. PICK fields : put = <<fields>>
  BY <1>1, <1>3
<1> DEFINE changed == [document EXCEPT !.fields = fields]
<1>5. after = [i \in {1} |-> changed]
  <2>1. DOMAIN put = {1} /\ put[1] = fields
    BY <1>4
  <2> QED
    BY <1>2, <2>1 DEF after
<1>6. changed = [id |-> document.id, fields |-> fields]
  BY DEF IsDocument
<1> HIDE DEF changed
<1>7. after = <<changed>>
  BY <1>5
<1>8. after[1] = changed
  BY <1>7
<1> QED
  BY <1>6, <1>7, <1>8 DEF after, IsDocument

\* So do the assignments of a `set`.
LEMMA AssignmentsKeepId ==
    ASSUME NEW document, IsDocument(document), NEW assignments, Len(assignments) \in Nat,
           apply_assignments(document, assignments) # <<>>
    PROVE  LET after == apply_assignments(document, assignments)
           IN  after = <<after[1]>> /\ IsDocument(after[1]) /\ after[1].id = document.id
<1> DEFINE last == Len(assignments)
<1>1. PICK f : /\ f[0] = <<document>>
               /\ \A n \in 1 .. last :
                    f[n] = IF f[n - 1] = <<>> THEN <<>> ELSE Assign(f[n - 1][1], assignments[n])
               /\ apply_assignments(document, assignments) = f[last]
  BY AssignSteps
<1> DEFINE Kept(n) == \/ f[n] = <<>>
                      \/ f[n] = <<f[n][1]>> /\ IsDocument(f[n][1]) /\ f[n][1].id = document.id
           T == {n \in 0 .. last : Kept(n)}
<1>2. 0 \in T
  <2>1. Kept(0)
    BY <1>1
  <2>2. 0 \in 0 .. last
    OBVIOUS
  <2> HIDE DEF Kept, last
  <2> QED
    BY <2>1, <2>2
<1>3. ASSUME NEW n \in 1 .. last, n - 1 \in T
      PROVE  n \in T
  <2>1. Kept(n - 1)
    <3> HIDE DEF Kept
    <3> QED
      BY <1>3
  <2> DEFINE before == f[n - 1]
             d == before[1]
  <2>2. f[n] = IF before = <<>> THEN <<>> ELSE Assign(d, assignments[n])
    BY <1>1
  <2>3. before # <<>> => IsDocument(d) /\ d.id = document.id
    BY <2>1
  <2> HIDE DEF before, d
  <2>4. ASSUME f[n] # <<>>
        PROVE  f[n] = <<f[n][1]>> /\ IsDocument(f[n][1]) /\ f[n][1].id = document.id
    <3>1. f[n] = Assign(d, assignments[n]) /\ IsDocument(d) /\ d.id = document.id
      BY <2>2, <2>3, <2>4
    <3> QED
      BY <2>4, <3>1, AssignKeepsId
  <2>5. Kept(n)
    BY <2>4
  <2> HIDE DEF Kept
  <2> QED
    BY <2>5
<1>4. Kept(last)
  <2>1. last \in Nat
    OBVIOUS
  <2> HIDE DEF Kept, last
  <2>2. \A k \in 0 .. last : k \in T
    <3> HIDE DEF T
    <3> QED
      BY <1>2, <1>3, <2>1, LevelByLevel
  <2> QED
    BY <2>1, <2>2
<1> QED
  BY <1>1, <1>4

\* The documents that assignments make of others, and whether they fail.
Changed(documents, size, assignments) ==
    [i \in 1 .. size |-> apply_assignments(documents[i], assignments)[1]]

SomeFails(documents, size, assignments) ==
    \E i \in 1 .. size : apply_assignments(documents[i], assignments) = <<>>

\* `set` changes each document as if it were alone.
LEMMA SetEach ==
    ASSUME NEW documents, NEW size \in Nat, documents = [i \in 1 .. size |-> documents[i]],
           NEW stage, stage[1] = "Set"
    PROVE  RunStage(documents, stage) =
             IF SomeFails(documents, size, stage[2]) THEN <<>>
             ELSE <<Changed(documents, size, stage[2])>>
<1> DEFINE after(i) == apply_assignments(documents[i], stage[2])
           changed == [i \in 1 .. size |-> after(i)]
<1>1. DOMAIN documents = 1 .. size
  OBVIOUS
<1>2. RunStage(documents, stage) = Set(documents, stage[2])
  BY DEF RunStage
<1>3. Set(documents, stage[2]) =
        IF <<>> \in Range(changed) THEN <<>> ELSE <<[i \in 1 .. size |-> changed[i][1]]>>
  BY <1>1 DEF Set
<1>4. <<>> \in Range(changed) <=> \E i \in 1 .. size : after(i) = <<>>
  <2> HIDE DEF after
  <2> QED
    BY DEF Range
<1>5. [i \in 1 .. size |-> changed[i][1]] = [i \in 1 .. size |-> after(i)[1]]
  <2> HIDE DEF after
  <2> QED
    OBVIOUS
<1> HIDE DEF changed
<1>6. <<>> \in Range(changed) <=> SomeFails(documents, size, stage[2])
  BY <1>4 DEF SomeFails
<1>7. [i \in 1 .. size |-> changed[i][1]] = Changed(documents, size, stage[2])
  BY <1>5 DEF Changed
<1> QED
  BY <1>2, <1>3, <1>6, <1>7

\* `set` on a single document.
LEMMA SetAlone ==
    ASSUME NEW document, NEW stage, stage[1] = "Set"
    PROVE  LET after == apply_assignments(document, stage[2])
           IN  RunStage(<<document>>, stage) = IF after = <<>> THEN <<>> ELSE <<<<after[1]>>>>
<1> DEFINE one == <<document>>
           after == apply_assignments(document, stage[2])
<1>1. one = [i \in 1 .. 1 |-> one[i]] /\ one[1] = document
  OBVIOUS
<1> HIDE DEF one
<1>2. RunStage(one, stage) =
        IF SomeFails(one, 1, stage[2]) THEN <<>> ELSE <<Changed(one, 1, stage[2])>>
  <2>1. 1 \in Nat
    OBVIOUS
  <2> QED
    BY <1>1, <2>1, SetEach
<1>3. \A i \in 1 .. 1 : i = 1 /\ apply_assignments(one[i], stage[2]) = after
  BY <1>1
<1>4. [i \in 1 .. 1 |-> apply_assignments(one[i], stage[2])[1]] = [i \in 1 .. 1 |-> after[1]]
  BY <1>3
<1>5. [i \in 1 .. 1 |-> after[1]] = <<after[1]>>
  <2> HIDE DEF after
  <2> QED
    OBVIOUS
<1> HIDE DEF after
<1>6. (\E i \in 1 .. 1 : apply_assignments(one[i], stage[2]) = <<>>) <=> after = <<>>
  <2>1. 1 \in 1 .. 1
    OBVIOUS
  <2> QED
    BY <1>3, <2>1
<1>7. SomeFails(one, 1, stage[2]) <=> after = <<>>
  BY <1>6 DEF SomeFails
<1>8. Changed(one, 1, stage[2]) = <<after[1]>>
  BY <1>4, <1>5 DEF Changed
<1>9. RunStage(one, stage) = IF after = <<>> THEN <<>> ELSE <<<<after[1]>>>>
  BY <1>2, <1>7, <1>8
<1> QED
  BY <1>9 DEF one, after

AllSets(stages) == AllFormed(stages) /\ \A n \in DOMAIN stages : stages[n][1] = "Set"

\* What stages of `set` make of documents and of one of them alone.
MadeApart(documents, size, stages, n) ==
    IF \E i \in 1 .. size : RunFirst(<<documents[i]>>, stages, n) = <<>>
    THEN RunFirst(documents, stages, n) = <<>>
    ELSE \E made :
           /\ made = [i \in 1 .. size |-> made[i]]
           /\ RunFirst(documents, stages, n) = <<made>>
           /\ \A i \in 1 .. size : /\ RunFirst(<<documents[i]>>, stages, n) = <<<<made[i]>>>>
                                   /\ IsDocument(made[i]) /\ made[i].id = documents[i].id

\* Stages of `set` work on each document as if it were alone.
LEMMA SetsApart ==
    ASSUME NEW documents, NEW size \in Nat, documents = [i \in 1 .. size |-> documents[i]],
           \A i \in 1 .. size : IsDocument(documents[i]),
           NEW stages, AllSets(stages)
    PROVE  MadeApart(documents, size, stages, Len(stages))
<1> DEFINE last == Len(stages)
           One(i, n) == RunFirst(<<documents[i]>>, stages, n)
           All(n) == RunFirst(documents, stages, n)
           Apart(n) == MadeApart(documents, size, stages, n)
           T == {n \in 0 .. last : Apart(n)}
<1>1. last \in Nat /\ IsSequence(stages) /\ \A n \in 1 .. last : stages[n][1] = "Set" /\ StageFormed(stages[n])
  BY DEF AllSets, AllFormed, IsSequence
<1>2. 0 \in T
  <2>1. All(0) = <<documents>> /\ \A i \in 1 .. size : One(i, 0) = <<<<documents[i]>>>>
    BY <1>1, PipelineByPrefix
  <2>2. \A i \in 1 .. size : One(i, 0) # <<>>
    BY <2>1
  <2> HIDE DEF One, All
  <2>3. \E made : /\ made = [i \in 1 .. size |-> made[i]]
                  /\ All(0) = <<made>>
                  /\ \A i \in 1 .. size : /\ One(i, 0) = <<<<made[i]>>>>
                                          /\ IsDocument(made[i]) /\ made[i].id = documents[i].id
    BY <2>1
  <2>4. Apart(0)
    BY <2>2, <2>3 DEF MadeApart, One, All
  <2> HIDE DEF Apart
  <2> QED
    BY <1>1, <2>4
<1>3. ASSUME NEW n \in 1 .. last, n - 1 \in T
      PROVE  n \in T
  <2>0. Apart(n - 1)
    <3> HIDE DEF Apart
    <3> QED
      BY <1>3
  <2> DEFINE stage == stages[n]
             before == n - 1
  <2>1. stage[1] = "Set" /\ StageFormed(stage) /\ Len(stage[2]) \in Nat
    BY <1>1 DEF StageFormed
  <2>2. /\ All(n) = IF All(before) = <<>> THEN <<>> ELSE RunStage(All(before)[1], stage)
        /\ \A i \in 1 .. size :
             One(i, n) = IF One(i, before) = <<>> THEN <<>> ELSE RunStage(One(i, before)[1], stage)
    <3>1. n \in 1 .. Len(stages) /\ IsSequence(stages)
      BY <1>1
    <3>2. \A D : RunFirst(D, stages, n) = IF RunFirst(D, stages, before) = <<>> THEN <<>>
                                          ELSE RunStage(RunFirst(D, stages, before)[1], stage)
      BY <3>1, PipelineByPrefix
    <3> HIDE DEF before, stage
    <3> QED
      BY <3>2
  <2> HIDE DEF One, All, stage
  <2>3. CASE \E i \in 1 .. size : One(i, before) = <<>>
    <3>1. All(before) = <<>>
      BY <2>0, <2>3 DEF MadeApart, One, All
    <3>2. All(n) = <<>> /\ \E i \in 1 .. size : One(i, n) = <<>>
      BY <2>2, <2>3, <3>1
    <3>3. Apart(n)
      BY <3>2 DEF MadeApart, One, All
    <3> HIDE DEF Apart
    <3> QED
      BY <3>3
  <2>4. CASE ~\E i \in 1 .. size : One(i, before) = <<>>
    <3>1. PICK made : /\ made = [i \in 1 .. size |-> made[i]]
                      /\ All(before) = <<made>>
                      /\ \A i \in 1 .. size :
                           /\ One(i, before) = <<<<made[i]>>>>
                           /\ IsDocument(made[i]) /\ made[i].id = documents[i].id
      BY <2>0, <2>4 DEF MadeApart, One, All
    <3> HIDE DEF Apart, before
    <3> DEFINE after(i) == apply_assignments(made[i], stage[2])
               some == \E i \in 1 .. size : after(i) = <<>>
               new == [i \in 1 .. size |-> after(i)[1]]
    <3>2. All(n) = RunStage(made, stage)
      BY <2>2, <3>1
    <3>3. \A i \in 1 .. size : One(i, n) = RunStage(<<made[i]>>, stage)
      <4>1. \A i \in 1 .. size : One(i, before) # <<>> /\ One(i, before)[1] = <<made[i]>>
        BY <3>1
      <4> QED
        BY <2>2, <4>1
    <3>4. \A i \in 1 .. size : One(i, n) = IF after(i) = <<>> THEN <<>> ELSE <<<<after(i)[1]>>>>
      BY <2>1, <3>3, SetAlone
    <3>5. All(n) = IF some THEN <<>> ELSE <<new>>
      <4>1. made = [i \in 1 .. size |-> made[i]]
        BY <3>1
      <4> HIDE DEF T
      <4>2. RunStage(made, stage) = IF SomeFails(made, size, stage[2]) THEN <<>>
                                    ELSE <<Changed(made, size, stage[2])>>
        BY <2>1, <4>1, SetEach
      <4>3. /\ SomeFails(made, size, stage[2]) <=> some
            /\ Changed(made, size, stage[2]) = new
        BY DEF SomeFails, Changed
      <4> HIDE DEF some, new
      <4> QED
        BY <3>2, <4>2, <4>3
    <3>6. \A i \in 1 .. size : after(i) # <<>> =>
            IsDocument(after(i)[1]) /\ after(i)[1].id = documents[i].id
      BY <2>1, <3>1, AssignmentsKeepId
    <3>7. new = [i \in 1 .. size |-> new[i]] /\ \A i \in 1 .. size : new[i] = after(i)[1]
      <4> HIDE DEF after
      <4> QED
        OBVIOUS
    <3> HIDE DEF after, new
    <3>8. CASE some
      <4>1. All(n) = <<>> /\ \E i \in 1 .. size : One(i, n) = <<>>
        BY <3>4, <3>5, <3>8
      <4>2. Apart(n)
        BY <4>1 DEF MadeApart, One, All, Apart
      <4> QED
        BY <4>2
    <3>9. CASE ~some
      <4>1. All(n) = <<new>>
        BY <3>5, <3>9
      <4>2. \A i \in 1 .. size : /\ One(i, n) = <<<<new[i]>>>>
                                 /\ IsDocument(new[i]) /\ new[i].id = documents[i].id
        BY <3>4, <3>6, <3>7, <3>9
      <4>3. ~\E i \in 1 .. size : One(i, n) = <<>>
        <5>1. \A x : <<x>> # <<>>
          OBVIOUS
        <5> QED
          BY <4>2, <5>1, Zenon
      <4>4. \E one : /\ one = [i \in 1 .. size |-> one[i]]
                     /\ All(n) = <<one>>
                     /\ \A i \in 1 .. size : /\ One(i, n) = <<<<one[i]>>>>
                                             /\ IsDocument(one[i]) /\ one[i].id = documents[i].id
        BY <3>7, <4>1, <4>2
      <4>5. Apart(n)
        BY <4>3, <4>4 DEF MadeApart, One, All, Apart
      <4> QED
        BY <4>5
    <3> QED
      BY <3>8, <3>9
  <2> QED
    BY <2>3, <2>4
<1>4. last \in T
  <2> HIDE DEF T, last
  <2>1. \A k \in 0 .. last : k \in T
    BY <1>1, <1>2, <1>3, LevelByLevel
  <2> QED
    BY <1>1, <2>1
<1> QED
  BY <1>4
-----------------------------------------------------------------------------
(* What the commands leave in a collection *)

\* The documents that a scan of a collection gives.
AsDocument(documents, j) == [id |-> j, fields |-> documents[j]]
Contents(documents) == {AsDocument(documents, j) : j \in DOMAIN documents}

\* A document of a collection is found there under its id.
LEMMA ContentsById ==
    ASSUME NEW documents, NEW d
    PROVE  d \in Contents(documents) <=> d.id \in DOMAIN documents /\ d = AsDocument(documents, d.id)
BY DEF Contents, AsDocument

\* The first elements of a sequence, and the ids of documents.
Elements(s, n) == {s[i] : i \in 1 .. n}
Ids(s, n) == {s[i].id : i \in 1 .. n}

\* What `update` makes of a collection of which it was given documents.
Replaced(old, new, made, n) ==
    /\ DOMAIN new = DOMAIN old
    /\ \A j \in DOMAIN old :
         \/ new[j] = old[j] /\ \A i \in 1 .. n : made[i].id # j
         \/ \E i \in 1 .. n : made[i].id = j /\ new[j] = made[i].fields

\* Documents made of those of a collection, with their ids.
MadeOf(old, sel, made, n) ==
    /\ \A i \in 1 .. n : /\ sel[i] \in Contents(old)
                         /\ IsDocument(made[i]) /\ made[i].id = sel[i].id
    /\ \A i, l \in 1 .. n : sel[i] = sel[l] => made[i] = made[l]

\* Documents with the ids of some others in their place.
LEMMA UpdatedContents ==
    ASSUME NEW old, NEW new, NEW size \in Nat, NEW sel, NEW made, Replaced(old, new, made, size),
           MadeOf(old, sel, made, size)
    PROVE  Contents(new) = (Contents(old) \ Elements(sel, size)) \cup Elements(made, size)
<1> DEFINE got == {sel[i] : i \in 1 .. size}
           put == {made[i] : i \in 1 .. size}
<1>0. /\ DOMAIN new = DOMAIN old
      /\ \A j \in DOMAIN old :
           \/ new[j] = old[j] /\ \A i \in 1 .. size : made[i].id # j
           \/ \E i \in 1 .. size : made[i].id = j /\ new[j] = made[i].fields
  BY DEF Replaced
<1>9. /\ \A i \in 1 .. size : /\ sel[i] \in Contents(old)
                               /\ IsDocument(made[i]) /\ made[i].id = sel[i].id
      /\ \A i, l \in 1 .. size : sel[i] = sel[l] => made[i] = made[l]
  BY DEF MadeOf
<1> USE <1>9
<1>1. ASSUME NEW j \in DOMAIN old
      PROVE  \/ AsDocument(new, j) \in Contents(old) \ got
             \/ AsDocument(new, j) \in put
  <2>1. CASE new[j] = old[j] /\ \A i \in 1 .. size : made[i].id # j
    <3>1. AsDocument(new, j) = AsDocument(old, j) /\ AsDocument(new, j).id = j
      BY <2>1 DEF AsDocument
    <3>2. AsDocument(new, j) \in Contents(old)
      BY <3>1 DEF Contents
    <3>3. \A i \in 1 .. size : sel[i].id # j
      BY <2>1
    <3>4. AsDocument(new, j) \notin got
      BY <3>1, <3>3
    <3> QED
      BY <3>2, <3>4
  <2>2. CASE \E i \in 1 .. size : made[i].id = j /\ new[j] = made[i].fields
    <3>1. PICK i \in 1 .. size : made[i].id = j /\ new[j] = made[i].fields
      BY <2>2
    <3>2. made[i] = AsDocument(new, j)
      BY <3>1 DEF IsDocument, AsDocument
    <3> QED
      BY <3>2
  <2> QED
    BY <1>0, <2>1, <2>2
<1>2. ASSUME NEW e \in Contents(old), e \notin got
      PROVE  e \in Contents(new)
  <2>1. PICK j \in DOMAIN old : e = AsDocument(old, j)
    BY DEF Contents
  <2>2. \A i \in 1 .. size : sel[i].id # j
    <3>1. \A i \in 1 .. size : sel[i] = AsDocument(old, sel[i].id)
      BY ContentsById
    <3> QED
      BY <1>2, <2>1, <3>1
  <2>3. new[j] = old[j]
    BY <1>0, <2>2
  <2>4. e = AsDocument(new, j)
    BY <2>1, <2>3 DEF AsDocument
  <2> QED
    BY <1>0, <2>4 DEF Contents
<1>3. ASSUME NEW i \in 1 .. size
      PROVE  made[i] \in Contents(new)
  <2> DEFINE j == made[i].id
  <2>1. \A l \in 1 .. size : sel[l].id \in DOMAIN old /\ sel[l] = AsDocument(old, sel[l].id)
    BY ContentsById
  <2>2. PICK l \in 1 .. size : made[l].id = j /\ new[j] = made[l].fields
    BY <1>0, <2>1
  <2>3. sel[l] = sel[i]
    <3>1. sel[l].id = sel[i].id
      BY <2>2
    <3> QED
      BY <2>1, <3>1
  <2>4. made[l] = made[i]
    BY <2>3
  <2>5. made[i] = AsDocument(new, j) /\ j \in DOMAIN new
    BY <1>0, <2>1, <2>2, <2>4 DEF IsDocument, AsDocument
  <2> QED
    BY <2>5 DEF Contents
<1>4. \A e \in Contents(new) : e \in (Contents(old) \ got) \cup put
  <2>1. \A e \in Contents(new) : \E j \in DOMAIN old : e = AsDocument(new, j)
    BY <1>0 DEF Contents
  <2> HIDE DEF got, put
  <2> QED
    BY <1>1, <2>1
<1>5. \A e \in put : e \in Contents(new)
  BY <1>3
<1> HIDE DEF got, put
<1>6. Contents(new) = (Contents(old) \ got) \cup put
  BY <1>2, <1>4, <1>5
<1> QED
  BY <1>6 DEF got, put, Elements

\* A collection without the documents with the ids of some.
LEMMA DeletedContents ==
    ASSUME NEW old, NEW size \in Nat, NEW sel, NEW made,
           \A i \in 1 .. size : sel[i] \in Contents(old) /\ made[i].id = sel[i].id
    PROVE  Contents(Without(old, Ids(made, size))) = Contents(old) \ Elements(sel, size)
<1> DEFINE ids == {made[i].id : i \in 1 .. size}
           new == Without(old, ids)
           got == {sel[i] : i \in 1 .. size}
<1>1. DOMAIN new = DOMAIN old \ ids /\ \A j \in DOMAIN old \ ids : new[j] = old[j]
  BY DEF Without
<1>2. ids = {sel[i].id : i \in 1 .. size}
  OBVIOUS
<1> HIDE DEF new
<1>3. \A i \in 1 .. size : sel[i] = AsDocument(old, sel[i].id)
  BY ContentsById
<1>4. ASSUME NEW j \in DOMAIN old
      PROVE  j \in ids <=> AsDocument(old, j) \in got
  <2>1. AsDocument(old, j).id = j
    BY DEF AsDocument
  <2> QED
    BY <1>2, <1>3, <2>1
<1> HIDE DEF ids, got
<1>5. \A j \in DOMAIN new : AsDocument(new, j) = AsDocument(old, j)
  BY <1>1 DEF AsDocument
<1>6. \A e \in Contents(new) : e \in Contents(old) \ got
  BY <1>1, <1>4, <1>5 DEF Contents
<1>7. \A e \in Contents(old) \ got : e \in Contents(new)
  BY <1>1, <1>4, <1>5 DEF Contents
<1>8. Contents(new) = Contents(old) \ got
  BY <1>6, <1>7
<1> QED
  BY <1>8 DEF new, ids, got, Ids, Elements

IsStore(s) == s = [collections |-> s.collections, definitions |-> s.definitions]

\* A document put in the place of another one of its collection.
LEMMA ReplaceExactly ==
    ASSUME NEW s, IsStore(s), NEW c \in DOMAIN s.collections, NEW document,
           document.id \in DOMAIN s.collections[c], replace(s, c, document) # <<>>
    PROVE  LET t == replace(s, c, document)[1]
               old == s.collections[c]
           IN  /\ IsStore(t) /\ t.definitions = s.definitions
               /\ DOMAIN t.collections = DOMAIN s.collections
               /\ t.collections[c] = [old EXCEPT ![document.id] = document.fields]
<1> DEFINE t == [s EXCEPT !.collections[c][document.id] = document.fields]
<1>1. replace(s, c, document)[1] = t
  BY DEF replace
<1>2. s = [collections |-> s.collections, definitions |-> s.definitions]
  BY DEF IsStore
<1>3. /\ t.definitions = s.definitions
      /\ t.collections = [s.collections EXCEPT ![c][document.id] = document.fields]
      /\ t = [collections |-> t.collections, definitions |-> t.definitions]
  BY <1>2
<1> HIDE DEF t
<1>4. /\ DOMAIN t.collections = DOMAIN s.collections
      /\ t.collections[c] = [s.collections[c] EXCEPT ![document.id] = document.fields]
  BY <1>3
<1> QED
  BY <1>1, <1>3, <1>4 DEF IsStore

\* One document more.
LEMMA ReplacedOnce ==
    ASSUME NEW old, NEW mid, NEW made, NEW n \in Nat, n > 0, Replaced(old, mid, made, n - 1),
           made[n].id \in DOMAIN old
    PROVE  Replaced(old, [mid EXCEPT ![made[n].id] = made[n].fields], made, n)
<1> DEFINE new == [mid EXCEPT ![made[n].id] = made[n].fields]
           x == made[n].id
<1>1. DOMAIN mid = DOMAIN old
  BY DEF Replaced
<1>2. /\ DOMAIN new = DOMAIN old /\ new[x] = made[n].fields
      /\ \A j \in DOMAIN old : j # x => new[j] = mid[j]
  BY <1>1
<1> HIDE DEF new
<1>3. n \in 1 .. n /\ \A i : i \in 1 .. n <=> i \in 1 .. n - 1 \/ i = n
  OBVIOUS
<1>4. ASSUME NEW j \in DOMAIN old
      PROVE  \/ new[j] = old[j] /\ \A i \in 1 .. n : made[i].id # j
             \/ \E i \in 1 .. n : made[i].id = j /\ new[j] = made[i].fields
  <2>1. CASE j = x
    BY <1>2, <1>3, <2>1
  <2>2. CASE j # x
    <3>1. \/ mid[j] = old[j] /\ \A i \in 1 .. n - 1 : made[i].id # j
          \/ \E i \in 1 .. n - 1 : made[i].id = j /\ mid[j] = made[i].fields
      BY DEF Replaced
    <3>2. new[j] = mid[j]
      BY <1>2, <2>2
    <3> QED
      BY <1>3, <2>2, <3>1, <3>2
  <2> QED
    BY <2>1, <2>2
<1> QED
  BY <1>2, <1>4 DEF Replaced, new

\* `update` puts every document in the place of the one with its id, unless an
\* index refuses one.
LEMMA UpdateReplaces ==
    ASSUME NEW s, IsStore(s), NEW c \in DOMAIN s.collections, NEW size \in Nat, NEW made,
           Len(made) = size, \A i \in 1 .. size : made[i].id \in DOMAIN s.collections[c]
    PROVE  LET updated == UpdateAll(s, c, made)
           IN  \/ /\ updated.reply = Error
                  /\ \E i \in 1 .. size : ~Validates(s, c, made[i])
               \/ /\ updated.reply = <<"Updated", size>>
                  /\ Replaced(s.collections[c], updated.store.collections[c], made, size)
<1> DEFINE old == s.collections[c]
<1>1. PICK f : /\ f[0] = [reply |-> <<"Updated", 0>>, store |-> s]
               /\ \A n \in 1 .. size :
                    LET before == f[n - 1]
                        replaced == replace(before.store, c, made[n])
                    IN  f[n] =
                          IF before.reply = Error THEN before
                          ELSE IF replaced = <<>> THEN [reply |-> Error, store |-> before.store]
                          ELSE [reply |-> <<"Updated", n>>, store |-> replaced[1]]
               /\ UpdateAll(s, c, made) = f[size]
  BY UpdateSteps
<1> DEFINE Refused == \E i \in 1 .. size : ~Validates(s, c, made[i])
           Goes(n) == /\ f[n].reply = <<"Updated", n>>
                      /\ IsStore(f[n].store) /\ f[n].store.definitions = s.definitions
                      /\ c \in DOMAIN f[n].store.collections
                      /\ Replaced(old, f[n].store.collections[c], made, n)
           Shown(n) == (f[n].reply = Error /\ Refused) \/ Goes(n)
           T == {n \in 0 .. size : Shown(n)}
<1>2. 0 \in T
  <2>1. f[0].reply = <<"Updated", 0>> /\ f[0].store = s
    BY <1>1
  <2>2. Replaced(old, old, made, 0)
    BY DEF Replaced
  <2>3. Goes(0)
    BY <2>1, <2>2
  <2> HIDE DEF Goes
  <2> QED
    BY <2>3
<1>3. ASSUME NEW n \in 1 .. size, n - 1 \in T
      PROVE  n \in T
  <2>0. Shown(n - 1)
    <3> HIDE DEF Shown
    <3> QED
      BY <1>3
  <2> DEFINE before == f[n - 1]
             mid == before.store
             replaced == replace(mid, c, made[n])
  <2>1. f[n] = IF before.reply = Error THEN before
               ELSE IF replaced = <<>> THEN [reply |-> Error, store |-> before.store]
               ELSE [reply |-> <<"Updated", n>>, store |-> replaced[1]]
    BY <1>1
  <2>2. CASE before.reply = Error /\ Refused
    <3>1. f[n].reply = Error
      BY <2>1, <2>2
    <3>2. Shown(n)
      BY <2>2, <3>1
    <3> HIDE DEF Shown
    <3> QED
      BY <3>2
  <2>3. CASE Goes(n - 1)
    <3>1. /\ before.reply = <<"Updated", n - 1>> /\ IsStore(mid)
          /\ mid.definitions = s.definitions /\ c \in DOMAIN mid.collections
          /\ Replaced(old, mid.collections[c], made, n - 1)
      BY <2>3
    <3>2. before.reply # Error
      <4>1. before.reply[1] = "Updated" /\ Error[1] = "Error"
        BY <3>1 DEF Error
      <4> HIDE DEF before
      <4> QED
        BY <4>1
    <3> HIDE DEF before, mid, replaced, Goes
    <3>3. CASE replaced = <<>>
      <4>1. f[n].reply = Error
        BY <2>1, <3>2, <3>3
      <4>2. ~Validates(mid, c, made[n])
        <5>1. \A x : <<x>> # <<>>
          OBVIOUS
        <5> QED
          BY <3>3, <5>1 DEF replace, replaced
      <4>3. Validates(mid, c, made[n]) <=> Validates(s, c, made[n])
        BY <3>1 DEF Validates
      <4>4. Refused
        BY <4>2, <4>3
      <4>5. Shown(n)
        BY <4>1, <4>4
      <4> HIDE DEF Shown
      <4> QED
        BY <4>5
    <3>4. CASE replaced # <<>>
      <4> DEFINE t == replaced[1]
      <4>1. f[n].reply = <<"Updated", n>> /\ f[n].store = t
        BY <2>1, <3>2, <3>4
      <4>2. made[n].id \in DOMAIN old /\ DOMAIN mid.collections[c] = DOMAIN old
        BY <3>1 DEF Replaced
      <4>3. /\ IsStore(t) /\ t.definitions = mid.definitions
            /\ DOMAIN t.collections = DOMAIN mid.collections
            /\ t.collections[c] = [mid.collections[c] EXCEPT ![made[n].id] = made[n].fields]
        BY <3>1, <3>4, <4>2, ReplaceExactly DEF replaced
      <4> HIDE DEF t
      <4> DEFINE was == mid.collections[c]
      <4>4. Replaced(old, was, made, n - 1) /\ made[n].id \in DOMAIN old /\ n \in Nat /\ n > 0
        BY <3>1, <4>2
      <4> HIDE DEF was, old
      <4>5. Replaced(old, [was EXCEPT ![made[n].id] = made[n].fields], made, n)
        BY <4>4, ReplacedOnce
      <4>6. Goes(n)
        BY <3>1, <4>1, <4>3, <4>5 DEF Goes, was
      <4> QED
        BY <4>6
    <3> QED
      BY <3>3, <3>4
  <2> QED
    BY <2>0, <2>2, <2>3
<1>4. Shown(size)
  <2> HIDE DEF Shown
  <2>1. \A k \in 0 .. size : k \in T
    <3> HIDE DEF T
    <3> QED
      BY <1>2, <1>3, LevelByLevel
  <2> QED
    BY <2>1
<1> QED
  BY <1>1, <1>4
-----------------------------------------------------------------------------
(* What update and delete act on *)

\* The stages before the first `set`.
LEMMA SelectingStagesFirst ==
    ASSUME NEW q, IsSequence(q.stages)
    PROVE  LET k == Selecting(q) IN
           /\ k \in 0 .. Len(q.stages)
           /\ \A i \in 1 .. k : q.stages[i][1] # "Set"
           /\ k < Len(q.stages) => q.stages[k + 1][1] = "Set"
<1> DEFINE size == Len(q.stages)
           sets == {i \in DOMAIN q.stages : q.stages[i][1] = "Set"}
           S == sets \cup {size + 1}
           least == Min(S)
<1>1. size \in Nat /\ DOMAIN q.stages = 1 .. size
  BY DEF IsSequence
<1>2. S \in SUBSET (1 .. size + 1) /\ size + 1 \in S
  BY <1>1
<1>3. \E m \in S : \A j \in S : m <= j
  <2> DEFINE top == size + 1
  <2>1. top \in Nat /\ S \in SUBSET (1 .. top) /\ S # {}
    BY <1>1, <1>2
  <2> HIDE DEF S, top
  <2> QED
    BY <2>1, FirstOf
<1>4. least \in S /\ \A j \in S : least <= j
  <2> HIDE DEF S
  <2> QED
    BY <1>3 DEF Min
<1>5. Selecting(q) = least - 1
  BY DEF Selecting
<1>6. least \in 1 .. size + 1
  <2> HIDE DEF S, least
  <2> QED
    BY <1>2, <1>4
<1>7. \A i \in 1 .. size : q.stages[i][1] = "Set" => least <= i
  BY <1>1, <1>4
<1>8. least < size + 1 => q.stages[least][1] = "Set"
  BY <1>1, <1>4
<1> HIDE DEF least, S, sets
<1> DEFINE k == least - 1
<1>9. k \in 0 .. size /\ least = k + 1
  BY <1>1, <1>6
<1>10. \A i \in 1 .. k : q.stages[i][1] # "Set"
  BY <1>1, <1>7, <1>9
<1>11. k < size => q.stages[k + 1][1] = "Set"
  BY <1>1, <1>8, <1>9
<1> HIDE DEF k, size
<1>12. Selecting(q) = k
  BY <1>5 DEF k
<1> QED
  BY <1>9, <1>10, <1>11, <1>12 DEF size

\* They give documents that they were given.
LEMMA SelectingPrefix ==
    ASSUME NEW documents, IsSequence(documents), NEW stages, AllFormed(stages),
           NEW k \in 0 .. Len(stages), \A i \in 1 .. k : stages[i][1] \notin {"Project", "Set"},
           RunFirst(documents, stages, k) # <<>>
    PROVE  LET selected == RunFirst(documents, stages, k)[1]
           IN  IsSequence(selected) /\ Range(selected) \subseteq Range(documents)
<1> DEFINE At(n) == RunFirst(documents, stages, n)
           Selects(n) == \/ At(n) = <<>>
                         \/ IsSequence(At(n)[1]) /\ Range(At(n)[1]) \subseteq Range(documents)
           T == {n \in 0 .. k : Selects(n)}
<1>1. k \in Nat /\ \A n \in 1 .. k : n \in 1 .. Len(stages) /\ StageFormed(stages[n])
  BY DEF AllFormed, IsSequence
<1>2. 0 \in T
  <2>1. At(0) = <<documents>>
    BY PipelineByPrefix DEF AllFormed
  <2> HIDE DEF At
  <2>2. Selects(0)
    BY <2>1
  <2> HIDE DEF Selects
  <2> QED
    BY <1>1, <2>2
<1>3. ASSUME NEW n \in 1 .. k, n - 1 \in T
      PROVE  n \in T
  <2>1. Selects(n - 1)
    <3> HIDE DEF Selects
    <3> QED
      BY <1>3
  <2> DEFINE before == At(n - 1)
             stage == stages[n]
  <2>2. At(n) = IF before = <<>> THEN <<>> ELSE RunStage(before[1], stage)
    BY <1>1, PipelineByPrefix DEF AllFormed
  <2>3. StageFormed(stage) /\ stage[1] \notin {"Project", "Set"}
    BY <1>1
  <2>4. before # <<>> => IsSequence(before[1]) /\ Range(before[1]) \subseteq Range(documents)
    BY <2>1
  <2> HIDE DEF before, stage, At
  <2>5. ASSUME At(n) # <<>>
        PROVE  IsSequence(At(n)[1]) /\ Range(At(n)[1]) \subseteq Range(documents)
    <3>1. At(n) = RunStage(before[1], stage) /\ IsSequence(before[1])
          /\ Range(before[1]) \subseteq Range(documents)
      BY <2>2, <2>4, <2>5
    <3>2. IsSequence(At(n)[1])
      BY <2>3, <2>5, <3>1, StagesGiveSequences
    <3>3. Range(At(n)[1]) \subseteq Range(before[1])
      BY <2>3, <2>5, <3>1, SelectingStages
    <3> QED
      BY <3>1, <3>2, <3>3
  <2>6. Selects(n)
    BY <2>5
  <2> HIDE DEF Selects
  <2> QED
    BY <2>6
<1>4. Selects(k)
  <2> HIDE DEF Selects
  <2>1. \A n \in 0 .. k : n \in T
    <3> HIDE DEF T
    <3> QED
      BY <1>1, <1>2, <1>3, LevelByLevel
  <2> QED
    BY <1>1, <2>1
<1> QED
  BY <1>4

\* The planner gives a command the access path of the `get` with the stages before
\* its first `set`.
LEMMA PlannedAsGet ==
    ASSUME NEW q, WellFormed(q), q.command[1] \in Piped, NEW definitions
    PROVE  plan(AsGet(q), definitions) = plan(q, definitions)
<1> DEFINE k == Selecting(q)
           get == AsGet(q)
           prefix == SubSeq(q.stages, 1, k)
<1>1. /\ k \in 0 .. Len(q.stages) /\ IsSequence(q.stages)
      /\ k < Len(q.stages) => q.stages[k + 1][1] = "Set"
  BY SelectingStagesFirst DEF WellFormed, IsSequence
<1> HIDE DEF k
<1>2. DOMAIN prefix = 1 .. k /\ \A i \in 1 .. k : prefix[i] = q.stages[i]
  BY <1>1 DEF IsSequence
<1>3. get.stages = prefix /\ get.command[1] = "Get" /\ get.command[2] = q.command[2]
  BY DEF AsGet, k
<1> HIDE DEF get, prefix
<1>4. Filters(q.stages) \subseteq {1} /\ DOMAIN q.stages = 1 .. Len(q.stages) /\ Len(q.stages) \in Nat
  BY <1>1 DEF WellFormed, IsSequence
<1>5. Filters(prefix) = Filters(q.stages)
  <2>1. \A n \in Filters(prefix) : n \in Filters(q.stages)
    BY <1>1, <1>2, <1>4 DEF Filters
  <2>2. ASSUME NEW n \in Filters(q.stages)
        PROVE  n \in Filters(prefix)
    <3>1. n = 1 /\ q.stages[1][1] = "Filter" /\ 1 <= Len(q.stages)
      BY <1>4 DEF Filters
    <3>2. k # 0
      <4>1. k = 0 => q.stages[1][1] = "Set"
        <5>1. k = 0 => k < Len(q.stages) /\ k + 1 = 1
          BY <1>4, <3>1
        <5> QED
          BY <1>1, <5>1
      <4> QED
        BY <3>1, <4>1
    <3>3. 1 \in 1 .. k
      BY <1>1, <1>4, <3>2
    <3> QED
      BY <1>2, <3>1, <3>3 DEF Filters
  <2> QED
    BY <2>1, <2>2
<1>6. Filters(q.stages) # {} => Predicate(prefix) = Predicate(q.stages)
  <2> SUFFICES ASSUME Filters(q.stages) # {} PROVE Predicate(prefix) = Predicate(q.stages)
    OBVIOUS
  <2>1. Filters(q.stages) = {1}
    BY <1>4
  <2>2. Min({1}) = 1
    BY DEF Min
  <2>3. 1 \in DOMAIN prefix
    BY <1>5, <2>1 DEF Filters
  <2> QED
    BY <1>2, <1>5, <2>1, <2>2, <2>3 DEF Predicate
<1> DEFINE usable == Usable(q.command[2], q.stages, definitions)
           first == CHOOSE n \in usable : \A m \in usable : Rank(n) <= Rank(m)
<1>7. Usable(get.command[2], get.stages, definitions) = usable
  BY <1>3, <1>5, <1>6 DEF Usable
<1>8. usable # {} => Filters(q.stages) # {}
  BY DEF Usable
<1> HIDE DEF usable
<1>9. plan(get, definitions) =
        IF usable = {} THEN <<"CollectionScan">>
        ELSE <<"IndexScan", first, equality_key(Predicate(prefix), definitions[first].field)[1]>>
  BY <1>3, <1>7 DEF plan, Piped
<1>10. plan(q, definitions) =
         IF usable = {} THEN <<"CollectionScan">>
         ELSE <<"IndexScan", first, equality_key(Predicate(q.stages), definitions[first].field)[1]>>
  BY DEF plan, usable
<1> HIDE DEF first
<1>11. plan(get, definitions) = plan(q, definitions)
  BY <1>6, <1>8, <1>9, <1>10
<1> QED
  BY <1>11 DEF get

\* What `get` answers for the stages before the first `set`.
LEMMA GetOfPrefix ==
    ASSUME NEW q, WellFormed(q), q.command[1] \in Piped, NEW s, NEW fresh
    PROVE  LET access == plan(q, s.definitions)
               first == RunFirst(Accessed(s, q.command[2], access), q.stages, Selecting(q))
               get == execute(AsGet(q), s, fresh).reply
           IN  get = IF q.command[2] \notin DOMAIN s.collections \/ first = <<>> THEN Error
                     ELSE <<"Documents", first[1]>>
<1> DEFINE g == AsGet(q)
           c == q.command[2]
           access == plan(q, s.definitions)
           documents == Accessed(s, c, access)
           k == Selecting(q)
           prefix == SubSeq(q.stages, 1, k)
           first == run_pipeline(documents, prefix)
           get == execute(g, s, fresh)
<1>1. /\ k \in 0 .. Len(q.stages) /\ \A i \in 1 .. k : q.stages[i][1] # "Set"
      /\ IsSequence(q.stages)
  BY SelectingStagesFirst DEF WellFormed, IsSequence
<1> HIDE DEF k
<1>2. DOMAIN prefix = 1 .. k /\ \A i \in 1 .. k : prefix[i] = q.stages[i]
  BY <1>1 DEF IsSequence
<1>3. /\ g.stages = prefix /\ ~g.explain
      /\ g.command = <<"Get", c>> /\ g.command[1] = "Get" /\ g.command[2] = c
  BY DEF AsGet, k
<1>4. plan(g, s.definitions) = access
  BY PlannedAsGet
<1> HIDE DEF g, prefix, access
<1>5. get = ExecutePipeline(g, s, access)
  BY <1>3, <1>4 DEF execute, execute_planned, Piped
<1>6. validate_stages(prefix, "Get")
  BY <1>1, <1>2 DEF validate_stages
<1> HIDE DEF get, documents
<1>7. get = IF c \notin DOMAIN s.collections THEN Outcome(Error, s, 0)
            ELSE OnSelected(g.command, s, first, Len(documents))
  BY <1>3, <1>5, <1>6 DEF ExecutePipeline, documents
<1> HIDE DEF first
<1>8. OnSelected(g.command, s, first, Len(documents)).reply =
        IF first = <<>> THEN Error ELSE <<"Documents", first[1]>>
  BY <1>3 DEF OnSelected, Outcome, Effect
<1>9. get.reply = IF c \notin DOMAIN s.collections \/ first = <<>> THEN Error
                  ELSE <<"Documents", first[1]>>
  BY <1>7, <1>8 DEF Outcome
<1> QED
  BY <1>9 DEF get, g, first, documents, access, prefix, k, RunFirst
\* The documents that a query's stages select before its first `set`.
SelectedBy(q, s) ==
    RunFirst(Accessed(s, q.command[2], plan(q, s.definitions)), q.stages, Selecting(q))

\* What the stages from the first `set` on leave of the selected documents: for
\* each, what they leave of it alone.
LEMMA SelectedAndSet ==
    ASSUME NEW q, WellFormed(q), q.command[1] \in Piped, SetsComeLast(q),
           \A i \in DOMAIN q.stages : q.stages[i][1] # "Project",
           NEW s, NEW next \in Nat \ {0}, StoreTyped(s, next),
           q.command[2] \in DOMAIN s.collections, SelectedBy(q, s) # <<>>
    PROVE  LET documents == Accessed(s, q.command[2], plan(q, s.definitions))
               selected == SelectedBy(q, s)[1]
               all == run_pipeline(documents, q.stages)
               rest == SubSeq(q.stages, Selecting(q) + 1, Len(q.stages))
               size == Len(selected)
           IN  /\ IsSequence(selected)
               /\ \A i \in 1 .. size : selected[i] \in Contents(s.collections[q.command[2]])
               /\ \/ all = <<>>
                  \/ \E made :
                       /\ all = <<made>> /\ made = [i \in 1 .. size |-> made[i]] /\ Len(made) = size
                       /\ \A i \in 1 .. size :
                            /\ run_pipeline(<<selected[i]>>, rest) = <<<<made[i]>>>>
                            /\ IsDocument(made[i]) /\ made[i].id = selected[i].id
<1> DEFINE c == q.command[2]
           documents == Accessed(s, c, plan(q, s.definitions))
           stages == q.stages
           k == Selecting(q)
           first == RunFirst(documents, stages, k)
           selected == first[1]
           size == Len(selected)
           rest == SubSeq(stages, k + 1, Len(stages))
           all == run_pipeline(documents, stages)
<1>1. AllFormed(stages) /\ IsSequence(stages) /\ Len(stages) \in Nat
      /\ DOMAIN stages = 1 .. Len(stages)
  BY DEF WellFormed, AllFormed, IsSequence
<1>2. k \in 0 .. Len(stages) /\ \A i \in 1 .. k : stages[i][1] # "Set"
  BY <1>1, SelectingStagesFirst
<1>3. /\ IsSequence(documents)
      /\ Range(documents) \subseteq Range(Scan(s.collections[c]))
  BY AccessedDocuments
<1>4. Range(Scan(s.collections[c])) = Contents(s.collections[c])
  <2>1. next - 1 \in Nat /\ DOMAIN s.collections[c] \subseteq 1 .. next - 1
    BY DEF StoreTyped
  <2>2. Range(Scan(s.collections[c])) =
          {[id |-> i, fields |-> s.collections[c][i]] : i \in DOMAIN s.collections[c]}
    BY <2>1, ScanIsSequence
  <2> QED
    BY <2>2 DEF Contents, AsDocument
<1>5. first # <<>>
  BY DEF SelectedBy
<1>6. SetsComeLast(q) <=> \A i \in DOMAIN stages : i > k => stages[i][1] = "Set"
  BY DEF SetsComeLast
<1>7. \A i \in 1 .. k : stages[i][1] \notin {"Project", "Set"}
  BY <1>1, <1>2
<1> HIDE DEF documents, k
<1>8. IsSequence(selected) /\ Range(selected) \subseteq Range(documents)
  BY <1>1, <1>2, <1>3, <1>5, <1>7, SelectingPrefix
<1>9. /\ AllFormed(rest) /\ \A n \in DOMAIN rest : rest[n] = stages[k + n]
      /\ Len(rest) = Len(stages) - k
      /\ all = IF first = <<>> THEN <<>> ELSE run_pipeline(selected, rest)
  BY <1>1, <1>2, PipelineSplits
<1>10. AllSets(rest)
  <2>1. DOMAIN rest = 1 .. Len(stages) - k
    BY <1>9 DEF AllFormed, IsSequence
  <2>2. \A n \in 1 .. Len(stages) - k : k + n \in DOMAIN stages /\ k + n > k
    BY <1>1, <1>2
  <2> HIDE DEF rest
  <2>3. \A n \in DOMAIN rest : rest[n][1] = "Set"
    BY <1>6, <1>9, <2>1, <2>2
  <2> QED
    BY <1>9, <2>3 DEF AllSets
<1> HIDE DEF first, rest, all
<1>11. size \in Nat /\ selected = [i \in 1 .. size |-> selected[i]]
       /\ DOMAIN selected = 1 .. size
  BY <1>8 DEF IsSequence
<1>12. \A i \in 1 .. size : selected[i] \in Contents(s.collections[c])
  <2>1. \A i \in 1 .. size : selected[i] \in Range(selected)
    BY <1>11 DEF Range
  <2> QED
    BY <1>3, <1>4, <1>8, <2>1
<1>13. \A i \in 1 .. size : IsDocument(selected[i])
  BY <1>12 DEF Contents, AsDocument, IsDocument
<1> HIDE DEF selected, size
<1>14. MadeApart(selected, size, rest, Len(rest))
  BY <1>10, <1>11, <1>13, SetsApart
<1>15. IsSequence(rest) /\ \A d : RunFirst(d, rest, Len(rest)) = run_pipeline(d, rest)
  BY <1>9, PipelineByPrefix DEF AllFormed
<1>16. all = run_pipeline(selected, rest)
  BY <1>5, <1>9
<1>17. \/ all = <<>>
       \/ \E made :
            /\ all = <<made>> /\ made = [i \in 1 .. size |-> made[i]] /\ Len(made) = size
            /\ \A i \in 1 .. size :
                 /\ run_pipeline(<<selected[i]>>, rest) = <<<<made[i]>>>>
                 /\ IsDocument(made[i]) /\ made[i].id = selected[i].id
  <2>1. CASE \E i \in 1 .. size : RunFirst(<<selected[i]>>, rest, Len(rest)) = <<>>
    BY <1>14, <1>15, <1>16, <2>1 DEF MadeApart
  <2>2. CASE ~\E i \in 1 .. size : RunFirst(<<selected[i]>>, rest, Len(rest)) = <<>>
    <3>1. PICK made :
             /\ made = [i \in 1 .. size |-> made[i]]
             /\ RunFirst(selected, rest, Len(rest)) = <<made>>
             /\ \A i \in 1 .. size : /\ RunFirst(<<selected[i]>>, rest, Len(rest)) = <<<<made[i]>>>>
                                     /\ IsDocument(made[i]) /\ made[i].id = selected[i].id
      BY <1>14, <2>2 DEF MadeApart
    <3>2. Len(made) = size
      BY <1>11, <3>1, FunctionsAreSequences
    <3>3. /\ all = <<made>> /\ made = [i \in 1 .. size |-> made[i]] /\ Len(made) = size
          /\ \A i \in 1 .. size :
               /\ run_pipeline(<<selected[i]>>, rest) = <<<<made[i]>>>>
               /\ IsDocument(made[i]) /\ made[i].id = selected[i].id
      BY <1>15, <1>16, <3>1, <3>2
    <3> QED
      BY <3>3
  <2> QED
    BY <2>1, <2>2
<1> QED
  BY <1>8, <1>12, <1>17 DEF SelectedBy, documents, k, first, selected, size, rest, all

\* In a store that a session can reach, commands act on what `get` returns.
LEMMA CommandsAct == SessionInv => CommandsActOnWhatGetReturns
<1> SUFFICES ASSUME SessionInv, query # <<>>, Pipelined(query[1]), query[1].command[1] # "Get",
                    SetsComeLast(query[1])
             PROVE  ActsOn(query[1], execute(AsGet(query[1]), store, nextId).reply,
                           execute(query[1], store, nextId))
  BY DEF CommandsActOnWhatGetReturns
<1> DEFINE q == query[1]
           c == q.command[2]
           kind == q.command[1]
           access == plan(q, store.definitions)
           documents == Accessed(store, c, access)
           all == run_pipeline(documents, q.stages)
           first == SelectedBy(q, store)
           selected == first[1]
           size == Len(selected)
           rest == SubSeq(q.stages, Selecting(q) + 1, Len(q.stages))
           get == execute(AsGet(q), store, nextId).reply
           outcome == execute(q, store, nextId)
           old == store.collections[c]
<1>1. WellFormed(q) /\ kind \in {"Update", "Delete"} /\ kind \in Piped /\ ~q.explain
  BY SessionAssumption DEF SessionInv, QueryAtHand, Pipelined, Piped
<1>2. /\ nextId \in Nat \ {0} /\ StoreTyped(store, nextId) /\ IsStore(store)
      /\ c \in DOMAIN store.collections => DOMAIN old \subseteq 1 .. nextId - 1
  BY DEF SessionInv, StoreTyped, IsStore
<1>3. SetsComeLast(q)
  OBVIOUS
<1> HIDE DEF q
<1>4. get = IF c \notin DOMAIN store.collections \/ first = <<>> THEN Error
            ELSE <<"Documents", selected>>
  BY <1>1, GetOfPrefix DEF SelectedBy
<1>5. outcome = IF ~validate_stages(q.stages, kind) \/ c \notin DOMAIN store.collections
                THEN Outcome(Error, store, 0)
                ELSE OnSelected(q.command, store, all, Len(documents))
  BY <1>1 DEF execute, execute_planned, ExecutePipeline, Piped
<1>6. ASSUME outcome.reply = Error, outcome.store = store
      PROVE  ActsOn(q, get, outcome)
  <2> HIDE DEF get, outcome
  <2>1. outcome.reply # Error => outcome.reply[2] = Len(get[2])
    BY <1>6
  <2>2. \A name, got, put : Replaces(name, got, put, outcome)
    BY <1>6 DEF Replaces
  <2> QED
    BY <1>6, <2>1, <2>2 DEF ActsOn
<1>7. ASSUME outcome = Outcome(Error, store, 0) \/ outcome = Outcome(Error, store, Len(documents))
      PROVE  ActsOn(q, get, outcome)
  <2>1. outcome.reply = Error /\ outcome.store = store
    <3> HIDE DEF outcome
    <3> QED
      BY <1>7 DEF Outcome
  <2> HIDE DEF get, outcome
  <2> QED
    BY <1>6, <2>1
<1> HIDE DEF access, documents, first, get, outcome
<1>8. CASE ~validate_stages(q.stages, kind) \/ c \notin DOMAIN store.collections
  BY <1>5, <1>7, <1>8 DEF q, get, outcome
<1>9. CASE validate_stages(q.stages, kind) /\ c \in DOMAIN store.collections
  <2>1. outcome = OnSelected(q.command, store, all, Len(documents))
    BY <1>5, <1>9
  <2>2. \A i \in DOMAIN q.stages : q.stages[i][1] # "Project"
    BY <1>1, <1>9 DEF validate_stages
  <2> HIDE DEF kind
  <2>3. CASE all = <<>>
    <3>1. outcome = Outcome(Error, store, Len(documents))
      BY <2>1, <2>3 DEF OnSelected
    <3> QED
      BY <1>7, <3>1 DEF q, get, outcome
  <2>4. CASE all # <<>>
    <3>1. first # <<>>
      <4>1. AllFormed(q.stages) /\ IsSequence(q.stages)
        BY <1>1 DEF WellFormed, AllFormed, IsSequence
      <4>2. Selecting(q) \in 0 .. Len(q.stages)
        BY <4>1, SelectingStagesFirst
      <4>3. all = IF first = <<>> THEN <<>> ELSE run_pipeline(first[1], rest)
        BY <4>1, <4>2, PipelineSplits DEF first, SelectedBy, documents, access
      <4> QED
        BY <2>4, <4>3
    <3>2. /\ IsSequence(selected) /\ \A i \in 1 .. size : selected[i] \in Contents(old)
          /\ \E made :
               /\ all = <<made>> /\ made = [i \in 1 .. size |-> made[i]] /\ Len(made) = size
               /\ \A i \in 1 .. size :
                    /\ run_pipeline(<<selected[i]>>, rest) = <<<<made[i]>>>>
                    /\ IsDocument(made[i]) /\ made[i].id = selected[i].id
      <4>1. first # <<>> /\ SetsComeLast(q) /\ q.command[1] \in Piped
        BY <1>1, <1>3, <3>1 DEF kind
      <4>2. LET docs == Accessed(store, q.command[2], plan(q, store.definitions))
                chosen == SelectedBy(q, store)[1]
                whole == run_pipeline(docs, q.stages)
                others == SubSeq(q.stages, Selecting(q) + 1, Len(q.stages))
                number == Len(chosen)
            IN  /\ IsSequence(chosen)
                /\ \A i \in 1 .. number : chosen[i] \in Contents(store.collections[q.command[2]])
                /\ \/ whole = <<>>
                   \/ \E made :
                        /\ whole = <<made>> /\ made = [i \in 1 .. number |-> made[i]]
                        /\ Len(made) = number
                        /\ \A i \in 1 .. number :
                             /\ run_pipeline(<<chosen[i]>>, others) = <<<<made[i]>>>>
                             /\ IsDocument(made[i]) /\ made[i].id = chosen[i].id
        BY <1>1, <1>2, <1>9, <2>2, <4>1, SelectedAndSet DEF first
      <4> QED
        BY <2>4, <4>2 DEF first, documents, access
    <3>3. PICK made :
            /\ all = <<made>> /\ made = [i \in 1 .. size |-> made[i]] /\ Len(made) = size
            /\ \A i \in 1 .. size :
                 /\ run_pipeline(<<selected[i]>>, rest) = <<<<made[i]>>>>
                 /\ IsDocument(made[i]) /\ made[i].id = selected[i].id
      BY <3>2
    <3>4. get = <<"Documents", selected>>
      BY <1>4, <1>9, <3>1
    <3>5. size \in Nat /\ DOMAIN selected = 1 .. size
      BY <3>2 DEF IsSequence
    <3> DEFINE effect == Effect(kind, store, c, made)
               got == {selected[i] : i \in 1 .. size}
               put == {made[i] : i \in 1 .. size}
    <3>6. outcome.reply = effect.reply /\ outcome.store = effect.store
      <4>1. all # <<>> /\ all[1] = made
        BY <2>4, <3>3
      <4> HIDE DEF all
      <4> QED
        BY <2>1, <4>1 DEF OnSelected, Outcome, kind
    <3>7. Range(selected) = got
      BY <3>5 DEF Range
    <3>8. \A i \in 1 .. size : InPlace(q, selected[i]) = IF kind = "Delete" THEN {} ELSE {made[i]}
      <4> TAKE i \in 1 .. size
      <4> DEFINE assigned == run_pipeline(<<selected[i]>>, rest)
      <4>1. assigned = <<<<made[i]>>>>
        BY <3>3
      <4>2. InPlace(q, selected[i]) =
              IF kind = "Delete" THEN {} ELSE UNION {Range(x) : x \in Range(assigned)}
        BY DEF InPlace, kind
      <4> HIDE DEF assigned
      <4>3. Range(assigned) = {<<made[i]>>}
        BY <4>1 DEF Range
      <4>4. Range(<<made[i]>>) = {made[i]}
        BY DEF Range
      <4>5. UNION {Range(x) : x \in Range(assigned)} = {made[i]}
        BY <4>3, <4>4
      <4> QED
        BY <4>2, <4>5
    <3>9. Range(Scan(store.collections[c])) = Contents(old)
      <4>1. nextId - 1 \in Nat /\ DOMAIN old \subseteq 1 .. nextId - 1
        BY <1>2, <1>9
      <4>2. Range(Scan(old)) = {[id |-> i, fields |-> old[i]] : i \in DOMAIN old}
        BY <4>1, ScanIsSequence
      <4> QED
        BY <4>2 DEF Contents, AsDocument
    <3>10. \A new : DOMAIN new \subseteq DOMAIN old => Range(Scan(new)) = Contents(new)
      <4> TAKE new
      <4> SUFFICES ASSUME DOMAIN new \subseteq DOMAIN old PROVE Range(Scan(new)) = Contents(new)
        OBVIOUS
      <4>1. nextId - 1 \in Nat /\ DOMAIN new \subseteq 1 .. nextId - 1
        BY <1>2, <1>9
      <4>2. Range(Scan(new)) = {[id |-> i, fields |-> new[i]] : i \in DOMAIN new}
        BY <4>1, ScanIsSequence
      <4> QED
        BY <4>2 DEF Contents, AsDocument
    <3> HIDE DEF rest, all, selected, size, old
    <3>11. CASE kind = "Delete"
      <4> DEFINE ids == {made[i].id : i \in DOMAIN made}
                 new == Without(old, ids)
      <4>1. DOMAIN made = 1 .. size
        BY <3>3
      <4>2. effect.reply = <<"Deleted", size>> /\ effect.store = DeleteAll(store, c, made)
        BY <3>3, <3>11 DEF Effect
      <4>3. effect.store.collections[c] = new
        <5>1. DeleteAll(store, c, made) = [store EXCEPT !.collections[c] = new]
          BY DEF DeleteAll, old
        <5> HIDE DEF new
        <5>2. store = [collections |-> store.collections, definitions |-> store.definitions]
          BY <1>2 DEF IsStore
        <5>3. [store EXCEPT !.collections[c] = new].collections = [store.collections EXCEPT ![c] = new]
          BY <5>2
        <5> QED
          BY <1>9, <4>2, <5>1, <5>3
      <4>4. DOMAIN new \subseteq DOMAIN old
        BY DEF Without
      <4>5. new = Without(old, {made[i].id : i \in 1 .. size})
        BY <4>1
      <4> HIDE DEF new, effect, got
      <4>6. Contents(new) = Contents(old) \ got
        <5>1. size \in Nat /\ \A i \in 1 .. size : selected[i] \in Contents(old)
                                                   /\ made[i].id = selected[i].id
          BY <3>2, <3>3, <3>5
        <5>2. Contents(Without(old, Ids(made, size))) = Contents(old) \ Elements(selected, size)
          BY <5>1, DeletedContents
        <5> QED
          BY <4>5, <5>2 DEF got, Elements, Ids
      <4>7. Range(Scan(new)) = Contents(old) \ got
        BY <3>10, <4>4, <4>6
      <4>8. UNION {InPlace(q, d) : d \in got} = {}
        BY <3>8, <3>11 DEF got
      <4>9. get[2] = selected /\ get # Error
        BY <3>4 DEF Error
      <4>10. outcome.reply # Error /\ outcome.reply[2] = size
        BY <3>6, <4>2 DEF Error
      <4>11. Range(Scan(outcome.store.collections[c])) =
               (Range(Scan(store.collections[c])) \ got) \cup UNION {InPlace(q, d) : d \in got}
        BY <3>6, <3>9, <4>3, <4>7, <4>8
      <4>12. Replaces(c, got, UNION {InPlace(q, d) : d \in got}, outcome)
        BY <4>10, <4>11 DEF Replaces
      <4>13. ActsOn(q, get, outcome)
        BY <3>7, <4>9, <4>10, <4>12 DEF ActsOn, size
      <4> QED
        BY <4>13 DEF q, get, outcome
    <3>12. CASE kind = "Update"
      <4>1. effect = UpdateAll(store, c, made)
        BY <3>12 DEF Effect
      <4> HIDE DEF effect, got, put
      <4>2. \A i \in 1 .. size : made[i].id \in DOMAIN old
        BY <3>2, <3>3, ContentsById
      <4>3. \/ /\ effect.reply = Error
               /\ \E i \in 1 .. size : ~Validates(store, c, made[i])
            \/ /\ effect.reply = <<"Updated", size>>
               /\ Replaced(old, effect.store.collections[c], made, size)
        <5>1. /\ IsStore(store) /\ c \in DOMAIN store.collections /\ size \in Nat /\ Len(made) = size
              /\ \A i \in 1 .. size : made[i].id \in DOMAIN store.collections[c]
          BY <1>2, <1>9, <3>3, <3>5, <4>2 DEF old
        <5> DEFINE updated == UpdateAll(store, c, made)
        <5>2. \/ /\ updated.reply = Error
                 /\ \E i \in 1 .. size : ~Validates(store, c, made[i])
              \/ /\ updated.reply = <<"Updated", size>>
                 /\ Replaced(store.collections[c], updated.store.collections[c], made, size)
          BY <5>1, UpdateReplaces
        <5> HIDE DEF updated
        <5>3. effect = updated
          BY <4>1 DEF updated
        <5> QED
          BY <5>2, <5>3 DEF old
      <4>4. get[2] = selected /\ get # Error
        BY <3>4 DEF Error
      <4>5. CASE effect.reply = Error /\ \E i \in 1 .. size : ~Validates(store, c, made[i])
        <5>1. PICK i \in 1 .. size : ~Validates(store, c, made[i])
          BY <4>5
        <5>2. selected[i] \in Range(get[2]) /\ made[i] \in InPlace(q, selected[i])
          BY <3>7, <3>8, <3>12, <4>4, <5>1 DEF got
        <5>3. made[i] \in UNION {InPlace(q, d) : d \in Range(get[2])} /\ outcome.reply = Error
          BY <3>6, <4>5, <5>2
        <5>4. Replaces(c, Range(get[2]), UNION {InPlace(q, d) : d \in Range(get[2])}, outcome)
          BY <5>1, <5>3 DEF Replaces
        <5>5. ActsOn(q, get, outcome)
          BY <4>4, <5>3, <5>4 DEF ActsOn
        <5> QED
          BY <5>5 DEF q, get, outcome
      <4>6. CASE /\ effect.reply = <<"Updated", size>>
                 /\ Replaced(old, effect.store.collections[c], made, size)
        <5> DEFINE new == effect.store.collections[c]
        <5>1. DOMAIN new = DOMAIN old
          BY <4>6 DEF Replaced
        <5>2. \A i, l \in 1 .. size : selected[i] = selected[l] => made[i] = made[l]
          <6> TAKE i, l \in 1 .. size
          <6> SUFFICES ASSUME selected[i] = selected[l] PROVE made[i] = made[l]
            OBVIOUS
          <6>1. <<<<made[i]>>>> = <<<<made[l]>>>>
            BY <3>3
          <6> QED
            BY <6>1
        <5>3. Contents(new) = (Contents(old) \ got) \cup put
          <6>1. Replaced(old, new, made, size)
            BY <4>6
          <6> HIDE DEF new
          <6>2. size \in Nat /\ \A i \in 1 .. size : /\ selected[i] \in Contents(old)
                                                     /\ IsDocument(made[i])
                                                     /\ made[i].id = selected[i].id
            BY <3>2, <3>3, <3>5
          <6>4. MadeOf(old, selected, made, size)
            BY <5>2, <6>2 DEF MadeOf
          <6>3. Contents(new) = (Contents(old) \ Elements(selected, size)) \cup Elements(made, size)
            BY <3>5, <6>1, <6>4, UpdatedContents
          <6> QED
            BY <6>3 DEF got, put, Elements
        <5>4. Range(Scan(new)) = Contents(new)
          BY <3>10, <5>1
        <5>5. UNION {InPlace(q, d) : d \in got} = put
          <6>1. \A i \in 1 .. size : InPlace(q, selected[i]) = {made[i]}
            BY <3>8, <3>12
          <6>2. \A x \in UNION {InPlace(q, d) : d \in got} : x \in put
            <7> TAKE x \in UNION {InPlace(q, d) : d \in got}
            <7>1. PICK d \in got : x \in InPlace(q, d)
              OBVIOUS
            <7>2. PICK i \in 1 .. size : d = selected[i]
              BY <7>1 DEF got
            <7>3. x = made[i]
              BY <6>1, <7>1, <7>2
            <7> QED
              BY <7>3 DEF put
          <6>3. \A x \in put : x \in UNION {InPlace(q, d) : d \in got}
            BY <6>1 DEF got, put
          <6> QED
            BY <6>2, <6>3
        <5>6. outcome.reply # Error /\ outcome.reply[2] = size
          BY <3>6, <4>6 DEF Error
        <5>7. Range(Scan(outcome.store.collections[c])) =
                (Range(Scan(store.collections[c])) \ got) \cup UNION {InPlace(q, d) : d \in got}
          BY <3>6, <3>9, <5>3, <5>4, <5>5
        <5>8. Replaces(c, got, UNION {InPlace(q, d) : d \in got}, outcome)
          BY <5>6, <5>7 DEF Replaces
        <5>9. ActsOn(q, get, outcome)
          BY <3>7, <4>4, <5>6, <5>8 DEF ActsOn, size
        <5> QED
          BY <5>9 DEF q, get, outcome
      <4> QED
        BY <4>3, <4>5, <4>6
    <3> QED
      BY <1>1, <3>11, <3>12 DEF kind
  <2> QED
    BY <2>3, <2>4
<1> QED
  BY <1>8, <1>9

\* For any trees, documents and indexes: `update` and `delete` act on what `get`
\* returns for the stages before `set`, on each document as if it were alone, and on
\* no other; where `get` or an assignment fails, nothing has changed.
THEOREM AlwaysCommandsActOnWhatGetReturns == QuerySpec => []CommandsActOnWhatGetReturns
BY CommandsAct, SessionIsTyped, PTL

====
