---- MODULE QueryExecution ----
(***************************************************************************)
(* The expressions and pipeline stages of crates/nova-executor             *)
(* (evaluate.rs, executor.rs), for one query at a time.                    *)
(*                                                                         *)
(* A query is the syntax tree that QueryParser builds.  A value is a pair  *)
(* of its type and what it holds: <<"Int64", 1>>, <<"Array", values>>,     *)
(* <<"Object", function from names to values>>, <<"Null">>, <<"Missing">>; *)
(* <<"Error">> stands for the Err of an evaluation.  An operator that may  *)
(* fail otherwise returns its result in a sequence of one, or <<>>.        *)
(*                                                                         *)
(* A float is coded by an integer whose order is that of total_cmp: 2n for *)
(* the number n and -1 for negative zero; -1, 0 and 1 are the numbers, and *)
(* any greater one stands for an infinite result.                          *)
(***************************************************************************)
EXTENDS QueryPlanning

CONSTANTS
    IdField,      \* the name `_id`
    MaxInteger,   \* i64::MAX
    MaxNesting    \* bound: how deep a value may nest

ASSUME ValuesAssumption == MaxInteger \in Nat \ {0} /\ MaxNesting \in Nat

Error == <<"Error">>
Missing == <<"Missing">>
Bool(b) == <<"Boolean", b>>
NoFields == <<>>

\* A function with a value under a key.
With(function, key, value) ==
    [place \in DOMAIN function \cup {key} |-> IF place = key THEN value ELSE function[place]]

-----------------------------------------------------------------------------
(* Reading and comparing values *)

\* What a value has under a name.
Field(value, name) ==
    IF value[1] = "Object" /\ name \in DOMAIN value[2] THEN value[2][name] ELSE Missing

\* What the first segments of a path lead to, by their number.
Along(fields, path) ==
    LET value[n \in 0 .. Len(path)] ==
          IF n = 0 THEN <<"Object", fields>> ELSE Field(value[n - 1], path[n])
    IN  value

lookup_parts(fields, path) == Along(fields, path)[Len(path)]

read_path(document, path) ==
    IF path = <<IdField>> THEN <<"NovaId", document.id>>
    ELSE lookup_parts(document.fields, path)

FloatNumber(code) == IF code = -1 THEN 0 ELSE code \div 2

\* Every value but minus zero, the float that is equal to another one.
Exact(value) == value[1] = "Float64" => value = <<"Float64", 2 * FloatNumber(value[2])>>

\* A literal has no sign.
ASSUME LiteralsAssumption == \A e \in Expressions : e[1] = "Literal" => Exact(e[2])

\* Whether two values are equal but for what they are made of.
Alike(left, right) ==
    /\ left[1] = right[1]
    /\ CASE left[1] = "Float64" -> FloatNumber(left[2]) = FloatNumber(right[2])
         [] left[1] = "Array" -> Len(left[2]) = Len(right[2])
         [] left[1] = "Object" -> DOMAIN left[2] = DOMAIN right[2]
         [] OTHER -> left = right

\* The pairs of what they are made of.
Facing(left, right) ==
    IF Alike(left, right) /\ left[1] \in {"Array", "Object"}
    THEN {<<left[2][place], right[2][place]>> : place \in DOMAIN left[2]}
    ELSE {}

\* The derived equality of RuntimeValue: alike in all depths.
Same(left, right) ==
    LET pairs[n \in 0 .. MaxNesting] ==
          IF n = 0 THEN {<<left, right>>}
          ELSE UNION {Facing(pair[1], pair[2]) : pair \in pairs[n - 1]}
    IN  \A n \in 0 .. MaxNesting : \A pair \in pairs[n] : Alike(pair[1], pair[2])

\* Numbers in the order of the values of one scalar type.
Place(value) ==
    CASE value[1] = "Boolean" -> IF value[2] THEN 1 ELSE 0
      [] value[1] = "String" -> Rank(value[2])
      [] OTHER -> value[2]

Sortable == {"Boolean", "Int64", "Float64", "String", "Timestamp", "NovaId"}
Ordered == Sortable \ {"Boolean"}

SortClass(value) == CASE value[1] = "Missing" -> 0 [] value[1] = "Null" -> 1 [] OTHER -> 2

\* Whether compare_for_sort gives an ordering.
Comparable(left, right) ==
    \/ SortClass(left) < 2 \/ SortClass(right) < 2
    \/ left[1] = right[1] /\ left[1] \in Sortable

\* compare_for_sort finds left the lesser.
Before(left, right) ==
    \/ SortClass(left) < SortClass(right)
    \/ SortClass(left) = 2 /\ SortClass(right) = 2 /\ Place(left) < Place(right)

-----------------------------------------------------------------------------
(* Expressions *)

Integers64 == -MaxInteger - 1 .. MaxInteger

finite_float(number, negative) ==
    CASE number \notin -1 .. 1 -> Error
      [] number = 0 /\ negative -> <<"Float64", -1>>
      [] OTHER -> <<"Float64", 2 * number>>

Opposite(code) == CASE code = -1 -> 0 [] code = 0 -> -1 [] OTHER -> -code

Magnitude(n) == IF n < 0 THEN -n ELSE n

\* Division towards zero.
Quotient(a, b) ==
    LET whole == Magnitude(a) \div Magnitude(b) IN IF (a < 0) = (b < 0) THEN whole ELSE -whole

\* The remainder that belongs to it.
Remains(a, b) == a - b * Quotient(a, b)

\* checked_add and its fellows, for integers.
IntegerArithmetic(operator, a, b) ==
    LET value == CASE operator = "Add" -> a + b
                   [] operator = "Subtract" -> a - b
                   [] operator = "Multiply" -> a * b
                   [] operator = "Divide" -> Quotient(a, b)
                   [] operator = "Remainder" -> Remains(a, b)
    IN  CASE operator \in {"Divide", "Remainder"} /\ (b = 0 \/ (b = -1 /\ a = -MaxInteger - 1)) ->
                 Error
          [] value \notin Integers64 -> Error
          [] OTHER -> <<"Int64", value>>

FloatArithmetic(operator, a, b) ==
    LET m == FloatNumber(a)
        n == FloatNumber(b)
        crossed == (a < 0) # (b < 0)
    IN  CASE operator = "Add" -> finite_float(m + n, a = -1 /\ b = -1)
          [] operator = "Subtract" -> finite_float(m - n, a = -1 /\ b = 0)
          [] operator = "Multiply" -> finite_float(m * n, crossed)
          [] operator \in {"Divide", "Remainder"} /\ n = 0 -> Error
          [] operator = "Divide" /\ n # 0 -> finite_float(Quotient(m, n), crossed)
          [] operator = "Remainder" /\ n # 0 -> finite_float(Remains(m, n), a < 0)

arithmetic(operator, left, right) ==
    CASE left[1] = "Int64" /\ right[1] = "Int64" -> IntegerArithmetic(operator, left[2], right[2])
      [] left[1] = "Float64" /\ right[1] = "Float64" ->
             FloatArithmetic(operator, left[2], right[2])
      [] OTHER -> Error

ordered(operator, left, right) ==
    LET a == Place(left)
        b == Place(right)
    IN  IF left[1] # right[1] \/ left[1] \notin Ordered THEN Error
        ELSE Bool(CASE operator = "Less" -> a < b [] operator = "LessEqual" -> a <= b
                    [] operator = "Greater" -> a > b [] operator = "GreaterEqual" -> a >= b)

contains(left, right) ==
    IF left[1] # "Array" THEN Error
    ELSE Bool(\E i \in DOMAIN left[2] : Same(left[2][i], right))

evaluate_unary(operator, value) ==
    CASE operator = "Not" /\ value[1] = "Boolean" -> Bool(~value[2])
      [] operator = "Negate" /\ value[1] = "Int64" /\ -value[2] \in Integers64 ->
             <<"Int64", -value[2]>>
      [] operator = "Negate" /\ value[1] = "Float64" -> <<"Float64", Opposite(value[2])>>
      [] operator = "Positive" /\ value[1] \in {"Int64", "Float64"} -> value
      [] OTHER -> Error

\* `and` and `or` leave their right operand alone if the left is `stop`.
ShortCircuit(left, stop, right) ==
    CASE left[1] = "Boolean" /\ left[2] = stop -> left
      [] left[1] = "Boolean" /\ left[2] # stop /\ right[1] = "Boolean" -> right
      [] OTHER -> Error

evaluate_binary(operator, left, right) ==
    IF left = Error \/ (right = Error /\ operator \notin {"And", "Or"}) THEN Error
    ELSE CASE operator = "And" -> ShortCircuit(left, FALSE, right)
           [] operator = "Or" -> ShortCircuit(left, TRUE, right)
           [] operator = "Equal" -> Bool(Same(left, right))
           [] operator = "NotEqual" -> Bool(~Same(left, right))
           [] operator = "Contains" -> contains(left, right)
           [] operator \in {"Less", "LessEqual", "Greater", "GreaterEqual"} ->
                  ordered(operator, left, right)
           [] OTHER -> arithmetic(operator, left, right)

array_value(values) == IF Error \in Range(values) THEN Error ELSE <<"Array", values>>

\* The parser gives no name to two fields.
object_value(names, values) ==
    LET place(name) == CHOOSE i \in DOMAIN names : names[i] = name
    IN  IF Error \in Range(values) THEN Error
        ELSE <<"Object", [name \in Range(names) |-> values[place(name)]]>>

\* The value of an expression, from those of its parts.
ValueOf(e, document, value) ==
    CASE e[1] = "Literal" -> e[2]
      [] e[1] = "Path" -> read_path(document, e[2])
      [] e[1] = "Array" -> array_value([i \in DOMAIN e[2] |-> value[e[2][i]]])
      [] e[1] = "Object" -> object_value([i \in DOMAIN e[2] |-> e[2][i][1]],
                                         [i \in DOMAIN e[2] |-> value[e[2][i][2]]])
      [] e[1] = "Unary" -> evaluate_unary(e[2], value[e[3]])
      [] e[1] = "Binary" -> evaluate_binary(e[2], value[e[3]], value[e[4]])

evaluate(expression, document) ==
    LET value[e \in Expressions] == ValueOf(e, document, value) IN value[expression]

\* Whether into_nova_value makes a value to store.
Storable(value) ==
    LET parts[n \in 0 .. MaxNesting] ==
          IF n = 0 THEN {value}
          ELSE UNION {Range(v[2]) : v \in {w \in parts[n - 1] : w[1] \in {"Array", "Object"}}}
    IN  \A n \in 0 .. MaxNesting : \A v \in parts[n] : v[1] \notin {"Error", "Missing"}

-----------------------------------------------------------------------------
(* Pipeline stages: a sequence of documents to another *)

\* The fields with a value put at a path; none if a value is in the way.
set_segments(fields, path, value) ==
    LET last == Len(path)
        made(outer, name) == IF outer[1] = "Object" /\ name \notin DOMAIN outer[2]
                             THEN <<"Object", NoFields>> ELSE Field(outer, name)
        way[n \in 0 .. last - 1] ==
          IF n = 0 THEN <<"Object", fields>> ELSE made(way[n - 1], path[n])
        changed[n \in 0 .. last] ==
          IF n = last THEN value
          ELSE <<"Object", With(way[n][2], path[n + 1], changed[n + 1])>>
    IN  IF \E n \in DOMAIN way : way[n][1] # "Object" THEN <<>> ELSE <<changed[0][2]>>

\* A value assigned to a path of a document.
AssignValue(document, path, value) ==
    LET outcome == IF Storable(value) /\ Head(path) # IdField
                   THEN set_segments(document.fields, path, value) ELSE <<>>
    IN  [i \in DOMAIN outcome |-> [document EXCEPT !.fields = outcome[i]]]

\* One assignment of `set` to a document that the earlier ones left.
Assign(document, assignment) ==
    AssignValue(document, assignment[1], evaluate(assignment[2], document))

apply_assignments(document, assignments) ==
    LET reached[n \in 0 .. Len(assignments)] ==
          IF n = 0 THEN <<document>>
          ELSE IF reached[n - 1] = <<>> THEN <<>> ELSE Assign(reached[n - 1][1], assignments[n])
    IN  reached[Len(assignments)]

\* MUTANT of Projected: what earlier paths put under a name is lost.
ForgetfulProjected(target, name) == NoFields

\* The fields of a document in the target under a name.
Projected(target, name) == IF name \in DOMAIN target THEN target[name][2] ELSE NoFields

\* The target with what the source has at a path.
project_segments(source, target, path) ==
    LET from == Along(source, path)
        into[n \in 0 .. Len(path) - 1] ==
          IF n = 0 THEN target ELSE Projected(into[n - 1], path[n])
        result[n \in 0 .. Len(path) - 1] ==
          LET name == path[n + 1] IN
          CASE name \in DOMAIN from[n][2] /\ n + 1 = Len(path) ->
                 With(into[n], name, from[n + 1])
            [] n + 1 < Len(path) /\ from[n + 1][1] = "Object" ->
                 With(into[n], name, <<"Object", result[n + 1]>>)
            [] OTHER -> into[n]
    IN  result[0]

project(document, paths) ==
    LET target[n \in 0 .. Len(paths)] ==
          IF n = 0 THEN NoFields
          ELSE IF paths[n] = <<IdField>> THEN target[n - 1]
          ELSE project_segments(document.fields, target[n - 1], paths[n])
    IN  [document EXCEPT !.fields = target[Len(paths)]]

\* MUTANT of validate_sort_values: neighbours are compared, not all with one.
NeighboursComparable(values) ==
    /\ \A i \in DOMAIN values : Comparable(values[i], values[i])
    /\ \A i \in 1 .. Len(values) - 1 : Comparable(values[i], values[i + 1])

validate_sort_values(values) ==
    LET concrete == {i \in DOMAIN values : SortClass(values[i]) = 2} IN
    /\ \A i \in DOMAIN values : Comparable(values[i], values[i])
    /\ \A i \in concrete : Comparable(values[Min(concrete)], values[i])

Column(documents, key) == [i \in DOMAIN documents |-> read_path(documents[i], key[1])]

KeyBefore(key, one, other) ==
    LET left == read_path(one, key[1])
        right == read_path(other, key[1])
    IN  IF key[2] = "Ascending" THEN Before(left, right) ELSE Before(right, left)

\* The comparator given to sort_by: the first key that tells two documents apart.
Precedes(keys, one, other) ==
    \E k \in DOMAIN keys :
        /\ KeyBefore(keys[k], one, other)
        /\ \A j \in 1 .. k - 1 : ~KeyBefore(keys[j], other, one) /\ ~KeyBefore(keys[j], one, other)

\* The elements of a sequence that are in a set, in their order.
Chosen(sequence, S) ==
    LET chosen[n \in 0 .. Len(sequence)] ==
          CASE n = 0 -> <<>>
            [] n > 0 /\ sequence[n] \in S -> Append(chosen[n - 1], sequence[n])
            [] OTHER -> chosen[n - 1]
    IN  chosen[Len(sequence)]

\* A document put among sorted ones, behind all that it does not precede.
Placed(sorted, keys, document) ==
    LET later == {d \in Range(sorted) : Precedes(keys, document, d)}
    IN  Chosen(sorted, Range(sorted) \ later) \o <<document>> \o Chosen(sorted, later)

\* sort_by is stable.
Sorted(documents, keys) ==
    LET sorted[n \in 0 .. Len(documents)] ==
          IF n = 0 THEN <<>> ELSE Placed(sorted[n - 1], keys, documents[n])
    IN  sorted[Len(documents)]

sort_documents(documents, keys) ==
    IF \A k \in DOMAIN keys : validate_sort_values(Column(documents, keys[k]))
    THEN <<Sorted(documents, keys)>>
    ELSE <<>>

\* The documents of which a predicate has the value true, if it is of a truth value.
Holding(documents, value) ==
    IF \E d \in DOMAIN value : value[d][1] # "Boolean" THEN <<>>
    ELSE <<Chosen(documents, {d \in DOMAIN value : value[d][2]})>>

Filter(documents, predicate) ==
    Holding(documents, [d \in Range(documents) |-> evaluate(predicate, d)])

\* MUTANT of Set: a document whose assignment fails is passed over.
ForgivingSet(documents, assignments) ==
    LET changed == [i \in DOMAIN documents |-> apply_assignments(documents[i], assignments)]
    IN  <<FlattenSeq(changed)>>

Set(documents, assignments) ==
    LET changed == [i \in DOMAIN documents |-> apply_assignments(documents[i], assignments)]
    IN  IF <<>> \in Range(changed) THEN <<>>
        ELSE <<[i \in DOMAIN documents |-> changed[i][1]]>>

RunStage(documents, stage) ==
    LET argument == stage[2] IN
    CASE stage[1] = "Filter" -> Filter(documents, argument)
      [] stage[1] = "Project" ->
             <<[i \in DOMAIN documents |-> project(documents[i], argument)]>>
      [] stage[1] = "Sort" -> sort_documents(documents, argument)
      [] stage[1] = "Limit" -> <<SubSeq(documents, 1, Min({argument, Len(documents)}))>>
      [] stage[1] = "Skip" -> <<SubSeq(documents, argument + 1, Len(documents))>>
      [] stage[1] = "Set" -> Set(documents, argument)

run_pipeline(documents, stages) ==
    LET reached[n \in 0 .. Len(stages)] ==
          IF n = 0 THEN <<documents>>
          ELSE IF reached[n - 1] = <<>> THEN <<>> ELSE RunStage(reached[n - 1][1], stages[n])
    IN  reached[Len(stages)]
====
