---- MODULE QueryPlanning ----
(***************************************************************************)
(* What the planner of crates/nova-planner and the telemetry of            *)
(* executor.rs read off a query: the index that serves its predicate, and  *)
(* the paths that an event names.                                          *)
(*                                                                         *)
(* A query is the syntax tree that QueryParser builds.  Index definitions  *)
(* are a function from their names to a collection and a path.             *)
(***************************************************************************)
EXTENDS Integers, Sequences, SequencesExt, FiniteSetsExt

CONSTANTS
    Expressions,  \* the expressions of the queries, with all their parts
    Depth(_),     \* how deep an expression nests
    MaxDepth,     \* bound: how deep one may nest
    Rank(_)       \* the place of a string in the order of str::cmp

\* The expressions that an expression is made of.
Parts(e) ==
    CASE e[1] = "Array" -> Range(e[2])
      [] e[1] = "Object" -> {field[2] : field \in Range(e[2])}
      [] e[1] = "Unary" -> {e[3]}
      [] e[1] = "Binary" -> {e[3], e[4]}
      [] OTHER -> {}

\* Syntax trees are finite; a path is all that its node holds.
ASSUME ExpressionsAssumption ==
    /\ MaxDepth \in Nat
    /\ \A e \in Expressions :
         /\ e[1] = "Path" => e = <<"Path", e[2]>>
         /\ Depth(e) \in 0 .. MaxDepth
         /\ \A part \in Parts(e) : part \in Expressions /\ Depth(part) < Depth(e)

-----------------------------------------------------------------------------
(* The planner *)

Piped == {"Get", "Update", "Delete"}
Cataloguing == {"CreateCollection", "DropCollection", "CreateIndex", "DropIndex"}

Filters(stages) == {n \in DOMAIN stages : stages[n][1] = "Filter"}

StageFormed(stage) ==
    \/ stage[1] = "Filter" /\ stage[2] \in Expressions
    \/ /\ stage[1] = "Set" /\ stage[2] \in Seq(Range(stage[2]))
       /\ \A i \in DOMAIN stage[2] : stage[2][i][2] \in Expressions
    \/ stage[1] \in {"Limit", "Skip"} /\ stage[2] \in Nat
    \/ stage[1] \in {"Project", "Sort"} /\ stage[2] \in Seq(Range(stage[2]))

\* What parse makes: a filter comes first, and only some commands take stages.
WellFormed(query) ==
    LET stages == query.stages IN
    /\ stages \in Seq(Range(stages))
    /\ \A n \in DOMAIN stages : StageFormed(stages[n])
    /\ Filters(stages) \subseteq {1}
    /\ query.command[1] \in Piped \cup Cataloguing \cup {"Insert"}
    /\ stages # <<>> => query.command[1] \in Piped
    /\ query.command[1] = "Insert" => query.command[3] \in Expressions

\* The predicate of the first filter.
Predicate(stages) == stages[Min(Filters(stages))][2]

Key(literal) == IF literal[1] \in {"Int64", "Float64", "String"} THEN <<literal>> ELSE <<>>

path_literal(path, literal, field) ==
    IF path = <<"Path", field>> /\ literal[1] = "Literal" THEN Key(literal[2]) ELSE <<>>

OrElse(one, other) == IF one # <<>> THEN one ELSE other

\* MUTANT of equality_key: the planner looks for an equality under `or`, too.
DisjunctiveEqualityKey(predicate, field) ==
    LET key[e \in Expressions] ==
          CASE e[1] = "Binary" /\ e[2] \in {"And", "Or"} -> OrElse(key[e[3]], key[e[4]])
            [] e[1] = "Binary" /\ e[2] = "Equal" ->
                 OrElse(path_literal(e[3], e[4], field), path_literal(e[4], e[3], field))
            [] OTHER -> <<>>
    IN  key[predicate]

\* The literal that a predicate requires a field to be equal to.
equality_key(predicate, field) ==
    LET key[e \in Expressions] ==
          CASE e[1] = "Binary" /\ e[2] = "And" -> OrElse(key[e[3]], key[e[4]])
            [] e[1] = "Binary" /\ e[2] = "Equal" ->
                 OrElse(path_literal(e[3], e[4], field), path_literal(e[4], e[3], field))
            [] OTHER -> <<>>
    IN  key[predicate]

\* The indexes that plan may choose: those that the first filter has a key for.
Usable(collection, stages, definitions) ==
    {n \in DOMAIN definitions :
        /\ definitions[n].collection = collection
        /\ Filters(stages) # {}
        /\ equality_key(Predicate(stages), definitions[n].field) # <<>>}

\* The physical plan's access path.
plan(query, definitions) ==
    LET collection == query.command[2]
        usable == Usable(collection, query.stages, definitions)
        first == CHOOSE n \in usable : \A m \in usable : Rank(n) <= Rank(m)
    IN  CASE query.command[1] \notin Piped -> <<"Command">>
          [] query.command[1] \in Piped /\ usable = {} -> <<"CollectionScan">>
          [] OTHER -> <<"IndexScan", first,
                        equality_key(Predicate(query.stages), definitions[first].field)[1]>>

-----------------------------------------------------------------------------
(* Telemetry *)

\* The paths that occur in an expression.
collect_paths(expression) ==
    LET paths[e \in Expressions] ==
          IF e[1] = "Path" THEN {e[2]} ELSE UNION {paths[part] : part \in Parts(e)}
    IN  paths[expression]

indexable_path_literal(path, literal) ==
    IF path[1] = "Path" /\ literal[1] = "Literal" /\ Key(literal[2]) # <<>>
    THEN <<path[2]>> ELSE <<>>

\* MUTANT of collect_index_candidates: only a path on the left counts.
LeftIndexCandidates(expression) ==
    LET paths[e \in Expressions] ==
          CASE e[1] = "Binary" /\ e[2] = "And" -> paths[e[3]] \cup paths[e[4]]
            [] e[1] = "Binary" /\ e[2] = "Equal" -> Range(indexable_path_literal(e[3], e[4]))
            [] OTHER -> {}
    IN  paths[expression]

\* The paths that a predicate requires to be equal to a literal.
collect_index_candidates(expression) ==
    LET paths[e \in Expressions] ==
          CASE e[1] = "Binary" /\ e[2] = "And" -> paths[e[3]] \cup paths[e[4]]
            [] e[1] = "Binary" /\ e[2] = "Equal" ->
                 Range(OrElse(indexable_path_literal(e[3], e[4]),
                              indexable_path_literal(e[4], e[3])))
            [] OTHER -> {}
    IN  paths[expression]

predicate_paths(stages) == UNION {collect_paths(stages[n][2]) : n \in Filters(stages)}

index_candidate_paths(stages) ==
    UNION {collect_index_candidates(stages[n][2]) : n \in Filters(stages)}

\* A query's shape, without names of catalog commands and without literals.
fingerprint(query) ==
    LET kind == query.command[1] IN
    [command |-> IF kind \in Piped \cup {"Insert"} THEN <<kind, query.command[2]>> ELSE <<kind>>,
     stages |-> [i \in DOMAIN query.stages |-> query.stages[i][1]]]

\* command_collection: <<>> for a command on no collection.
EventCollection(command) ==
    CASE command[1] \in Piped \cup {"Insert"} -> <<command[2]>>
      [] command[1] = "CreateIndex" -> <<command[3]>>
      [] OTHER -> <<>>

\* The event of a query: what it did, along which access path, and its shape.
build_event(query, access, examined, returned, succeeded) ==
    [fingerprint |-> fingerprint(query),
     collection |-> EventCollection(query.command),
     predicate_paths |-> predicate_paths(query.stages),
     index_candidate_paths |-> index_candidate_paths(query.stages),
     access |-> IF access[1] = "IndexScan" THEN <<access[1], access[2]>> ELSE access,
     examined |-> examined,
     returned |-> returned,
     succeeded |-> succeeded]
====
