---- MODULE QueryParser ----
(***************************************************************************)
(* The parser of crates/nova-query/src/parser.rs: the tokens of one query  *)
(* to its syntax tree (ast.rs), by recursive descent and, for binary       *)
(* operators, precedence climbing.                                         *)
(*                                                                         *)
(* A parsing operator is given the tokens and the position of the current  *)
(* one; it returns the node and the position after it, or Failure for a    *)
(* ParseError.  Spans, which only error messages show, are left out.       *)
(*                                                                         *)
(* Nodes: <<"Literal", value>>, <<"Path", segments>>, <<"Array", nodes>>,  *)
(* <<"Object", pairs of a name and a node>>, <<"Unary", operator, node>>,  *)
(* <<"Binary", operator, left, right>>; stages and commands likewise.      *)
(***************************************************************************)
EXTENDS QueryLexer

SimpleOperators ==
    (<<"=">> :> "Equal") @@ (<<"=", "=">> :> "Equal") @@ (<<"!", "=">> :> "NotEqual")
    @@ (<<"<">> :> "Less") @@ (<<"<", "=">> :> "LessEqual")
    @@ (<<">">> :> "Greater") @@ (<<">", "=">> :> "GreaterEqual")
    @@ (<<"+">> :> "Add") @@ (<<"-">> :> "Subtract") @@ (<<"*">> :> "Multiply")
    @@ (<<"/">> :> "Divide") @@ (<<"%">> :> "Remainder")

KeywordOperators == [or |-> "Or", and |-> "And", contains |-> "Contains"]

Precedence ==
    [Or |-> 1, And |-> 2,
     Equal |-> 3, NotEqual |-> 3, Less |-> 3, LessEqual |-> 3,
     Greater |-> 3, GreaterEqual |-> 3, Contains |-> 3,
     Add |-> 4, Subtract |-> 4, Multiply |-> 5, Divide |-> 5, Remainder |-> 5]

SimpleUnary == (<<"!">> :> "Not") @@ (<<"-">> :> "Negate") @@ (<<"+">> :> "Positive")

at_simple(tokens, at, mark) == tokens[at][1] = "Simple" /\ tokens[at][2] = mark
at_keyword(tokens, at, word) == tokens[at][1] = "Keyword" /\ tokens[at][2] = word

binary_operator(token) ==
    CASE token[1] = "Simple" /\ token[2] \in DOMAIN SimpleOperators ->
             SimpleOperators[token[2]]
      [] token[1] = "Keyword" /\ token[2] \in DOMAIN KeywordOperators ->
             KeywordOperators[token[2]]
      [] OTHER -> "None"

unary_operator(token) ==
    CASE token[1] = "Simple" /\ token[2] \in DOMAIN SimpleUnary -> SimpleUnary[token[2]]
      [] token[1] = "Keyword" /\ token[2] = "not" -> "Not"
      [] OTHER -> "None"

Parsed(at, node) == [at |-> at, node |-> node]

\* Parsing goes on from a result, unless that is a failure.
AndThen(result, Rest(_)) == IF Failed(result) THEN Failure ELSE Rest(result)

\* A result under a node of its own.
Under(kind, result) ==
    AndThen(result, LAMBDA inner : Parsed(inner.at, <<kind, inner.node>>))

\* expect_simple after a result.
Then(result, tokens, mark) ==
    AndThen(result, LAMBDA before : IF at_simple(tokens, before.at, mark)
                                    THEN Parsed(before.at + 1, before.node) ELSE Failure)

expect_identifier(tokens, at) ==
    IF tokens[at][1] = "Identifier" THEN Parsed(at + 1, tokens[at][2]) ELSE Failure

expect_nonnegative_integer(tokens, at) ==
    IF tokens[at][1] = "Integer" THEN Parsed(at + 1, tokens[at][2]) ELSE Failure

RECURSIVE SegmentsFrom(_, _, _)
SegmentsFrom(tokens, at, segments) ==
    AndThen(expect_identifier(tokens, at), LAMBDA name :
        LET path == Append(segments, name.node) IN
        IF at_simple(tokens, name.at, <<".">>) THEN SegmentsFrom(tokens, name.at + 1, path)
        ELSE Parsed(name.at, path))

parse_path(tokens, at) == SegmentsFrom(tokens, at, <<>>)

-----------------------------------------------------------------------------
(* Expressions *)

RECURSIVE parse_expression(_, _, _)
RECURSIVE parse_unary(_, _)
RECURSIVE Climb(_, _, _)
RECURSIVE ListFrom(_, _, _, _)

\* MUTANT of Climb: an operator to the right may bind as loosely as this one.
RightClimb(tokens, left, minimum) ==
    LET operator == binary_operator(tokens[left.at]) IN
    IF operator = "None" \/ Precedence[operator] < minimum THEN left
    ELSE AndThen(parse_expression(tokens, left.at + 1, Precedence[operator]), LAMBDA right :
             Climb(tokens, Parsed(right.at, <<"Binary", operator, left.node, right.node>>),
                   minimum))

\* The loop of parse_expression, `left` being what it has parsed so far.
Climb(tokens, left, minimum) ==
    LET operator == binary_operator(tokens[left.at]) IN
    IF operator = "None" \/ Precedence[operator] < minimum THEN left
    ELSE AndThen(parse_expression(tokens, left.at + 1, Precedence[operator] + 1), LAMBDA right :
             Climb(tokens, Parsed(right.at, <<"Binary", operator, left.node, right.node>>),
                   minimum))

parse_expression(tokens, at, minimum) ==
    AndThen(parse_unary(tokens, at), LAMBDA left : Climb(tokens, left, minimum))

parse_array(tokens, at) ==
    IF at_simple(tokens, at, <<"]">>) THEN Parsed(at + 1, <<"Array", <<>>>>)
    ELSE Under("Array", Then(ListFrom("value", tokens, at, <<>>), tokens, <<"]">>))

parse_object(tokens, at) ==
    IF at_simple(tokens, at, <<"}">>) THEN Parsed(at + 1, <<"Object", <<>>>>)
    ELSE AndThen(Then(ListFrom("field", tokens, at, <<>>), tokens, <<"}">>), LAMBDA object :
             IF IsInjective([i \in DOMAIN object.node |-> object.node[i][1]])
             THEN Under("Object", object) ELSE Failure)

parse_primary(tokens, at) ==
    LET token == tokens[at] IN
    CASE token[1] = "Integer" -> Parsed(at + 1, <<"Literal", <<"Int64", token[2]>>>>)
      [] token[1] = "Float" -> Parsed(at + 1, <<"Literal", <<"Float64", token[2]>>>>)
      [] token[1] = "String" -> Parsed(at + 1, <<"Literal", <<"String", token[2]>>>>)
      [] at_keyword(tokens, at, "true") -> Parsed(at + 1, <<"Literal", <<"Boolean", TRUE>>>>)
      [] at_keyword(tokens, at, "false") -> Parsed(at + 1, <<"Literal", <<"Boolean", FALSE>>>>)
      [] at_keyword(tokens, at, "null") -> Parsed(at + 1, <<"Literal", <<"Null">>>>)
      [] token[1] = "Identifier" -> Under("Path", parse_path(tokens, at))
      [] at_simple(tokens, at, <<"(">>) ->
             Then(parse_expression(tokens, at + 1, 1), tokens, <<")">>)
      [] at_simple(tokens, at, <<"[">>) -> parse_array(tokens, at + 1)
      [] at_simple(tokens, at, <<"{">>) -> parse_object(tokens, at + 1)
      [] OTHER -> Failure

parse_unary(tokens, at) ==
    LET operator == unary_operator(tokens[at]) IN
    IF operator = "None" THEN parse_primary(tokens, at)
    ELSE AndThen(parse_unary(tokens, at + 1), LAMBDA operand :
             Parsed(operand.at, <<"Unary", operator, operand.node>>))

-----------------------------------------------------------------------------
(* Lists *)

sort_key(tokens, at) ==
    AndThen(parse_path(tokens, at), LAMBDA path :
        CASE at_keyword(tokens, path.at, "desc") ->
                 Parsed(path.at + 1, <<path.node, "Descending">>)
          [] at_keyword(tokens, path.at, "asc") ->
                 Parsed(path.at + 1, <<path.node, "Ascending">>)
          [] OTHER -> Parsed(path.at, <<path.node, "Ascending">>))

\* `name <mark> expression`, of an assignment or an object field.
Binding(tokens, name, mark) ==
    AndThen(Then(name, tokens, mark), LAMBDA named :
        AndThen(parse_expression(tokens, named.at, 1), LAMBDA value :
            Parsed(value.at, <<named.node, value.node>>)))

object_key(tokens, at) ==
    IF tokens[at][1] \in {"Identifier", "String"} THEN Parsed(at + 1, tokens[at][2]) ELSE Failure

Item(what, tokens, at) ==
    CASE what = "path" -> parse_path(tokens, at)
      [] what = "key" -> sort_key(tokens, at)
      [] what = "assignment" -> Binding(tokens, parse_path(tokens, at), <<"=">>)
      [] what = "field" -> Binding(tokens, object_key(tokens, at), <<":">>)
      [] what = "value" -> parse_expression(tokens, at, 1)

\* A comma may stand before the end of an array or an object.
EndsAfterComma(what, tokens, at) ==
    \/ what = "value" /\ at_simple(tokens, at, <<"]">>)
    \/ what = "field" /\ at_simple(tokens, at, <<"}">>)

ListFrom(what, tokens, at, items) ==
    AndThen(Item(what, tokens, at), LAMBDA item :
        LET all == Append(items, item.node) IN
        CASE ~at_simple(tokens, item.at, <<",">>) -> Parsed(item.at, all)
          [] EndsAfterComma(what, tokens, item.at + 1) -> Parsed(item.at + 1, all)
          [] OTHER -> ListFrom(what, tokens, item.at + 1, all))

-----------------------------------------------------------------------------
(* Commands and stages *)

\* A command comes with the stages that its braces make: a filter or nothing.
WithFilter(kind, collection, tokens, at) ==
    LET with(stages) == [command |-> <<kind, collection>>, stages |-> stages] IN
    CASE ~at_simple(tokens, at, <<"{">>) -> Failure
      [] at_simple(tokens, at + 1, <<"}">>) -> Parsed(at + 2, with(<<>>))
      [] OTHER -> AndThen(Then(parse_expression(tokens, at + 1, 1), tokens, <<"}">>),
                          LAMBDA predicate :
                              Parsed(predicate.at, with(<<<<"Filter", predicate.node>>>>)))

parse_insert(collection, tokens, at) ==
    AndThen(parse_expression(tokens, at, 1), LAMBDA document :
        IF document.node[1] # "Object" THEN Failure
        ELSE Parsed(document.at, [command |-> <<"Insert", collection, document.node>>,
                                  stages |-> <<>>]))

Verbs == [get |-> "Get", update |-> "Update", delete |-> "Delete"]

parse_collection_command(tokens, at) ==
    AndThen(Then(expect_identifier(tokens, at), tokens, <<".">>), LAMBDA name :
        LET verb == tokens[name.at] IN
        CASE verb[1] # "Keyword" -> Failure
          [] verb[2] \in DOMAIN Verbs ->
                 WithFilter(Verbs[verb[2]], name.node, tokens, name.at + 1)
          [] verb[2] = "insert" -> parse_insert(name.node, tokens, name.at + 1)
          [] OTHER -> Failure)

\* `create` or `drop` of a collection or an index, but for the index's fields.
Named(kind, result) ==
    AndThen(result, LAMBDA name :
        Parsed(name.at, [command |-> <<kind, name.node>>, stages |-> <<>>]))

\* create index <name> on <collection> (<path>, ...), from the name on.
IndexOn(tokens, at) ==
    AndThen(expect_identifier(tokens, at), LAMBDA name :
        IF ~at_keyword(tokens, name.at, "on") THEN Failure
        ELSE AndThen(Then(expect_identifier(tokens, name.at + 1), tokens, <<"(">>),
                     LAMBDA collection :
                 AndThen(Then(ListFrom("path", tokens, collection.at, <<>>), tokens, <<")">>),
                         LAMBDA fields :
                     Parsed(fields.at, [command |-> <<"CreateIndex", name.node,
                                                      collection.node, fields.node>>,
                                        stages |-> <<>>]))))

parse_command(tokens, at) ==
    LET verb == tokens[at][2]
        onCollection == at_keyword(tokens, at + 1, "collection")
        onIndex == at_keyword(tokens, at + 1, "index")
    IN  CASE tokens[at][1] = "Identifier" -> parse_collection_command(tokens, at)
          [] tokens[at][1] # "Keyword" -> Failure
          [] verb \notin {"create", "drop"} -> Failure
          [] onCollection /\ verb = "create" ->
                 Named("CreateCollection", expect_identifier(tokens, at + 2))
          [] onCollection /\ verb = "drop" ->
                 Named("DropCollection", expect_identifier(tokens, at + 2))
          [] onIndex /\ verb = "create" -> IndexOn(tokens, at + 2)
          [] onIndex /\ verb = "drop" -> Named("DropIndex", expect_identifier(tokens, at + 2))
          [] OTHER -> Failure

parse_stage(tokens, at) ==
    CASE at_keyword(tokens, at, "project") ->
             Under("Project", ListFrom("path", tokens, at + 1, <<>>))
      [] at_keyword(tokens, at, "sort") -> Under("Sort", ListFrom("key", tokens, at + 1, <<>>))
      [] at_keyword(tokens, at, "limit") ->
             Under("Limit", expect_nonnegative_integer(tokens, at + 1))
      [] at_keyword(tokens, at, "skip") ->
             Under("Skip", expect_nonnegative_integer(tokens, at + 1))
      [] at_keyword(tokens, at, "set") ->
             Under("Set", ListFrom("assignment", tokens, at + 1, <<>>))
      [] OTHER -> Failure

accepts_pipeline(command) == command[1] \in {"Get", "Update", "Delete"}

RECURSIVE StagesFrom(_, _, _)
StagesFrom(tokens, at, parsed) ==
    CASE ~at_simple(tokens, at, <<"|">>) -> Parsed(at, parsed)
      [] ~accepts_pipeline(parsed.command) -> Failure
      [] OTHER -> AndThen(parse_stage(tokens, at + 1), LAMBDA stage :
                      StagesFrom(tokens, stage.at,
                                 [parsed EXCEPT !.stages = Append(@, stage.node)]))

Sets(stages) == \E i \in DOMAIN stages : stages[i][1] = "Set"

\* What a whole query is checked for once it is parsed.
Finished(tokens, explain, whole) ==
    LET last == IF at_simple(tokens, whole.at, <<";">>) THEN whole.at + 1 ELSE whole.at IN
    CASE Failed(whole) -> <<>>
      [] Sets(whole.node.stages) # (whole.node.command[1] = "Update") -> <<>>
      [] tokens[last][1] # "Eof" -> <<>>
      [] OTHER -> <<[explain |-> explain, command |-> whole.node.command,
                     stages |-> whole.node.stages]>>

\* <<query>>, or <<>> for a ParseError.
parse_query(tokens) ==
    LET explain == at_keyword(tokens, 1, "explain") IN
    Finished(tokens, explain,
             AndThen(parse_command(tokens, IF explain THEN 2 ELSE 1), LAMBDA command :
                 StagesFrom(tokens, command.at, command.node)))

\* A LexError leaves nothing to parse.
ParseTokens(tokens) == IF tokens = <<>> THEN <<>> ELSE parse_query(tokens)

parse(text) == ParseTokens(lex(text))
====
