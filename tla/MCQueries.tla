---- MODULE MCQueries ----
(***************************************************************************)
(* Queries on one collection `c` of up to three documents with the fields  *)
(* a and b, and texts over a few characters.  A keyword is spelled by one  *)
(* letter of its own, and four hexadecimal digits are one character.       *)
(***************************************************************************)
EXTENDS Queries

Words == {"get", "insert", "update", "set", "delete", "project", "sort", "asc", "desc",
          "limit", "skip", "create", "drop", "collection", "index", "on", "explain",
          "and", "or", "not", "contains", "true", "false", "null"}

MCKEYWORDS == [w \in {<<k>> : k \in Words} |-> w[1]]
MCLower(w) == [i \in DOMAIN w |-> IF w[i] = "OR" THEN "or" ELSE w[i]]

MCLetters == Words \cup {"OR", "a", "b", "c", "i", "j", "e", "u", "_id"}
MCDigits == {"0", "1", "2", "3"}
MCSpaces == {" ", "\n"}
MCControls == {"\n"}
MCEscapable == {"\"", "\\", "n"}
MCUnescaped(c) == IF c = "n" THEN "\n" ELSE c
MCScalar(quads) == <<"scalar", quads>>
MCParseInteger(w) ==
    IF Len(w) > 1 THEN Overflows
    ELSE CASE w[1] = "0" -> 0 [] w[1] = "1" -> 1 [] w[1] = "2" -> 2 [] OTHER -> 3
\* Two digits of exponent overflow; other numbers are 0 or, for short, 1.
MCParseFloat(w) ==
    IF \E k \in 2 .. Len(w) - 2 : w[k] = "e" /\ AllOf(SubSeq(w, k + 1, Len(w)), MCDigits)
    THEN Overflows
    ELSE IF w[1] = "0" THEN 0 ELSE 2
MCRank(w) == CASE w = <<>> -> 0 [] w = <<"a">> -> 1 [] w = <<"b">> -> 2 [] w = <<"i">> -> 3
               [] OTHER -> 4

-----------------------------------------------------------------------------
(* Trees *)

c == <<"c">>
A == <<"Path", <<<<"a">>>>>>
B == <<"Path", <<<<"b">>>>>>
AB == <<"Path", <<<<"a">>, <<"b">>>>>>
Num(n) == <<"Literal", <<"Int64", n>>>>
Str(s) == <<"Literal", <<"String", s>>>>
Lit(value) == <<"Literal", value>>
Op(o, l, r) == <<"Binary", o, l, r>>
Eq(l, r) == Op("Equal", l, r)

Tree(command, stages) == [explain |-> FALSE, command |-> command, stages |-> stages]
Where(p) == <<<<"Filter", p>>>>

Insert(fields) == Tree(<<"Insert", c, <<"Object", fields>>>>, <<>>)
Inserts ==
    {Insert(<<<<<<"a">>, Num(1)>>, <<<<"b">>, Str(<<"b">>)>>>>),
     Insert(<<<<<<"a">>, Num(2)>>>>),
     Insert(<<<<<<"b">>, Num(1)>>, <<<<"a">>, Lit(<<"Null">>)>>>>),
     Insert(<<<<<<"a">>, <<"Object", <<<<<<"b">>, Num(1)>>>>>>>>>>)}

Catalog ==
    {Tree(<<"CreateIndex", <<"i">>, c, <<<<<<"a">>>>>>>>, <<>>),
     Tree(<<"CreateIndex", <<"b">>, c, <<<<<<"b">>>>>>>>, <<>>),
     Tree(<<"DropIndex", <<"i">>>>, <<>>),
     Tree(<<"CreateCollection", c>>, <<>>), Tree(<<"DropCollection", c>>, <<>>)}

Predicates ==
    {Eq(A, Num(1)), Eq(Num(1), A), Eq(AB, Num(1)), Eq(A, Lit(<<"Null">>)),
     Op("And", Eq(A, Num(1)), Eq(B, Str(<<"b">>))), Op("And", Eq(B, Num(1)), Op("Less", A, Num(2))),
     Op("And", Op("Less", B, Num(2)), Eq(A, Num(1))), Op("Or", Eq(A, Num(1)), Eq(B, Num(1))),
     Op("NotEqual", A, Num(1)), <<"Unary", "Not", Eq(B, Num(1))>>}

Keys(path, direction) == <<<<path, direction>>>>
SortA == <<"Sort", Keys(<<<<"a">>>>, "Ascending")>>
Tails == {<<>>, <<SortA, <<"Limit", 1>>>>, <<<<"Skip", 1>>>>}
Updates ==
    {<<Op("NotEqual", A, Num(1)), <<<<<<"b">>>>, A>>>>,
     <<Eq(A, Num(1)), <<<<<<"a">>>>, Op("Add", A, Num(1))>>>>,
     <<Op("NotEqual", A, Num(1)), <<<<<<"a">>, <<"b">>>>, Num(1)>>>>}
TwoSets == <<<<"Set", <<<<<<<<"b">>>>, A>>>>>>, <<"Set", <<<<<<<<"a">>, <<"b">>>>, Num(1)>>>>>>>>

Readers ==
    {Tree(<<"Get", c>>, Where(p)) : p \in Predicates}
    \cup {Tree(<<"Get", c>>, Where(p) \o t) : t \in Tails,
             p \in {Eq(A, Num(1)), Op("And", Eq(A, Num(1)), Eq(B, Str(<<"b">>))), Op("NotEqual", A, Num(1))}}
    \cup {[Tree(<<"Get", c>>, Where(Eq(A, Num(1)))) EXCEPT !.explain = TRUE],
          Tree(<<"Get", c>>, <<<<"Project", <<<<<<"a">>>>>>>>>>)}
Changes ==
    {Tree(<<"Delete", c>>, Where(p) \o t) : p \in {Eq(A, Num(1)), Eq(B, Num(1))}, t \in Tails}
    \cup {Tree(<<"Update", c>>, Where(u[1]) \o <<<<"Set", <<u[2]>>>>>>) : u \in Updates}
    \cup {Tree(<<"Update", c>>, Where(Op("NotEqual", A, Num(1))) \o t \o TwoSets) :
              t \in Tails \ {<<>>}}
MCTrees == Inserts \cup Catalog \cup Readers \cup Changes

Operators == {"Or", "And", "Equal", "Add", "Subtract", "Multiply"}
Level(E) == E \cup {<<"Unary", o, x>> : o \in {"Not", "Negate"}, x \in E}
              \cup {Op(o, x, y) : o \in Operators, x \in E, y \in E}
Leaves == {A}
Statements ==
    {Tree(<<"Get", c>>, <<<<"Filter", Op("Contains", <<"Array", <<Num(1), AB>>>>, Str(<<"b">>))>>,
                          <<"Project", <<<<<<"a">>>>, <<<<"a">>, <<"b">>>>>>>>,
                          <<"Sort", Keys(<<<<"a">>>>, "Ascending") \o Keys(<<<<"b">>>>, "Descending")>>,
                          <<"Limit", 1>>>>),
     Tree(<<"Update", c>>, <<<<"Set", <<<<<<<<"a">>>>, Num(1)>>, <<<<<<"b">>>>, <<"Object", <<>>>>>>>>>>>>),
     [Tree(<<"Delete", c>>, <<<<"Skip", 0>>>>) EXCEPT !.explain = TRUE],
     Insert(<<<<<<"a">>, <<"Array", <<>>>>>>, <<<<"b">>, <<"Object", <<<<<<"a">>, Lit(<<"Boolean", TRUE>>)>>>>>>>>>>),
     Tree(<<"CreateIndex", <<"i">>, c, <<<<<<"a">>>>, <<<<"b">>>>>>>>, <<>>),
     Tree(<<"DropCollection", c>>, <<>>)}
MCSyntaxTrees ==
    {Tree(<<"Get", c>>, Where(e)) : e \in Level(Level(Leaves))} \cup Statements

-----------------------------------------------------------------------------
(* Texts *)

Strings(C, n) == UNION {[1 .. k -> C] : k \in 0 .. n}
Fragments == Strings({"a", "or", "OR", "1", "e", ".", "=", "/", "*", "+", "\"", "\\", " ", "\n"}, 4)
Escapes == {<<"\"">> \o s \o <<"\"">> :
                s \in Strings({"\\", "u", "\"", "high", "low", "quad"}, 4)
                      \cup {<<"\\", "u", "high">> \o s : s \in Strings({"\\", "u", "high", "low"}, 4)}}

\* Token sequences with one token left out, put in or replaced.
EditTokens == K("explain") \o K("or") \o K("not") \o K("asc") \o K("set") \o N(<<"a">>)
              \o <<<<"Integer", 1>>>> \o S(<<"{">>) \o S(<<"}">>) \o S(<<"(">>) \o S(<<")">>)
              \o S(<<",">>) \o S(<<".">>) \o S(<<";">>) \o S(<<"=">>) \o S(<<"|">>) \o S(<<"-">>)
Edits(tokens) ==
    UNION {{RemoveAt(tokens, i)}
           \cup {ReplaceAt(tokens, i, t) : t \in Range(EditTokens)}
           \cup {InsertAt(tokens, i, t) : t \in Range(EditTokens)} : i \in DOMAIN tokens}
MCTexts == Fragments \cup Escapes
           \cup {TextOf(Written(q)) : q \in Statements}
           \cup UNION {{TextOf(e) : e \in Edits(Written(q))} : q \in Statements}

-----------------------------------------------------------------------------
(* The expressions of the predicates *)

RECURSIVE MCDepth(_)
MCDepth(e) == IF Parts(e) = {} THEN 0 ELSE 1 + Max({MCDepth(part) : part \in Parts(e)})

\* What an edit makes of the predicate among the statements.
Items == {Num(1), Str(<<"b">>), A, B, AB, <<"Path", <<<<"a">>, <<"a">>>>>>}
         \cup {<<"Unary", o, x>> : o \in {"Not", "Negate"}, x \in {Num(1), AB, Str(<<"b">>)}}
         \cup {Op(o, x, y) : o \in {"Subtract", "Equal", "Or"}, x \in {A, Num(1)}, y \in {B, AB}}
Lists == {<<"Array", s>> : s \in {<<x>> : x \in Items} \cup {<<x, AB>> : x \in Items}
                                \cup {<<Num(1), x>> : x \in Items} \cup {<<Num(1), A, B>>}}
Searches ==
    {Op(o, x, Str(<<"b">>)) : o \in {"Contains", "Subtract", "Equal", "Or"},
        x \in Lists \cup {<<"Unary", u, l>> : u \in {"Not", "Negate"}, l \in Lists}}
    \cup {Op("Contains", <<"Array", <<Num(1), AB>>>>, x) : x \in Items}

\* And of the object and the assignments there.
Signed(E) == E \cup {<<"Unary", o, x>> : o \in {"Not", "Negate"}, x \in E}
Object(fields) == <<"Object", fields>>
Yes == Lit(<<"Boolean", TRUE>>)
Listed == Signed({<<"Array", <<>>>>}) \cup {<<"Array", <<x>>>> : x \in {Num(1), A}}
Nested == Signed({Object(<<<<<<"a">>, Yes>>>>)})
          \cup {Object(<<<<<<"a">>, x>>>>) : x \in Signed({Yes}) \cup {Num(1), A}}
Inserted == {Object(<<<<<<"a">>, x>>, <<<<"b">>, y>>>>) : x \in Listed, y \in Nested}
Assigned == Signed({Object(<<>>)})
            \cup {Op("Equal", x, Object(<<>>)) : x \in {B, Eq(Num(1), B), Op("Subtract", Num(1), B)}}
            \cup {Op("Or", Num(1), Eq(B, Object(<<>>)))}

SetsOf(q) == {stage[2] : stage \in {s \in Range(q.stages) : s[1] = "Set"}}
ExpressionsOf(q) ==
    {q.stages[n][2] : n \in Filters(q.stages)}
    \cup UNION {{assignments[i][2] : i \in DOMAIN assignments} : assignments \in SetsOf(q)}
    \cup (IF q.command[1] = "Insert" THEN {q.command[3]} ELSE {})
Submitted == UNION {ExpressionsOf(q) : q \in MCTrees \cup MCSyntaxTrees}

Opened(E) == {e : e \in E \cup UNION {Parts(e) : e \in E}}
AllExpressions ==
    Opened(Opened(Opened(Opened(Submitted \cup Searches \cup Items \cup Inserted \cup Assigned))))
MCExpressions == AllExpressions

MCFirstStore == [collections |-> (c :> <<>>), definitions |-> <<>>]

MCIdField == <<"_id">>

MCSortKeys == {Keys(<<<<"a">>>>, "Ascending"), Keys(<<<<"b">>>>, "Descending"),
               Keys(<<<<"b">>>>, "Ascending") \o Keys(<<<<"a">>>>, "Descending"),
               Keys(<<<<"_id">>>>, "Descending")}
MCProbes == {<<<<"a">>>>, <<<<"b">>>>, <<<<"a">>, <<"b">>>>, <<<<"b">>, <<"a">>>>, <<<<"_id">>>>}
MCPathLists == Strings(MCProbes, 2)
====
