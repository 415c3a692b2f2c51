---- MODULE QuerySyntax ----
(***************************************************************************)
(* What the lexer and the parser are held against: the lexemes of the      *)
(* language, each described on its own, the cutting of a text into the     *)
(* longest of them, and the printing of a syntax tree with no more         *)
(* parentheses than the precedence table of docs/novaql.md asks for.       *)
(***************************************************************************)
EXTENDS QueryParser

AllOf(word, C) == word # <<>> /\ Range(word) \subseteq C

IsWhite(w) == AllOf(w, Spaces)
IsLineComment(w) == IsPrefix(<<"/", "/">>, w) /\ "\n" \notin Range(w)
IsBlockComment(w) ==
    /\ Len(w) >= 4 /\ IsPrefix(<<"/", "*">>, w) /\ IsSuffix(<<"*", "/">>, w)
    /\ \A k \in 3 .. Len(w) - 2 : SubSeq(w, k, k + 1) # <<"*", "/">>
IsTrivia(w) == IsWhite(w) \/ IsLineComment(w) \/ IsBlockComment(w)

IsName(w) == Head(w) \in Letters /\ AllOf(w, Letters \cup Digits \cup Symbols)

IsExponent(w) ==
    /\ Head(w) \in {"e", "E"}
    /\ \/ AllOf(Tail(w), Digits)
       \/ Len(w) > 1 /\ w[2] \in {"+", "-"} /\ AllOf(SubSeq(w, 3, Len(w)), Digits)
IsDecimal(w) ==
    \/ AllOf(w, Digits)
    \/ \E k \in 2 .. Len(w) - 1 : /\ w[k] = "."
                                  /\ AllOf(SubSeq(w, 1, k - 1), Digits)
                                  /\ AllOf(SubSeq(w, k + 1, Len(w)), Digits)
IsNumber(w) ==
    \/ IsDecimal(w)
    \/ \E k \in 2 .. Len(w) : IsDecimal(SubSeq(w, 1, k - 1)) /\ IsExponent(SubSeq(w, k, Len(w)))
Overflowing(w) ==
    IF AllOf(w, Digits) THEN ParseInteger(w) = Overflows ELSE ParseFloat(w) = Overflows

\* A backslash escapes if it is the first, third, ... of its row.
Escaping(w, i) ==
    w[i] = "\\" /\ (i - Max({j \in 1 .. i : w[j] # "\\"})) % 2 = 1
PairsUp(w, i) ==
    LET quad == w[i + 2] IN
    /\ i + 2 < Len(w) /\ quad \in Quads
    /\ quad \in Highs => /\ i + 5 < Len(w)
                         /\ w[i + 3] = "\\" /\ w[i + 4] = "u" /\ w[i + 5] \in Lows
    /\ quad \in Lows => i >= 5 /\ w[i - 1] \in Highs /\ w[i - 2] = "u" /\ Escaping(w, i - 3)
IsString(w) ==
    /\ Len(w) >= 2 /\ Head(w) = "\"" /\ Last(w) = "\"" /\ ~Escaping(w, Len(w) - 1)
    /\ \A i \in 2 .. Len(w) - 1 :
         /\ w[i] \notin Controls
         /\ w[i] = "\"" => Escaping(w, i - 1)
         /\ Escaping(w, i) => \/ w[i + 1] \in Escapable
                              \/ w[i + 1] = "u" /\ PairsUp(w, i)

IsMark(w) ==
    \/ Len(w) = 1 /\ w[1] \in Punctuation
    \/ Len(w) = 2 /\ w[1] \in Paired /\ w[2] = "="

IsLexeme(w) == IsTrivia(w) \/ IsName(w) \/ IsNumber(w) \/ IsString(w) \/ IsMark(w)

\* The pieces of a text from a position on: each the longest lexeme there.  Where
\* there is none, the pieces end with that position and 0.
RECURSIVE PiecesFrom(_, _, _)
PiecesFrom(text, at, pieces) ==
    LET comment == starts_with(text, at, <<"/", "/">>) \/ starts_with(text, at, <<"/", "*">>)
        ends == {j \in at .. Len(text) :
                    LET w == SubSeq(text, at, j) IN IsLexeme(w) /\ (comment => IsTrivia(w))}
        end == Max(ends)
        word == SubSeq(text, at, end)
    IN  CASE at > Len(text) -> pieces
          [] ends = {} -> Append(pieces, <<at, 0>>)
          [] IsNumber(word) /\ (peek(text, end + 1) \in Letters \/ Overflowing(word)) ->
                 Append(pieces, <<at, 0>>)
          [] OTHER -> PiecesFrom(text, end + 1, Append(pieces, <<at, end + 1>>))

\* What a token says of its text, but for the value of a literal.
Fits(token, word) ==
    CASE token[1] = "Simple" -> IsMark(word) /\ token[2] = word
      [] token[1] = "Identifier" -> /\ IsName(word) /\ token[2] = word
                                    /\ Lower(word) \notin DOMAIN KEYWORDS
      [] token[1] = "Keyword" -> IsName(word) /\ KEYWORDS[Lower(word)] = token[2]
      [] token[1] = "Integer" -> AllOf(word, Digits)
      [] token[1] = "Float" -> IsNumber(word) /\ ~AllOf(word, Digits)
      [] token[1] = "String" -> IsString(word)

-----------------------------------------------------------------------------
(* Printing *)

K(word) == <<<<"Keyword", word>>>>
S(mark) == <<<<"Simple", mark>>>>
N(name) == <<<<"Identifier", name>>>>

Symbol == [Or |-> K("or"), And |-> K("and"), Contains |-> K("contains"),
           Equal |-> S(<<"=">>), NotEqual |-> S(<<"!", "=">>),
           Less |-> S(<<"<">>), LessEqual |-> S(<<"<", "=">>),
           Greater |-> S(<<">">>), GreaterEqual |-> S(<<">", "=">>),
           Add |-> S(<<"+">>), Subtract |-> S(<<"-">>), Multiply |-> S(<<"*">>),
           Divide |-> S(<<"/">>), Remainder |-> S(<<"%">>),
           Not |-> K("not"), Negate |-> S(<<"-">>), Positive |-> S(<<"+">>)]

\* The documented groups, from the lowest precedence to the highest.
Groups == <<{"Or"}, {"And"},
            {"Equal", "NotEqual", "Less", "LessEqual", "Greater", "GreaterEqual", "Contains"},
            {"Add", "Subtract"}, {"Multiply", "Divide", "Remainder"}>>
Group(e) == IF e[1] = "Binary" THEN CHOOSE g \in DOMAIN Groups : e[2] \in Groups[g] ELSE 6

\* The tokens of several printed things, a mark between them.
Joined(printed, mark) ==
    FoldLeft(LAMBDA all, one : IF all = <<>> THEN one ELSE all \o mark \o one, <<>>, printed)

WritePath(path) == Joined([i \in DOMAIN path |-> N(path[i])], S(<<".">>))

WriteLiteral(value) ==
    CASE value[1] = "Int64" -> <<<<"Integer", value[2]>>>>
      [] value[1] = "Float64" -> <<<<"Float", value[2]>>>>
      [] value[1] = "String" -> <<<<"String", value[2]>>>>
      [] value[1] = "Boolean" -> K(IF value[2] THEN "true" ELSE "false")
      [] value[1] = "Null" -> K("null")

RECURSIVE WriteExpression(_)
Wrapped(e, parenthesised) ==
    IF parenthesised THEN S(<<"(">>) \o WriteExpression(e) \o S(<<")">>) ELSE WriteExpression(e)
WriteExpression(e) ==
    CASE e[1] = "Literal" -> WriteLiteral(e[2])
      [] e[1] = "Path" -> WritePath(e[2])
      [] e[1] = "Array" ->
             S(<<"[">>) \o Joined([i \in DOMAIN e[2] |-> WriteExpression(e[2][i])], S(<<",">>))
             \o S(<<"]">>)
      [] e[1] = "Object" ->
             S(<<"{">>)
             \o Joined([i \in DOMAIN e[2] |-> N(e[2][i][1]) \o S(<<":">>)
                                              \o WriteExpression(e[2][i][2])], S(<<",">>))
             \o S(<<"}">>)
      [] e[1] = "Unary" -> Symbol[e[2]] \o Wrapped(e[3], e[3][1] = "Binary")
      [] e[1] = "Binary" -> Wrapped(e[3], Group(e[3]) < Group(e)) \o Symbol[e[2]]
                            \o Wrapped(e[4], Group(e[4]) <= Group(e))

WritePaths(paths) == Joined([i \in DOMAIN paths |-> WritePath(paths[i])], S(<<",">>))

WriteStage(stage) ==
    LET items == stage[2] IN
    CASE stage[1] = "Project" -> K("project") \o WritePaths(items)
      [] stage[1] = "Sort" ->
             K("sort") \o Joined([i \in DOMAIN items |->
                                    WritePath(items[i][1])
                                    \o (IF items[i][2] = "Descending" THEN K("desc") ELSE <<>>)],
                                 S(<<",">>))
      [] stage[1] = "Limit" -> K("limit") \o <<<<"Integer", items>>>>
      [] stage[1] = "Skip" -> K("skip") \o <<<<"Integer", items>>>>
      [] stage[1] = "Set" ->
             K("set") \o Joined([i \in DOMAIN items |->
                                    WritePath(items[i][1]) \o S(<<"=">>)
                                    \o WriteExpression(items[i][2])], S(<<",">>))

Word == [Get |-> "get", Update |-> "update", Delete |-> "delete"]

WriteCommand(command, predicate) ==
    LET name == N(command[2]) IN
    CASE command[1] \in DOMAIN Word ->
             name \o S(<<".">>) \o K(Word[command[1]]) \o S(<<"{">>) \o predicate \o S(<<"}">>)
      [] command[1] = "Insert" ->
             name \o S(<<".">>) \o K("insert") \o WriteExpression(command[3])
      [] command[1] = "CreateCollection" -> K("create") \o K("collection") \o name
      [] command[1] = "DropCollection" -> K("drop") \o K("collection") \o name
      [] command[1] = "DropIndex" -> K("drop") \o K("index") \o name
      [] command[1] = "CreateIndex" ->
             K("create") \o K("index") \o name \o K("on") \o N(command[3])
             \o S(<<"(">>) \o WritePaths(command[4]) \o S(<<")">>)

\* A query of the language: a filter is its first stage or none is.
Written(query) ==
    LET filtered == query.stages # <<>> /\ Head(query.stages)[1] = "Filter"
        rest == IF filtered THEN Tail(query.stages) ELSE query.stages
        predicate == IF filtered THEN WriteExpression(Head(query.stages)[2]) ELSE <<>>
    IN  (IF query.explain THEN K("explain") ELSE <<>>)
        \o WriteCommand(query.command, predicate)
        \o FlattenSeq([i \in DOMAIN rest |-> S(<<"|">>) \o WriteStage(rest[i])])

\* A text with the given tokens, a space behind each.
Spelled(token) ==
    CASE token[1] \in {"Identifier", "Simple"} -> token[2]
      [] token[1] = "Keyword" -> CHOOSE w \in DOMAIN KEYWORDS : KEYWORDS[w] = token[2]
      [] token[1] = "Integer" -> CHOOSE w \in {<<d>> : d \in Digits} : ParseInteger(w) = token[2]
      [] token[1] = "Float" ->
             CHOOSE w \in {<<d, ".", d>> : d \in Digits} : ParseFloat(w) = token[2]
      [] token[1] = "String" -> <<"\"">> \o token[2] \o <<"\"">>
TextOf(tokens) == FlattenSeq([i \in DOMAIN tokens |-> Append(Spelled(tokens[i]), " ")])

-----------------------------------------------------------------------------
(* Tokens without what a tree does not keep *)

Kept(tokens, i) ==
    /\ tokens[i] \notin {<<"Simple", <<"(">>>>, <<"Simple", <<")">>>>, <<"Simple", <<";">>>>,
                         <<"Keyword", "asc">>}
    /\ ~ /\ tokens[i] = <<"Simple", <<",">>>> /\ i < Len(tokens)
         /\ tokens[i + 1] \in {<<"Simple", <<"]">>>>, <<"Simple", <<"}">>>>}

Canonical(tokens, i) ==
    CASE tokens[i] = <<"Simple", <<"=", "=">>>> -> <<"Simple", <<"=">>>>
      [] tokens[i] = <<"Simple", <<"!">>>> -> <<"Keyword", "not">>
      [] tokens[i][1] = "String" /\ i < Len(tokens) /\ tokens[i + 1] = <<"Simple", <<":">>>> ->
             <<"Identifier", tokens[i][2]>>
      [] OTHER -> tokens[i]

Bare(tokens) ==
    LET kept == SelectSeq([i \in DOMAIN tokens |-> i], LAMBDA i : Kept(tokens, i))
    IN  [i \in DOMAIN kept |-> Canonical(tokens, kept[i])]

Count(tokens, mark) == Cardinality({i \in DOMAIN tokens : tokens[i] = <<"Simple", mark>>})
====
