---- MODULE Queries ----
(***************************************************************************)
(* A session of queries that may begin with a text, which is parsed (parse *)
(* of crates/nova-query) and executed as the first query.                  *)
(***************************************************************************)
EXTENDS QuerySyntax, QuerySession

CONSTANTS
    Texts,        \* the texts a session may begin with
    SyntaxTrees,  \* the syntax trees a session may begin with
    MunchLength   \* bound: texts up to this length are cut up for comparison

ASSUME MunchLengthAssumption == MunchLength \in Nat

VARIABLE text  \* the text at hand, in a sequence of one

vars == <<text, queryVars>>

Init ==
    /\ nextId = 1 /\ store = FirstStore
    /\ \/ text = <<>> /\ query = <<>>
       \/ query = <<>> /\ \E t \in Texts : text = <<t>>
       \/ text = <<>> /\ \E tree \in SyntaxTrees : query = <<tree>>

\* A QueryError leaves everything as it was.
Parse ==
    /\ text # <<>>
    /\ query' = parse(text[1])
    /\ text' = <<>>
    /\ UNCHANGED <<store, nextId>>

Next == Parse \/ (text = <<>> /\ QueryNext /\ UNCHANGED text)

Spec == Init /\ [][Next]_vars

-----------------------------------------------------------------------------
(* Properties *)

\* Lexing is cutting into longest lexemes: lex gives a text the tokens that the
\* longest pieces from left to right are, at their places, and fails exactly if
\* the text cannot be cut or a number touches a letter or does not fit.
LexingIsLongestMatch ==
    (text # <<>> /\ Len(text[1]) <= MunchLength) =>
        LET t == text[1]
            tokens == lex(t)
            pieces == PiecesFrom(t, 1, <<>>)
            shown == SelectSeq(pieces, LAMBDA p : ~IsTrivia(Slice(t, p[1], p[2])))
        IN  /\ (tokens = <<>>) <=> (\E i \in DOMAIN pieces : pieces[i][2] = 0)
            /\ tokens # <<>> =>
                 /\ [i \in 1 .. Len(tokens) - 1 |-> SubSeq(tokens[i], 3, 4)] = shown
                 /\ \A i \in DOMAIN shown : Fits(tokens[i], Slice(t, shown[i][1], shown[i][2]))

\* A sequence of tokens as lex gives them, without the places and Eof.
Plain(tokens) == [i \in 1 .. Len(tokens) - 1 |-> SubSeq(tokens[i], 1, 2)]

Keeps(tree, tokens) ==
    /\ Bare(tokens) = Bare(Written(tree))
    /\ Count(tokens, <<"(">>) = Count(tokens, <<")">>)
    /\ Count(tokens, <<";">>) <= 1

\* A tree keeps what was written: parse loses, adds and reorders no token, but
\* for parentheses (which it matches), `asc`, `;`, a last comma and aliases.
TreesKeepTheirTokens ==
    text # <<>> => \A tree \in Range(parse(text[1])) : Keeps(tree, Plain(lex(text[1])))

\* A query written with the parentheses that the documented precedences and left
\* associativity ask for parses to itself.
WrittenQueriesParse ==
    (query # <<>> /\ store = FirstStore) => parse(TextOf(Written(query[1]))) = query

\* Parsing and writing are inverse, from texts and from syntax trees, and what
\* parse makes is as planning and execution expect it.
ParsingInvertsWriting ==
    /\ TreesKeepTheirTokens
    /\ WrittenQueriesParse
    /\ text # <<>> => \A tree \in Range(parse(text[1])) : WellFormed(tree)
====
