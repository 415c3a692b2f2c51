---- MODULE QueryLexer ----
(***************************************************************************)
(* The lexer of crates/nova-query/src/lexer.rs: a text to its tokens.      *)
(*                                                                         *)
(* A text is a sequence of characters and positions count characters from  *)
(* 1 (the code counts bytes from 0).  A token is                           *)
(* <<kind, payload, start, end>>, its text being start .. end - 1; the     *)
(* payload of a string is its decoded value, that of a name its letters.   *)
(* A failing operator returns a LexErrorKind where the others return a     *)
(* position or a token; [at |-> 0] stands for it.                          *)
(***************************************************************************)
EXTENDS Naturals, Sequences, SequencesExt, FiniteSetsExt

CONSTANTS
    Letters,          \* alphabetic characters and the underscore
    Digits,           \* decimal digits
    Symbols,          \* characters beyond ASCII that only continue a name
    Spaces,           \* white space
    Controls,         \* control characters, which a string may not hold
    Quads,            \* four hexadecimal digits, taken as one character
    Highs, Lows,      \* the quads that are a high, a low surrogate
    Escapable,        \* characters that may follow a backslash, but for `u`
    Unescaped(_),     \* the character that such an escape stands for
    Scalar(_),        \* the character of a sequence of one or two quads
    Lower(_),         \* to_ascii_lowercase of a word
    KEYWORDS,         \* the words of the table, each with its Keyword
    ParseInteger(_),  \* str::parse::<i64>, or Overflows
    ParseFloat(_),    \* str::parse::<f64>, or Overflows if it is not finite
    Overflows

EndOfText == "end of text"

IdentifierStart == Letters
IdentifierContinue == Letters \cup Digits \cup Symbols

peek(text, at) == IF at <= Len(text) THEN text[at] ELSE EndOfText

starts_with(text, at, prefix) == IsPrefix(prefix, SubSeq(text, at, Len(text)))

\* The position behind the characters of C at `at`.
Past(text, at, C) ==
    Min({j \in at .. Len(text) + 1 : peek(text, j) \notin C})

Slice(text, from, to) == SubSeq(text, from, to - 1)

Failure == [at |-> 0]
Failed(result) == result.at = 0

\* The position behind white space and comments; 0 for a comment without end.
RECURSIVE skip_trivia(_, _)
skip_trivia(text, at) ==
    LET start == Past(text, at, Spaces)
        ends == {k \in start + 2 .. Len(text) : starts_with(text, k, <<"*", "/">>)}
        line == Min({j \in start .. Len(text) + 1 : peek(text, j) \in {"\n", EndOfText}})
    IN  CASE starts_with(text, start, <<"/", "/">>) -> skip_trivia(text, line)
          [] starts_with(text, start, <<"/", "*">>) ->
                 IF ends = {} THEN 0 ELSE skip_trivia(text, Min(ends) + 2)
          [] OTHER -> start

\* One escape, whose backslash is at `at`: its character and what follows it.
unicode_escape(text, at) ==
    LET high == peek(text, at + 2)
        low == peek(text, at + 5)
    IN  CASE high \in Highs /\ starts_with(text, at + 3, <<"\\", "u">>) /\ low \in Lows ->
                 [at |-> at + 6, char |-> Scalar(<<high, low>>)]
          [] high \in Quads \ (Highs \cup Lows) ->
                 [at |-> at + 3, char |-> Scalar(<<high>>)]
          [] OTHER -> Failure

escape(text, at) ==
    CASE peek(text, at + 1) = "u" -> unicode_escape(text, at)
      [] peek(text, at + 1) \in Escapable ->
             [at |-> at + 2, char |-> Unescaped(text[at + 1])]
      [] OTHER -> Failure

RECURSIVE string(_, _, _)
string(text, at, value) ==
    LET character == peek(text, at)
        escaped == escape(text, at)
    IN  CASE character = "\"" -> [at |-> at + 1, token |-> <<"String", value>>]
          [] character = "\\" ->
                 IF Failed(escaped) THEN Failure
                 ELSE string(text, escaped.at, Append(value, escaped.char))
          [] character \in Controls \cup {EndOfText} -> Failure
          [] OTHER -> string(text, at + 1, Append(value, character))

\* MUTANT of Fraction: a dot after the digits always belongs to the number.
DottedFraction(text, at) ==
    IF peek(text, at) = "." THEN Past(text, at + 1, Digits) ELSE at

\* The position behind a dot and digits, if both are at `at`.
Fraction(text, at) ==
    IF peek(text, at) = "." /\ peek(text, at + 1) \in Digits
    THEN Past(text, at + 1, Digits) ELSE at

number(text, at) ==
    LET whole == Past(text, at, Digits)
        decimal == Fraction(text, whole)
        scaled == peek(text, decimal) \in {"e", "E"}
        power == IF peek(text, decimal + 1) \in {"+", "-"} THEN decimal + 2 ELSE decimal + 1
        end == IF scaled THEN Past(text, power, Digits) ELSE decimal
        value == IF scaled \/ decimal # whole
                 THEN <<"Float", ParseFloat(Slice(text, at, end))>>
                 ELSE <<"Integer", ParseInteger(Slice(text, at, end))>>
    IN  IF \/ scaled /\ peek(text, power) \notin Digits
           \/ peek(text, end) \in IdentifierStart
           \/ value[2] = Overflows
        THEN Failure
        ELSE [at |-> end, token |-> value]

identifier(text, at) ==
    LET end == Past(text, at, IdentifierContinue)
        word == Slice(text, at, end)
    IN  [at |-> end,
         token |-> IF Lower(word) \in DOMAIN KEYWORDS
                   THEN <<"Keyword", KEYWORDS[Lower(word)]>>
                   ELSE <<"Identifier", word>>]

Punctuation ==
    {"{", "}", "[", "]", "(", ")", ",", ":", ".", ";", "|", "+", "-", "*", "/", "%",
     "=", "!", "<", ">"}

\* Characters that take a following `=` into their token.
Paired == {"=", "!", "<", ">"}

with_optional_equal(text, at) ==
    LET width == IF text[at] \in Paired /\ peek(text, at + 1) = "=" THEN 2 ELSE 1
    IN  [at |-> at + width, token |-> <<"Simple", Slice(text, at, at + width)>>]

\* The token at `at`, where a character is.
Token(text, at) ==
    CASE text[at] \in Punctuation -> with_optional_equal(text, at)
      [] text[at] = "\"" -> string(text, at + 1, <<>>)
      [] text[at] \in Digits -> number(text, at)
      [] text[at] \in IdentifierStart -> identifier(text, at)
      [] OTHER -> Failure

RECURSIVE TokensFrom(_, _, _)
TokensFrom(text, at, tokens) ==
    LET start == skip_trivia(text, at)
        next == Token(text, start)
    IN  CASE start = 0 -> <<>>
          [] start > Len(text) -> Append(tokens, <<"Eof", <<>>, start, start>>)
          [] Failed(next) -> <<>>
          [] OTHER -> TokensFrom(text, next.at, Append(tokens, next.token \o <<start, next.at>>))

\* The tokens of a text; <<>> for a LexError, since a stream ends in Eof.
lex(text) == TokensFrom(text, 1, <<>>)
====
