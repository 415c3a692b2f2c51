SPECIFICATION Spec
CONSTANTS
    Letters <- MCLetters
    Digits <- MCDigits
    Symbols = {"sign"}
    Spaces <- MCSpaces
    Controls <- MCControls
    Quads = {"high", "low", "quad"}
    Highs = {"high"}
    Lows = {"low"}
    Escapable <- MCEscapable
    Unescaped <- MCUnescaped
    Scalar <- MCScalar
    Lower <- MCLower
    KEYWORDS <- MCKEYWORDS
    ParseInteger <- MCParseInteger
    ParseFloat <- MCParseFloat
    Overflows = Overflows
    IdField <- MCIdField
    MaxInteger = 3
    MaxNesting = 2
    Expressions <- MCExpressions
    Depth <- MCDepth
    MaxDepth = 4
    Rank <- MCRank
    Texts <- MCTexts
    SyntaxTrees <- MCSyntaxTrees
    Trees <- MCTrees
    FirstStore <- MCFirstStore
    MaxDocuments = 3
    MunchLength = 8
    SortKeys <- MCSortKeys
    PathLists <- MCPathLists
    Probes <- MCProbes
INVARIANTS
    LexingIsLongestMatch
    ParsingInvertsWriting
    IndexesChangeNothing
    SortsAreStable
    CommandsActOnWhatGetReturns
    PathsReadBack
    CandidatesAreUsable
