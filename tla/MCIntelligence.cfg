SPECIFICATION Session
CONSTANTS
    IdField <- MCIdField
    MaxInteger = 3
    MaxNesting = 2
    Rank <- MCRank
    Expressions <- MCExpressions
    Depth <- MCDepth
    MaxDepth = 2
    Catalogs <- MCCatalogs
    Counts = {0, 1, 2, 3}
    Workload <- MCWorkload
    Watched <- MCWatched
    StartStore <- MCStartStore
    Configs <- MCConfigs
    Thresholds = {0, 2}
    MaxCount = 5
    LowestReduction <- MCLowestReduction
    MaxEvents = 3
    MaxId = 2
INVARIANTS
    ReportsCountWhatHappened
    RecommendationsWouldHelp
PROPERTIES
    RecordsMoveForward
    ObservesQueries
