SPECIFICATION Spec
CONSTANTS
    MaxTx = 2
    MaxRecords = 5
    MaxRestarts = 2
    Pages <- MCPages
    Images = {}
    None = None
    c1 = c1
    c2 = c2
    Collections <- MCCollections
SYMMETRY Symmetry
CHECK_DEADLOCK FALSE
INVARIANTS
    TypeOK
    LockTable
    IdsBeginOnce
    ReportedOutcomeStaysOnDisk
    RolledBackStaysOut
    LsnsFollowPositions
PROPERTIES
    ReleaseAfterDurableOutcome
    MovesOnce
