SPECIFICATION Spec
CONSTANTS
    c1 = c1
    ka = ka
    kb = kb
    posZero = posZero
    negZero = negZero
    Collections <- OneCollection
    Ids <- TwoIds
    MaxIndexes = 2
    Keys <- TwoKeys
    Literals <- TwoKeys
    SameNumber = {}
    NoKey = NoKey
    Unindexable = Unindexable
    Absent = Absent
    Garbled = Garbled
    Idle = Idle
    MaxFaults = 2
    MaxRestarts = 1
CHECK_DEADLOCK FALSE
INVARIANTS
    IndexScansFindAll
    CommandsReachAll
    IndexedDocumentsHaveKeys
    FilesFollowTrees
