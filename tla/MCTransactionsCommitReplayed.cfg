SPECIFICATION Spec
CONSTANTS
    MaxTx = 2
    MaxRecords = 5
    MaxRestarts = 2
    Pages <- MCPages
    Images = {}
    None = None
    c1 = c1
    c2 = c2
    Collections <- MCCollections
CHECK_DEADLOCK FALSE
INVARIANTS
    CommittedIsReplayed
