SPECIFICATION RecoverySpec
CONSTANTS
    MaxTx = 2
    MaxRecords = 6
    MaxCheckpoints = 1
    MaxRestarts = 2
    imgA = imgA
    imgB = imgB
    Pages <- MCPages
    Images <- MCImages
    LoggedWrites <- MCLoggedWrites
    None = None
    Blank = Blank
    Garbled = Garbled
    NoImage = NoImage
INVARIANTS
    RecoveredPagesStay
    OnlyCommittedImages
