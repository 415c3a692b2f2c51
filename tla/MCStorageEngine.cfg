SPECIFICATION Spec
CONSTANTS
    small = small
    other = other
    large = large
    twin = twin
    empty = empty
    PageSize = 12
    HeaderSize = 2
    SlotSize = 2
    Records <- AllRecords
    Length <- TheirLengths
    Deleted = Deleted
    Garbled = Garbled
    Documents <- FourDocuments
    IdOf <- TheirIds
    Absent = Absent
    MaxPages = 2
    MaxFaults = 2
    MaxRestarts = 2
CHECK_DEADLOCK FALSE
INVARIANTS
    DirectoryFollowsPages
    SyncedDocumentsReturn
    AcceptedRecordsEncode
