SPECIFICATION Spec
CONSTANTS
    MaxKey = 12
    Storable <- OneIdPerKey
    MaxKeys = 3
    Removable <- ThreeAndFour
    MaxRemovals = 2
CHECK_DEADLOCK FALSE
INVARIANTS
    LookupsAgree
    AlwaysVerified
