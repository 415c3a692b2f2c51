SPECIFICATION Spec
CONSTANTS
    imgA = imgA
    imgB = imgB
    MaxPages = 3
    Images <- MCImages
    Blank = Blank
    Garbled = Garbled
    Capacity = 2
    MaxPins = 1
    MaxFaults = 2
CHECK_DEADLOCK FALSE
INVARIANTS
    WithinCapacity
    CleanFramesAreStored
PROPERTIES
    PinsAreRespected
    ImplementsPageStore
