CONSTANTS
    Ends <- MCEnds
    MaxPayload = 2
    WriteSizes = {3}
    ReadSizes = {1}
    ClientBytes = 3
    MaxFaults = 1
SPECIFICATION Spec
CHECK_DEADLOCK FALSE
INVARIANTS
    WrittenInOrder
    CalmStreamIsPrefix
    AckedIsDelivered
