CONSTANTS
    Dials = {d1, d2}
    NoDial = NoDial
    IdSpace = 4
    FirstID = 3
    ChildQueue = 1
SPECIFICATION Spec
CHECK_DEADLOCK FALSE
INVARIANTS
    SendersNeverBlock
    OwnReply
    NoConnVanishes
PROPERTIES
    GivenUpIsUnreachable
    EveryDialReturns
    CloseEndsReader
