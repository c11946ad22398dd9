CONSTANTS
    Flavours = {"proxy", "app", "probe"}
    PidSpace = 4
SPECIFICATION Spec
CHECK_DEADLOCK FALSE
INVARIANTS
    ServedOnlyBridged
    NonceNeverRepeats
    NothingLeaks
PROPERTIES
    StartReturns
    EverythingStops
