CONSTANTS
    Streams = {stdout, stderr}
    Relaunches = TRUE
    MaxLines = 3
SPECIFICATION Spec
CHECK_DEADLOCK FALSE
INVARIANTS
    HandoffIsFinal
PROPERTIES
    RefinesStartupPath
    ExitLeavesNothing
    EstablishedEndsVPNWhileAttached
    BrokenBackendIsNoticed
    StopEnds
