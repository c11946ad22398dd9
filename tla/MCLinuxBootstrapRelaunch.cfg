CONSTANTS
    Streams = {stdout, stderr}
    Relaunches = TRUE
    MaxLines = 2
SPECIFICATION Spec
CHECK_DEADLOCK FALSE
PROPERTY
    EstablishedEndsVPN
