CONSTANTS
    Flows <- MCFlows
    Outgoing <- MCOutgoing
    Incoming <- MCIncoming
    VPNAddress = "vpn"
    MaxMSS = 1180
    PidSpace = 2
    MaxPackets = 2
SPECIFICATION Spec
CHECK_DEADLOCK FALSE
INVARIANTS
    SealedOnce
    CarriedPacketsAreSound
    WindowsExitLeavesNothing
PROPERTIES
    EstablishedEndsSession
