CONSTANTS
    d1 = d1
    d2 = d2
    other = other
    None = None
    Conns <- MCConns
    IsDiscord <- MCIsDiscord
    LocalPort <- MCLocalPort
    Remote <- MCRemote
    MaxConnects = 2
    MaxAnswers = 1
SPECIFICATION Spec
CHECK_DEADLOCK FALSE
INVARIANTS
    TablesAgree
    OneFlowPerIntent
PROPERTIES
    NoSynIsHeld
