CONSTANTS
    d1 = d1
    d2 = d2
    other = other
    None = None
    Conns <- MCConns
    IsDiscord <- MCIsDiscord
    LocalPort <- MCLocalPort
    Remote <- MCRemote
    MaxConnects = 1
    MaxAnswers = 0
SPECIFICATION Spec
CHECK_DEADLOCK FALSE
INVARIANT
    CleanupEndsInterception
