CONSTANTS
    Conns = {c1, c2}
    Slow = {c1}
    Switchers = {activate}
    Closer = closer
SPECIFICATION ProxySpec
INVARIANTS
    NoStaleRoute
    CloseMissesAtMostOne
PROPERTIES
    ForgottenIsClosed
    ClosedIsReaped
