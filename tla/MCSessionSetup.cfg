CONSTANTS
    Advertised <- MCAdvertised
    MaxPort = 2
    Permits = 2
    Finalists = 2
    Latencies = {1, 2, 3}
    Flavours = {"live", "tls", "key", "push", "data"}
    Authorities = {"provider", "other"}
    Messages <- MCMessages
    Addresses = {"a1", "a2"}
    Peers = {"7"}
    TxIDs = 3
    MaxMessages = 4
    MaxReads = 3
SPECIFICATION Spec
CHECK_DEADLOCK FALSE
INVARIANTS
    NotChosenByLuck
    SecretsOnlyToGateway
    AcceptedReplyIsWhole
    ProbeReportsTruth
PROPERTIES
    SetupEndsClean
