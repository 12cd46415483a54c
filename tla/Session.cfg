SPECIFICATION FairSpec
CONSTANTS
    FaultSets = {{"connect_refused", "connect_error", "drop", "late_frames", "cut_frame", "write_error", "reject", "revoke"}, {"connect_refused", "drop", "write_error", "revoke"}}
    MaxFaults = 3
INVARIANTS
    IdleIffScheduled
    NoFrameCrossesConnections
    AuthenticatedHere
    OnlineCarriesNoRetry
    HandshakeNeedsConnection
    EachFailureCountedOnce
PROPERTIES
    OutageEndsOrIsKnown
    OutageEnds
