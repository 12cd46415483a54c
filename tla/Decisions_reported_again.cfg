SPECIFICATION DecisionSpec
CONSTANTS
    Requesters = {r1}
    Invites = {}
    Members = {}
    MaxPending = 1
    MaxActions = 1
    MaxMoves = 2
    MaxFaults = 1
INVARIANTS
    ReportedOnce
CHECK_DEADLOCK FALSE
