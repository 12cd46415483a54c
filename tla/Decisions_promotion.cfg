SPECIFICATION DecisionSpec
CONSTANTS
    Requesters = {}
    Invites = {}
    Members = {m1, m2}
    MaxPending = 1
    MaxActions = 2
    MaxMoves = 2
    MaxFaults = 0
CHECK_DEADLOCK FALSE
PROPERTIES
    PromotionPreserves
