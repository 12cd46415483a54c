SPECIFICATION FairCallsSpec
CONSTANTS
    Kinds = {"leave_chat", "create_visitor_room"}
    NestedKinds = {"leave_chat"}
    Numbered = TRUE
    IdMax = 5
    FirstId = 3
    MaxRequests = 4
    NumChats = 3
    MaxPages = 2
    MaxSteps = 2
    BorrowedIds = FALSE
    Hazards = {"lost", "unopened", "repeated_cursor"}
    Requesters = {r1, r2}
    Invites = {i1}
    Members = {m1}
    MaxPending = 1
    MaxActions = 2
    MaxMoves = 2
    MaxFaults = 2
INVARIANTS
    RequestTypeOK
    OwnAnswer
    SlotFollowsCall
    TypeOK
    KeysFollowStore
    SyncReaches
    DecisionTypeOK
    ReportedAgainOnlyAfterFailure
    PendingMeansWaiting
PROPERTIES
    CallsReturn
    SyncsEnd
    EveryAskReported
    QueueDrains
CHECK_DEADLOCK FALSE
