SPECIFICATION Spec
CONSTANTS
    NumChats = 3
    MaxPages = 3
    MaxSteps = 3
    BorrowedIds = TRUE
    Hazards = {}
INVARIANTS
    BorrowedIdHolds
CHECK_DEADLOCK FALSE
