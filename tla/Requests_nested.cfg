SPECIFICATION RequestSpec
CONSTANTS
    Kinds = {"leave_chat"}
    NestedKinds = {"initiate_purchase"}
    Numbered = TRUE
    IdMax = 3
    FirstId = 0
    MaxRequests = 2
INVARIANTS
    TimeoutMeansUnanswered
