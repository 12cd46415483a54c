SPECIFICATION FairMailboxSpec
CONSTANTS
    Chats = {c1, c2}
    MaxPerChat = 2
    MaxChats = 2
    MaxTotal = 3
    MaxFrames = 3
    MaxFailures = 1
    Sealed = {TRUE}
INVARIANTS
    NothingLost
PROPERTIES
    KeyedFramesDelivered
    ImplementsQueues
