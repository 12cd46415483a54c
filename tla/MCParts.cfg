SPECIFICATION PartsSpec
CONSTANTS
    WidgetRooms = {w1, w2, w3}
    OwnRooms = {o1}
    MaxRooms = 2
    MaxEvents = 4
    MaxMessages = 4
    MaxFragment = 2
    MaxBytes = 4
    MaxIdentities = 4
    MaxMishaps = 4
    Word32 = 8
    Word64 = 64
    Jitters = {0, 3, 7}
    Chats = {c1, c2, c3}
    MaxPerChat = 2
    MaxChats = 2
    MaxTotal = 3
    MaxFrames = 4
    MaxFailures = 0
    Sealed = {TRUE, FALSE}
SYMMETRY ChatSymmetry
INVARIANTS
    PartsTypeOK
    RoomsAgree
    Reclaimed
    CreatorSlotsFree
    FramesWhole
    HandedInOrder
    RunsAsSaved
    DelayIsReference
    MailboxTypeOK
    CapsHold
PROPERTIES
    ImplementsFrameQueue
    ReplacedWhole
CHECK_DEADLOCK FALSE
