SPECIFICATION RoomSpec
CONSTANTS
    WidgetRooms = {w1, w2}
    OwnRooms = {}
    MaxRooms = 2
    MaxEvents = 4
INVARIANTS
    HandleNamesItsRoom
CHECK_DEADLOCK FALSE
