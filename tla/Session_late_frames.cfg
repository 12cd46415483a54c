SPECIFICATION Spec
CONSTANTS
    FaultSets = {{"drop", "late_frames"}}
    MaxFaults = 1
INVARIANTS
    OnlineUntilDisconnection
