SPECIFICATION FairSpec
CONSTANTS
    FaultSets = {{"drop", "connect_error"}}
    MaxFaults = 2
PROPERTIES
    ReconnectsAutomatically
