SPECIFICATION RxSpec
CONSTANTS
    MaxMessages = 2
    MaxFragment = 1
    MaxBytes = 3
INVARIANTS
    NeverPartial
CHECK_DEADLOCK FALSE
