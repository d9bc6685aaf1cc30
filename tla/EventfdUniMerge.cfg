SPECIFICATION Spec
CONSTANTS
    Count = 3
    Room = 2
INVARIANT ReadsTimestamp
CHECK_DEADLOCK FALSE
