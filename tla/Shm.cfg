SPECIFICATION Spec
CONSTANTS
    Count = 3
    MaxKills = 2
INVARIANTS Exclusive RoundTrip
PROPERTIES OnlyEarlyStartHangs
CHECK_DEADLOCK FALSE
