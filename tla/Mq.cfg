SPECIFICATION Spec
CONSTANTS
    Count = 2
    Sizes = {1, 2}
    Room = 3
    MaxKills = 3
INVARIANTS RoundTrip NeverFails BacklogBounded
PROPERTY OnlyEarlySignalHangs
CHECK_DEADLOCK FALSE
