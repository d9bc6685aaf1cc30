SPECIFICATION Spec
CONSTANTS
    Count = 4
    MaxSize = 3
    PipeCapacity = 2
PROPERTIES EverySignalCounts TakeTurns OnlyEarlyHelloHangs
CHECK_DEADLOCK FALSE
