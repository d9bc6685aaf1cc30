SPECIFICATION MCSpec
CONSTANTS
    Size = 2
    Rate = 2
    Count = 3
    Capacity = 3
    Interrupted = {"client", "server"}
INVARIANTS WindowConserved WholeWindows StampsExact Complete
PROPERTIES Termination QuitEnds FlowSpec
CHECK_DEADLOCK FALSE
