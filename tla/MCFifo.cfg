SPECIFICATION MCSpec
CONSTANTS
    Size = 2
    Rate = 2
    Count = 5
    DefaultPipeSize = 2
    ClientPipeSize = 3
    ServerPipeSize = 5
    Interrupted = {"client", "server"}
INVARIANTS TypeOK WindowConserved BuffersFit RequestsTracked StampsExact Complete
PROPERTIES Termination QuitEnds FlowSpec
CHECK_DEADLOCK FALSE
