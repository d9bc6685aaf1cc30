SPECIFICATION MCSpec
CONSTANTS
    Size = 2
    Rate = 1
    Count = 2
    SndCap = 1
    RcvCap = 1
    SizeMax = 16
    Interrupted = {"client", "server"}
INVARIANTS WindowConserved NeverOvercounts ConnectSucceeds TimesAreDifferences
PROPERTIES RunEnds QuitEnds FlowSpec
CHECK_DEADLOCK FALSE
