SPECIFICATION Spec
CONSTANTS
    Size = 2
    Rate = 1
    Count = 1
    SndCap = 2
    RcvCap = 2
    SizeMax = 16
    Interrupted = {}
INVARIANT EvaluateClientAssertion
CHECK_DEADLOCK FALSE
