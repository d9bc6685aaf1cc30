SPECIFICATION AnalyzeSpec
CONSTANTS
    INT_MAX = 3
    ULLONG_MAX = 15
    MaxSize = 4
INVARIANT ReportRight
CHECK_DEADLOCK FALSE
