\* A message that leaves the mutex and the condition variable in the segment.
SPECIFICATION Spec
CONSTANTS
    Count = 1
    Size = 1
    SyncBytes = 88
    PageBytes = 4096
PROPERTY PrintsResults
CHECK_DEADLOCK FALSE
