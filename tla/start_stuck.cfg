SPECIFICATION FairSpec
CONSTANTS
    NULL = NULL
    c1 = c1  c2 = c2  c3 = c3
    Calls <- TwoCalls
    MaxFaults = 1
PROPERTY Returns
\* The system stops when every call has returned and every thread runs.
CHECK_DEADLOCK FALSE
