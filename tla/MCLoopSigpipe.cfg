\* SurvivesConnection, which the code does not keep.
SPECIFICATION Spec
CONSTANTS
    Kind <- MCKeepaliveAndInput
    PKT_PROC_PER_LOOP = 2
    TIMEOUT = 2
    RCVTIMEO = 1
    MaxRecv = 3
    MaxBacklog = 8
    REALLOC_AT = 9
    SIGPIPE = TRUE
INVARIANT
    SurvivesConnection
CHECK_DEADLOCK FALSE
