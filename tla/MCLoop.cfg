\* The main loop: keepalives, requests, reasons to disconnect; reconnection
\* and answers under fairness.
SPECIFICATION FairSpec
CONSTANTS
    Kind <- MCKind
    PKT_PROC_PER_LOOP = 2
    TIMEOUT = 3
    RCVTIMEO = 1
    MaxRecv = 3
    MaxBacklog = 4
    REALLOC_AT = 4
    SIGPIPE = TRUE
INVARIANTS
    TypeOK
    OwedIsOnItsWay
    DropsInTime
    LoopInv
PROPERTIES
    WhyDropped
    PromiseSpec
    BackOnline
    ScreenTold
\* The program may end: no memory, or a signal.
CHECK_DEADLOCK FALSE
