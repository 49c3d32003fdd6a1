\* A clock that wraps after 16 ticks, from any moment on.
SPECIFICATION Spec
CONSTANTS
    WORD = 16
    TIMEOUT = 3
    LATE = 2
    CLOCK_SET = TRUE
INVARIANTS
    HeldLate
    KeepaliveInv
PROPERTIES
    NoEarlyDrop
    KeepsPromise
