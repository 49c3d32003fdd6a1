\* Both builds, every place where setting up can fail.
SPECIFICATION Spec
CONSTANTS
    Platform = {"unix", "windows"}
    Argc = {1, 2, 3, 4, 5}
    AddressNumber = {0, 10}
    ERR_OS = 16
    ERR_ARGS = 32
    ERR_ALLOC = 64
    ERR_OVERFLOW = 8
INVARIANTS
    TypeOK
    BufferIsLive
    Released
    StatusTellsFailure
\* The program ends.
CHECK_DEADLOCK FALSE
