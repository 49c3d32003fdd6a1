\* The messages of the client and every short format.
SPECIFICATION Spec
CONSTANTS
    Job <- MCJob
    Char <- MCChar
    DigitValue <- MCDigitValue
INVARIANTS
    TypeOK
    AsDocumented
    WellFramed
    SynprotoInv
\* A message is sent and read, and that is all.
CHECK_DEADLOCK FALSE
