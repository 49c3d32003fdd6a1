\* The clipboard of the server on Windows.
SPECIFICATION Spec
CONSTANTS
    Text <- MCText
    Length <- MCLength
    HEADER = 3
    CHUNK = 5
    SKIP = 3
    Nothing = Nothing
    Other = Other
INVARIANTS
    UpToDate
    OnlyText
    NotLeftOpen
    ClipInv
\* The program may crash, which ends the model.
CHECK_DEADLOCK FALSE
