\* The Windows message loop with error dialogs.
SPECIFICATION WinFairSpec
CONSTANTS
    Packet <- MCPacket
    Complains <- MCComplains
    Clips <- MCClips
    PktLen <- MCPktLen
    Garbled <- MCGarbled
    NoPacket = NoPacket
    Misread = Misread
    HDR_SZ = 2
    WORD = 11
    SOCKBUF_SZ = 3
    SLACK = 1
    MaxSent = 4
    PKT_PROC_PER_LOOP = 2
    MaxDepth = 3
INVARIANTS
    WinTypeOK
    OutsideOnlyInOverflow
    WinInv
PROPERTIES
    NoInputAfterQuit
    NearerTheEnd
    QuitEnds
\* The program ends.
CHECK_DEADLOCK FALSE
