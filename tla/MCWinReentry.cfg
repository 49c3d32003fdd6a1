\* The Windows message loop with error dialogs.
SPECIFICATION WinSpec
CONSTANTS
    Packet <- MCPacket
    Complains <- MCComplains
    Clips <- MCClips
    PktLen <- MCPktLen
    Garbled <- MCGarbled
    NoPacket = NoPacket
    Misread = Misread
    HDR_SZ = 2
    WORD = 16
    SOCKBUF_SZ = 3
    SLACK = 1
    MaxSent = 5
    PKT_PROC_PER_LOOP = 2
    MaxDepth = 2
INVARIANT
    NoOverflowFound
CHECK_DEADLOCK FALSE
