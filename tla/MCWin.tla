-------------------------------- MODULE MCWin --------------------------------
(***************************************************************************)
(* WinLoop scaled down as MCNetio is: a packet the parser complains about  *)
(* and one that it sets the clipboard from, of different sizes.            *)
(***************************************************************************)
EXTENDS WinLoop

MCBase == 4
MCPacket == {"shortDCLP", "DCLP"}
MCComplains == {"shortDCLP"}
MCClips == {"DCLP"}
MCPktLen == [p \in MCPacket |-> IF p = "shortDCLP" THEN 1 ELSE 0]

MCGarbled ==
    [p \in MCPacket |-> 0 .. MCBase - 1]
==============================================================================
