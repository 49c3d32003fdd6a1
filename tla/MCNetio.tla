------------------------------- MODULE MCNetio -------------------------------
(***************************************************************************)
(* Netio scaled down: digits of base 4 for bytes, length words of 2        *)
(* digits, a buffer of 4 cells.  "short" fits the first buffer, "long"     *)
(* does not, and its length word has a first digit that is not 0.          *)
(***************************************************************************)
EXTENDS Netio

MCBase == 4
MCPacket == {"short", "long"}
MCPktLen == [p \in MCPacket |-> IF p = "short" THEN 1 ELSE 4]

\* The first digits of the word are the packet's, the others are anything.
MCGarbled ==
    [p \in MCPacket |->
        UNION {LET unit == MCBase ^ (HDR_SZ - k)
               IN  {unit * (MCPktLen[p] \div unit) + low : low \in 0 .. unit - 1}
               : k \in 1 .. HDR_SZ - 1}]
==============================================================================
