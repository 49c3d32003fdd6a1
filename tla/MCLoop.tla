------------------------------- MODULE MCLoop -------------------------------
(***************************************************************************)
(* Instances of MinputLoop: one kind of packet of each sort, a keepalive   *)
(* that is answered, a request that is no keepalive, and input.            *)
(***************************************************************************)
EXTENDS MinputLoop

MCKind == {"CALV", "QINF", "DMMV"}
MCKeepaliveAndInput == {"CALV", "DMMV"}
=============================================================================
