------------------------------ MODULE SynStream ------------------------------
(***************************************************************************)
(* What the connection to a Synergy server promises its client: every      *)
(* packet the server writes is handed to the parser whole, once, and in    *)
(* the order it was written, until the connection ends; what was not       *)
(* handed over by then is gone, and nothing of it reaches the parser on a  *)
(* later connection.                                                       *)
(***************************************************************************)
EXTENDS Sequences

CONSTANTS
    Packet,     \* the packets a server can write
    NoPacket    \* nothing has been handed over on this connection yet

VARIABLES
    pending,    \* packets written and not yet handed to the parser
    last        \* the packet handed to the parser most recently

Init ==
    /\ pending = << >>
    /\ last = NoPacket

Write(p) ==
    /\ pending' = Append(pending, p)
    /\ UNCHANGED last

Deliver ==
    /\ pending # << >>
    /\ last' = Head(pending)
    /\ pending' = Tail(pending)

Reset ==
    /\ pending' = << >>
    /\ last' = NoPacket

Next ==
    \/ \E p \in Packet : Write(p)
    \/ Deliver
    \/ Reset

Spec == Init /\ [][Next]_<<pending, last>>
==============================================================================
