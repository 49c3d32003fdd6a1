------------------------------ MODULE Countdown ------------------------------
(***************************************************************************)
(* What the keepalive deadline promises (minput.h 84-88, synproto.h        *)
(* 12-15): a connection on which the server is not heard for TIMEOUT ticks *)
(* is given up, not before and at most LATE ticks after.  There is no      *)
(* clock here, only the time that is left.                                 *)
(***************************************************************************)
EXTENDS Integers

CONSTANTS TIMEOUT, LATE

VARIABLES
    state,  \* off: no connection; on: a connection; over: the program ended
    left    \* ticks until the deadline, of a connection

vars == <<state, left>>

Init == state = "off" /\ left = TIMEOUT

Begin ==
    /\ state = "off"
    /\ state' = "on"
    /\ left' = TIMEOUT

Hear ==
    /\ state = "on"
    /\ left' = TIMEOUT
    /\ UNCHANGED state

Pass ==
    /\ state = "on"
    /\ left > -LATE
    /\ left' = left - 1
    /\ UNCHANGED state

GiveUp ==
    /\ state = "on"
    /\ left < 0
    /\ state' = "off"
    /\ left' = TIMEOUT

Leave ==
    /\ state # "over"
    /\ state' = "over"
    /\ left' = TIMEOUT

Next == Begin \/ Hear \/ Pass \/ GiveUp \/ Leave

Spec == Init /\ [][Next]_vars
=============================================================================
