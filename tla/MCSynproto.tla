----------------------------- MODULE MCSynproto -----------------------------
(***************************************************************************)
(* The client's own replies, with names shorter, as long as and longer     *)
(* than the length they announce, and every format of up to three tokens,  *)
(* whose literal characters are the ones that occur in tokens.             *)
(***************************************************************************)
EXTENDS Synproto

MCDigitValue == [c \in {"1", "2", "3", "4"} |->
    CASE c = "1" -> 1 [] c = "2" -> 2 [] c = "3" -> 3 [] c = "4" -> 4]

MCChar ==
    {"%", "i", "s", "1", "2", "3", "4", "x", "B", "a", "r", "e", "D", "I", "N",
     "F", "C", "A", "L", "V", "O", "P"}

MCToken ==
    {Lit(c) : c \in {"i", "s", "2", "x"}}
        \cup {Num(n, 0) : n \in 1 .. 4} \cup {Str(n) : n \in {0, 2}}

Replies == {ScreenInfo(640, 480), KeepAlive} \cup {Hello(n) : n \in {3, 7, 9}}

MCJob ==
    Replies
        \cup {[tokens |-> ts, force_sz |-> 0] :
                ts \in UNION {[1 .. n -> MCToken] : n \in 0 .. 3}}
=============================================================================
