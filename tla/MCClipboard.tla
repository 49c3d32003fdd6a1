----------------------------- MODULE MCClipboard -----------------------------
(***************************************************************************)
(* Texts of every length that a header of 3 bytes and chunks of 5 tell     *)
(* apart: none, one that fits, and longer ones whose last chunk is shorter *)
(* than a header, as long, and longer.                                     *)
(***************************************************************************)
EXTENDS Clipboard

MCText == {"none", "short", "full", "tail1", "tail3", "tail4", "twice"}

MCLength ==
    [t \in MCText |->
        CASE t = "none" -> 0
          [] t = "short" -> 1
          [] t = "full" -> 2
          [] t = "tail1" -> 3
          [] t = "tail3" -> 5
          [] t = "tail4" -> 6
          [] t = "twice" -> 12]
==============================================================================
