------------------------------ MODULE Clipboard ------------------------------
(***************************************************************************)
(* What the server's clipboard becomes on Windows: the chunks of DCLP, the *)
(* one case of synproto_parse_and_reply for them, osio_set_clipboard call  *)
(* by call, and other programs that use the clipboard meanwhile.           *)
(*                                                                         *)
(* A selection is a header of HEADER bytes and a text, numbered on from    *)
(* 1 - HEADER so that the text begins with byte 1; a server without a text *)
(* sends less than a header.  A piece of it is known by its first and last *)
(* byte.  Chunks arrive in order and one at a time (Netio, SynStream), so  *)
(* sending one and parsing it are one step.  A program that does not have  *)
(* the clipboard open cannot change it, and one that has may fail to set   *)
(* it.                                                                     *)
(***************************************************************************)
EXTENDS Integers

CONSTANTS
    Text,       \* what can be selected at the server
    Length,     \* Length[t]: the bytes of t
    HEADER,     \* bytes before the text in a selection
    CHUNK,      \* bytes of a selection in one packet, at most
    SKIP,       \* DCLP_BUF_START, less the 18 bytes before the selection
    Nothing,    \* an empty clipboard
    Other       \* what another program has set

ASSUME ClipboardConstantsOK ==
    /\ Length \in [Text -> Nat]
    /\ HEADER \in Nat \ {0}
    /\ CHUNK \in Nat \ {0}
    /\ SKIP = HEADER
    /\ Nothing \notin Text
    /\ Other \notin Text /\ Other # Nothing

VARIABLES
    clp_id,     \* the selection the server is sending: 0 or 1
    selected,   \* its text, or Nothing between selections
    next,       \* the first byte of the next chunk
    at,         \* where osio_set_clipboard is
    piece,      \* what it was called with
    opened,     \* who has the clipboard open
    clip,       \* what is on it
    due,        \* the text of the last chunk of selection 0
    busy,       \* another program had the clipboard open then
    refused,    \* SetClipboardData failed when it was last open to this one
    overtaken   \* another program has set it since

vars == <<clp_id, selected, next, at, piece, opened, clip, due, busy,
          refused, overtaken>>

serverVars == <<clp_id, selected, next>>
clipVars == <<opened, clip>>
ghosts == <<due, busy, refused, overtaken>>

Calls == {"alloc", "open", "empty", "set", "close"}

Piece == [text : Text \cup {Nothing, Other}, from : Int, to : Int]

AllOf(t) == [text |-> t, from |-> 1, to |-> Length[t]]
NoPiece == [text |-> Nothing, from |-> 0, to |-> 0]
OtherPiece == [text |-> Other, from |-> 0, to |-> 0]

TypeOK ==
    /\ clp_id \in {0, 1}
    /\ selected \in Text \cup {Nothing}
    /\ next \in Int
    /\ at \in Calls \cup {"idle", "crashed"}
    /\ piece \in Piece
    /\ opened \in {"none", "self", "other"}
    /\ clip \in Piece
    /\ due \in Text \cup {Nothing}
    /\ busy \in BOOLEAN
    /\ refused \in BOOLEAN
    /\ overtaken \in BOOLEAN

Init ==
    /\ clp_id = 0
    /\ selected = Nothing
    /\ next = 0
    /\ at = "idle"
    /\ piece = NoPiece
    /\ opened = "none"
    /\ clip = OtherPiece
    /\ due = Nothing
    /\ busy = FALSE
    /\ refused = FALSE
    /\ overtaken = FALSE

-----------------------------------------------------------------------------
(* DCLP: the server sends a chunk, synproto_parse_and_reply looks at it.   *)

\* Mutant: the other selection is taken as well.
DclpOfAnySelection(id, mark, t, from, to) ==
    IF mark = 2 /\ SKIP <= to - from + 1
      THEN /\ at' = "alloc"
           /\ piece' = [text |-> t, from |-> from + SKIP, to |-> to]
      ELSE UNCHANGED <<at, piece>>

\* Mutant: the bytes of the chunk from the header on.
DclpWithHeader(id, mark, t, from, to) ==
    IF id = 0 /\ mark = 2 /\ SKIP <= to - from + 1
      THEN /\ at' = "alloc"
           /\ piece' = [text |-> t, from |-> from, to |-> to]
      ELSE UNCHANGED <<at, piece>>

\* Ignored, too short (an error is shown, see WinLoop), or set.
Dclp(id, mark, t, from, to) ==
    IF id = 0 /\ mark = 2 /\ SKIP <= to - from + 1
      THEN /\ at' = "alloc"
           /\ piece' = [text |-> t, from |-> from + SKIP, to |-> to]
      ELSE UNCHANGED <<at, piece>>

LastByte(t) == IF Length[t] = 0 THEN 1 - HEADER ELSE Length[t]

\* Mark 1: the digits of the size, fewer than SKIP.
StartChunk(id, t) ==
    /\ at = "idle"
    /\ selected = Nothing
    /\ clp_id' = id
    /\ selected' = t
    /\ next' = 1 - HEADER
    /\ Dclp(id, 1, t, 1, 1)
    /\ UNCHANGED <<clipVars, ghosts>>

ChunkEnd ==
    IF next + CHUNK - 1 <= LastByte(selected)
      THEN next + CHUNK - 1 ELSE LastByte(selected)

\* Mark 2.
DataChunk ==
    /\ at = "idle"
    /\ selected # Nothing
    /\ next <= LastByte(selected)
    /\ Dclp(clp_id, 2, selected, next, ChunkEnd)
    /\ next' = ChunkEnd + 1
    /\ due' = IF clp_id = 0 THEN selected ELSE due
    /\ UNCHANGED <<clp_id, selected, clipVars, busy, refused, overtaken>>

\* Mark 3.
EndChunk ==
    /\ at = "idle"
    /\ selected # Nothing
    /\ next > LastByte(selected)
    /\ Dclp(clp_id, 3, selected, 1, 0)
    /\ selected' = Nothing
    /\ UNCHANGED <<clp_id, next, clipVars, ghosts>>

\* The rest of a selection is lost with the connection.
Disconnect ==
    /\ at = "idle"
    /\ selected # Nothing
    /\ selected' = Nothing
    /\ UNCHANGED <<clp_id, next, at, piece, clipVars, ghosts>>

-----------------------------------------------------------------------------
(* osio_set_clipboard.                                                     *)

GlobalAlloc ==
    /\ at = "alloc"
    /\ at' = "open"
    /\ UNCHANGED <<serverVars, piece, clipVars, ghosts>>

\* The error is shown, and then the text is copied to a null handle.
GlobalAllocFails ==
    /\ at = "alloc"
    /\ at' = "crashed"
    /\ UNCHANGED <<serverVars, piece, clipVars, ghosts>>

\* Its result is not looked at.
OpenClipboard ==
    /\ at = "open"
    /\ opened' = IF opened = "none" THEN "self" ELSE opened
    /\ busy' = (opened # "none")
    /\ overtaken' = FALSE
    /\ at' = "empty"
    /\ UNCHANGED <<serverVars, piece, clip, due, refused>>

EmptyClipboard ==
    /\ at = "empty"
    /\ clip' = IF opened = "self" THEN NoPiece ELSE clip
    /\ at' = "set"
    /\ UNCHANGED <<serverVars, piece, opened, ghosts>>

\* The system owns the memory now, if the call succeeds; nobody does if it
\* fails, or if another program has the clipboard open.
SetClipboardData ==
    /\ at = "set"
    /\ \/ opened = "self" /\ clip' = piece /\ refused' = FALSE
       \/ opened = "self" /\ clip' = clip /\ refused' = TRUE
       \/ opened # "self" /\ UNCHANGED <<clip, refused>>
    /\ at' = "close"
    /\ UNCHANGED <<serverVars, piece, opened, due, busy, overtaken>>

\* Mutant: the clipboard is not closed.
ReturnWithoutClose ==
    /\ at = "close"
    /\ at' = "idle"
    /\ UNCHANGED <<serverVars, piece, clipVars, ghosts>>

CloseClipboard ==
    /\ at = "close"
    /\ opened' = IF opened = "self" THEN "none" ELSE opened
    /\ at' = "idle"
    /\ UNCHANGED <<serverVars, piece, clip, ghosts>>

-----------------------------------------------------------------------------
(* Other programs, one of which at a time can have the clipboard open.     *)

OtherOpens ==
    /\ opened = "none"
    /\ opened' = "other"
    /\ UNCHANGED <<serverVars, at, piece, clip, ghosts>>

OtherSets ==
    /\ opened = "other"
    /\ clip' = OtherPiece
    /\ overtaken' = TRUE
    /\ UNCHANGED <<serverVars, at, piece, opened, due, busy, refused>>

OtherCloses ==
    /\ opened = "other"
    /\ opened' = "none"
    /\ UNCHANGED <<serverVars, at, piece, clip, ghosts>>

Next ==
    \/ \E id \in {0, 1}, t \in Text : StartChunk(id, t)
    \/ DataChunk
    \/ EndChunk
    \/ Disconnect
    \/ GlobalAlloc
    \/ GlobalAllocFails
    \/ OpenClipboard
    \/ EmptyClipboard
    \/ SetClipboardData
    \/ CloseClipboard
    \/ OtherOpens
    \/ OtherSets
    \/ OtherCloses

Spec == Init /\ [][Next]_vars

-----------------------------------------------------------------------------
(* Properties.                                                             *)

\* A text that one chunk holds.
Short(t) == 0 < Length[t] /\ HEADER + Length[t] <= CHUNK

\* A text that fits in one chunk is on the clipboard, whole and without its
\* header, once its chunk was parsed, whatever else the server has sent
\* before or after it.  The exceptions: another program had the clipboard open
\* at that moment, SetClipboardData failed, or another program has set the
\* clipboard since (synproto.c:252-292, osio_win.c:763-809).
UpToDate ==
    at = "idle" /\ due # Nothing /\ ~busy /\ ~refused /\ ~overtaken
        /\ Short(due) => clip = AllOf(due)

\* What other programs find there is something, unless SetClipboardData has
\* failed on the clipboard it had emptied; and of a text of the server it is
\* bytes of that text and none of its header or of what follows, all of them
\* if the text fits in one chunk.  Of a longer text it may be any part, also
\* none, a text of length 0: that of a chunk exactly as long as what the code
\* takes for a header (synproto.c:283-292, osio_win.c:803-806).
OnlyText ==
    opened # "self" =>
        /\ clip.text = Nothing => refused
        /\ clip.text \in Text =>
            /\ 1 <= clip.from /\ clip.from <= clip.to + 1
            /\ clip.to <= Length[clip.text]
            /\ Short(clip.text) => clip = AllOf(clip.text)

\* The clipboard is not kept from other programs while the client does
\* something else, or after it has crashed.
NotLeftOpen == at \notin Calls => opened # "self"

-----------------------------------------------------------------------------
(* The invariant that is inductive.                                        *)

\* A text that fits in one chunk is sent in one.
Sending ==
    selected # Nothing =>
        /\ 1 - HEADER <= next
        /\ Short(selected) => next \in {1 - HEADER, Length[selected] + 1}

\* What is being set is text, and all of it if it fits in one chunk.
Setting ==
    at \in Calls =>
        /\ piece.text = due
        /\ due \in Text
        /\ 1 <= piece.from /\ piece.from <= piece.to + 1
        /\ piece.to <= Length[due]
        /\ Short(due) => piece = AllOf(due)

\* Who has the clipboard open at each call, and what is on it.
Holding ==
    /\ at \in {"idle", "crashed", "alloc", "open"} => opened # "self"
    /\ at \in {"empty", "set", "close"} => (opened = "self" <=> ~busy)
    /\ at = "set" /\ ~busy => clip.text = Nothing
    /\ at = "close" /\ ~busy /\ ~refused => clip = piece
    /\ at = "close" /\ ~busy /\ refused => clip.text = Nothing

ClipInv ==
    /\ TypeOK
    /\ Sending
    /\ Setting
    /\ Holding
    /\ OnlyText
    /\ UpToDate
=============================================================================
