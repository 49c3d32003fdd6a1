--------------------------- MODULE ClipboardProofs ---------------------------
(***************************************************************************)
(* Proofs about Clipboard, for every set of texts, size of header and size *)
(* of chunk.                                                               *)
(***************************************************************************)
EXTENDS Clipboard, TLAPS

\* The pieces the actions put together are pieces, with the text they were
\* made of.
LEMMA PieceType ==
    ASSUME NEW t \in Text, NEW a \in Int, NEW b \in Int
    PROVE  /\ [text |-> t, from |-> a, to |-> b] \in Piece
           /\ AllOf(t) \in Piece /\ NoPiece \in Piece /\ OtherPiece \in Piece
           /\ AllOf(t).text = t
           /\ NoPiece.text = Nothing /\ OtherPiece.text = Other
BY ClipboardConstantsOK, SMT DEF Piece, AllOf, NoPiece, OtherPiece

\* The two pieces that hold nothing of a text are pieces.
LEMMA NoTextPiece ==
    /\ NoPiece \in Piece /\ NoPiece.text = Nothing
    /\ OtherPiece \in Piece /\ OtherPiece.text = Other
BY SMT DEF Piece, NoPiece, OtherPiece

\* The invariant holds when the program starts.
LEMMA InvInit == Init => ClipInv
<1> SUFFICES ASSUME Init PROVE ClipInv
  OBVIOUS
<1>1. TypeOK
  <2>1. /\ clp_id \in {0, 1} /\ next \in Int
        /\ at \in Calls \cup {"idle", "crashed"}
        /\ opened \in {"none", "self", "other"}
    BY SMT DEF Init, Calls
  <2>2. busy \in BOOLEAN /\ refused \in BOOLEAN /\ overtaken \in BOOLEAN
    BY Zenon DEF Init
  <2>3. QED
    BY <2>1, <2>2, NoTextPiece DEF Init, TypeOK
<1>2. Sending /\ Setting /\ Holding
  BY NoTextPiece DEF Init, Sending, Setting, Holding, Calls
<1>3. UpToDate
  BY Zenon DEF Init, UpToDate
<1>4. OnlyText
  BY NoTextPiece, ClipboardConstantsOK DEF Init, OnlyText
<1>5. QED
  BY <1>1, <1>2, <1>3, <1>4 DEF ClipInv

-----------------------------------------------------------------------------
(* The chunks.                                                             *)

\* A chunk with mark 1, which announces a text, keeps it.
LEMMA StartChunkInv ==
    ASSUME ClipInv, NEW id \in {0, 1}, NEW t \in Text, StartChunk(id, t)
    PROVE  ClipInv'
<1> USE DEF clipVars, ghosts
<1>1. /\ at' = at /\ piece' = piece /\ opened' = opened /\ clip' = clip
      /\ due' = due /\ busy' = busy /\ refused' = refused
      /\ overtaken' = overtaken
      /\ clp_id' = id /\ selected' = t /\ next' = 1 - HEADER
  BY DEF StartChunk, Dclp
<1>2. next' \in Int
  BY <1>1, ClipboardConstantsOK, SMT
<1>3. TypeOK'
  BY <1>1, <1>2, Zenon DEF ClipInv, TypeOK
<1>4. Sending'
  BY <1>1, ClipboardConstantsOK, SMT DEF Sending
<1>5. Setting' /\ Holding' /\ OnlyText' /\ UpToDate'
  BY <1>1 DEF ClipInv, Setting, Holding, OnlyText, UpToDate, AllOf, Short
<1>6. QED
  BY <1>3, <1>4, <1>5 DEF ClipInv

\* The end of a selection, by mark 3 or with the connection, keeps it.
LEMMA LeaveSelectionInv ==
    ASSUME ClipInv, EndChunk \/ Disconnect
    PROVE  ClipInv'
<1> USE DEF clipVars, ghosts
<1>1. /\ at' = at /\ piece' = piece /\ opened' = opened /\ clip' = clip
      /\ due' = due /\ busy' = busy /\ refused' = refused
      /\ overtaken' = overtaken
      /\ clp_id' = clp_id /\ selected' = Nothing /\ next' = next
  BY DEF EndChunk, Disconnect, Dclp
<1>2. TypeOK'
  BY <1>1, Zenon DEF ClipInv, TypeOK
<1>3. Sending' /\ Setting' /\ Holding' /\ OnlyText' /\ UpToDate'
  BY <1>1 DEF ClipInv, Sending, Setting, Holding, OnlyText, UpToDate, AllOf,
     Short
<1>4. QED
  BY <1>2, <1>3 DEF ClipInv

\* Where a chunk ends, and what of it is left without the first SKIP bytes.
LEMMA ChunkBounds ==
    ASSUME ClipInv, selected # Nothing, next <= LastByte(selected)
    PROVE  /\ selected \in Text /\ Length[selected] \in Nat
           /\ next \in Int /\ ChunkEnd \in Int /\ SKIP \in Nat
           /\ next <= ChunkEnd /\ 1 <= next + SKIP
           /\ SKIP <= ChunkEnd - next + 1 =>
                /\ ChunkEnd <= Length[selected]
                /\ next + SKIP <= ChunkEnd + 1
           /\ Short(selected) => /\ next + SKIP = 1
                                 /\ ChunkEnd = Length[selected]
                                 /\ SKIP <= ChunkEnd - next + 1
<1>1. selected \in Text /\ next \in Int
  BY DEF ClipInv, TypeOK
<1>2. Length[selected] \in Nat
  BY <1>1, ClipboardConstantsOK
<1>3. /\ HEADER \in Nat \ {0} /\ CHUNK \in Nat \ {0} /\ SKIP = HEADER
      /\ 1 - HEADER <= next
      /\ Short(selected) => next \in {1 - HEADER, Length[selected] + 1}
  BY ClipboardConstantsOK DEF ClipInv, Sending
<1>4. ChunkEnd \in Int /\ next <= ChunkEnd
  BY <1>1, <1>2, <1>3, SMT DEF ChunkEnd, LastByte
<1>5. SKIP <= ChunkEnd - next + 1 => ChunkEnd <= Length[selected]
  BY <1>1, <1>2, <1>3, SMT DEF ChunkEnd, LastByte
<1>6. ASSUME Short(selected)
      PROVE  /\ next + SKIP = 1
             /\ ChunkEnd = Length[selected]
             /\ SKIP <= ChunkEnd - next + 1
  BY <1>1, <1>2, <1>3, <1>6, SMT DEF Short, ChunkEnd, LastByte
<1>7. QED
  BY <1>1, <1>2, <1>3, <1>4, <1>5, <1>6, SMT

\* A chunk with mark 2 keeps it.
LEMMA DataChunkInv == ASSUME ClipInv, DataChunk PROVE ClipInv'
<1> USE DEF clipVars
<1> DEFINE taken == clp_id = 0 /\ SKIP <= ChunkEnd - next + 1
           p == [text |-> selected, from |-> next + SKIP, to |-> ChunkEnd]
<1>1. /\ at = "idle" /\ selected # Nothing /\ next <= LastByte(selected)
      /\ next' = ChunkEnd + 1
      /\ due' = IF clp_id = 0 THEN selected ELSE due
      /\ at' = IF taken THEN "alloc" ELSE at
      /\ piece' = IF taken THEN p ELSE piece
      /\ opened' = opened /\ clip' = clip
      /\ busy' = busy /\ refused' = refused /\ overtaken' = overtaken
      /\ clp_id' = clp_id /\ selected' = selected
  BY DEF DataChunk, Dclp
<1>2. /\ selected \in Text /\ Length[selected] \in Nat
      /\ next \in Int /\ ChunkEnd \in Int /\ SKIP \in Nat
      /\ next <= ChunkEnd /\ 1 <= next + SKIP
      /\ SKIP <= ChunkEnd - next + 1 =>
           /\ ChunkEnd <= Length[selected]
           /\ next + SKIP <= ChunkEnd + 1
      /\ Short(selected) => /\ next + SKIP = 1
                            /\ ChunkEnd = Length[selected]
                            /\ SKIP <= ChunkEnd - next + 1
  BY <1>1, ChunkBounds
<1>3. p \in Piece /\ p.text = selected /\ p.from = next + SKIP
      /\ p.to = ChunkEnd /\ (Short(selected) => p = AllOf(selected))
  BY <1>2, SMT DEF Piece, AllOf
<1>4. next' \in Int
  BY <1>1, <1>2, SMT
<1> HIDE DEF p
<1>5. TypeOK'
  BY <1>1, <1>2, <1>3, <1>4, Zenon DEF ClipInv, TypeOK, Calls
<1>6. Sending'
  <2>1. 1 - HEADER <= next
    BY <1>1 DEF ClipInv, Sending
  <2>2. 1 - HEADER <= next'
    BY <1>1, <1>2, <2>1, ClipboardConstantsOK, SMT
  <2>3. Short(selected) => next' = Length[selected] + 1
    BY <1>1, <1>2
  <2>4. QED
    BY <1>1, <2>2, <2>3 DEF Sending, Short
<1>7. CASE taken
  <2>1. at' = "alloc" /\ piece' = p /\ due' = selected
    BY <1>1, <1>7
  <2>2. Setting'
    BY <1>2, <1>3, <1>7, <2>1 DEF Setting, Short, AllOf
  <2>3. Holding'
    BY <1>1, <2>1 DEF ClipInv, Holding
  <2>4. OnlyText' /\ UpToDate'
    BY <1>1, <2>1 DEF ClipInv, OnlyText, UpToDate, Short, AllOf
  <2>5. QED
    BY <1>5, <1>6, <2>2, <2>3, <2>4 DEF ClipInv
<1>8. CASE ~taken
  <2>1. at' = "idle" /\ piece' = piece
    BY <1>1, <1>8
  <2>2. Setting' /\ Holding'
    BY <1>1, <2>1 DEF ClipInv, Setting, Holding, Calls
  <2>3. OnlyText'
    BY <1>1, <2>1 DEF ClipInv, OnlyText, Short, AllOf
  <2>4. CASE clp_id = 0
    <3>1. ~Short(selected) /\ due' = selected
      BY <1>1, <1>2, <1>8, <2>4
    <3>2. UpToDate'
      BY <3>1 DEF UpToDate, Short
    <3>3. QED
      BY <1>5, <1>6, <2>2, <2>3, <3>2 DEF ClipInv
  <2>5. CASE clp_id # 0
    <3>1. due' = due
      BY <1>1, <2>5
    <3>2. UpToDate'
      BY <1>1, <2>1, <3>1 DEF ClipInv, UpToDate, Short, AllOf
    <3>3. QED
      BY <1>5, <1>6, <2>2, <2>3, <3>2 DEF ClipInv
  <2>6. QED
    BY <2>4, <2>5
<1>9. QED
  BY <1>7, <1>8
-----------------------------------------------------------------------------
(* osio_set_clipboard.                                                     *)

\* GlobalAlloc keeps it, with a block or without.
LEMMA AllocInv ==
    ASSUME ClipInv, GlobalAlloc \/ GlobalAllocFails
    PROVE  ClipInv'
<1> USE DEF serverVars, clipVars, ghosts
<1>1. /\ at = "alloc" /\ at' \in {"open", "crashed"}
      /\ clp_id' = clp_id /\ selected' = selected /\ next' = next
      /\ piece' = piece /\ opened' = opened /\ clip' = clip
      /\ due' = due /\ busy' = busy /\ refused' = refused
      /\ overtaken' = overtaken
  BY Zenon DEF GlobalAlloc, GlobalAllocFails
<1>2. TypeOK'
  BY <1>1, Zenon DEF ClipInv, TypeOK, Calls
<1>3. Sending' /\ Setting' /\ Holding'
  BY <1>1 DEF ClipInv, Sending, Setting, Holding, Short, AllOf, Calls
<1>4. OnlyText' /\ UpToDate'
  BY <1>1 DEF ClipInv, OnlyText, UpToDate, Short, AllOf
<1>5. QED
  BY <1>2, <1>3, <1>4 DEF ClipInv

\* OpenClipboard keeps it, whoever has the clipboard open.
LEMMA OpenClipboardInv == ASSUME ClipInv, OpenClipboard PROVE ClipInv'
<1> USE DEF serverVars
<1>1. /\ at = "open" /\ at' = "empty"
      /\ opened' = IF opened = "none" THEN "self" ELSE opened
      /\ clp_id' = clp_id /\ selected' = selected /\ next' = next
      /\ piece' = piece /\ clip' = clip /\ due' = due /\ refused' = refused
  BY DEF OpenClipboard
<1>2. /\ busy' \in BOOLEAN /\ overtaken' \in BOOLEAN
      /\ busy' <=> opened # "none"
  BY Zenon DEF OpenClipboard
<1>3. TypeOK /\ opened \in {"none", "other"}
  BY <1>1 DEF ClipInv, TypeOK, Holding
<1>4. TypeOK'
  <2>1. opened' \in {"none", "self", "other"}
    BY <1>1, <1>3
  <2>2. QED
    BY <1>1, <1>2, <1>3, <2>1, Zenon DEF TypeOK, Calls
<1>5. Sending' /\ Setting'
  BY <1>1 DEF ClipInv, Sending, Setting, Short, AllOf, Calls
<1>6. opened' = "self" <=> ~busy'
  BY <1>1, <1>2, <1>3
<1>7. Holding'
  BY <1>1, <1>6 DEF Holding
<1>8. OnlyText' /\ UpToDate'
  BY <1>1, <1>3 DEF ClipInv, OnlyText, UpToDate, Short, AllOf
<1>9. QED
  BY <1>4, <1>5, <1>7, <1>8 DEF ClipInv

\* EmptyClipboard keeps it.
LEMMA EmptyClipboardInv == ASSUME ClipInv, EmptyClipboard PROVE ClipInv'
<1> USE DEF serverVars, ghosts
<1>1. /\ at = "empty" /\ at' = "set"
      /\ clip' = IF opened = "self" THEN NoPiece ELSE clip
      /\ clp_id' = clp_id /\ selected' = selected /\ next' = next
      /\ piece' = piece /\ opened' = opened /\ due' = due
      /\ busy' = busy /\ refused' = refused /\ overtaken' = overtaken
  BY DEF EmptyClipboard
<1>2. TypeOK'
  <2>1. clip' \in Piece
    BY <1>1, NoTextPiece DEF ClipInv, TypeOK
  <2>2. QED
    BY <1>1, <2>1, Zenon DEF ClipInv, TypeOK, Calls
<1>3. Sending' /\ Setting'
  BY <1>1 DEF ClipInv, Sending, Setting, Short, AllOf, Calls
<1>4. Holding'
  BY <1>1, NoTextPiece DEF ClipInv, Holding
<1>5. OnlyText' /\ UpToDate'
  BY <1>1 DEF ClipInv, OnlyText, UpToDate, Short, AllOf
<1>6. QED
  BY <1>2, <1>3, <1>4, <1>5 DEF ClipInv

\* SetClipboardData keeps it, whether it succeeds, fails, or is called
\* without the clipboard.
LEMMA SetClipboardDataInv == ASSUME ClipInv, SetClipboardData PROVE ClipInv'
<1> USE DEF serverVars
<1>1. /\ at = "set" /\ at' = "close"
      /\ clp_id' = clp_id /\ selected' = selected /\ next' = next
      /\ piece' = piece /\ opened' = opened /\ due' = due
      /\ busy' = busy /\ overtaken' = overtaken
  BY DEF SetClipboardData
<1>2. \/ opened = "self" /\ clip' = piece /\ refused' = FALSE
      \/ opened = "self" /\ clip' = clip /\ refused' = TRUE
      \/ opened # "self" /\ clip' = clip /\ refused' = refused
  BY Zenon DEF SetClipboardData
<1>3. refused' \in BOOLEAN
  BY <1>2, Zenon DEF ClipInv, TypeOK
<1>4. opened = "self" <=> ~busy
  BY <1>1 DEF ClipInv, Holding
<1>5. TypeOK'
  <2>1. clip' \in Piece
    BY <1>2 DEF ClipInv, TypeOK
  <2>2. QED
    BY <1>1, <1>3, <2>1, Zenon DEF ClipInv, TypeOK, Calls
<1>6. Sending' /\ Setting'
  BY <1>1 DEF ClipInv, Sending, Setting, Short, AllOf, Calls
<1>7. Holding'
  BY <1>1, <1>2, <1>4 DEF ClipInv, Holding
<1>8. OnlyText' /\ UpToDate'
  BY <1>1, <1>2 DEF ClipInv, OnlyText, UpToDate, Short, AllOf
<1>9. QED
  BY <1>5, <1>6, <1>7, <1>8 DEF ClipInv

\* CloseClipboard keeps it.
LEMMA CloseClipboardInv == ASSUME ClipInv, CloseClipboard PROVE ClipInv'
<1> USE DEF serverVars, ghosts
<1>1. /\ at = "close" /\ at' = "idle"
      /\ opened' = IF opened = "self" THEN "none" ELSE opened
      /\ clp_id' = clp_id /\ selected' = selected /\ next' = next
      /\ piece' = piece /\ clip' = clip /\ due' = due
      /\ busy' = busy /\ refused' = refused /\ overtaken' = overtaken
  BY DEF CloseClipboard
<1>2. TypeOK'
  <2>1. opened' \in {"none", "self", "other"}
    BY <1>1 DEF ClipInv, TypeOK
  <2>2. QED
    BY <1>1, <2>1, Zenon DEF ClipInv, TypeOK
<1>3. Sending' /\ Setting' /\ Holding'
  BY <1>1 DEF ClipInv, Sending, Setting, Holding, Short, AllOf, Calls
<1>4. /\ opened = "self" <=> ~busy
      /\ ~busy /\ ~refused => clip = piece
      /\ ~busy /\ refused => clip.text = Nothing
  BY <1>1 DEF ClipInv, Holding
<1>5. /\ piece.text = due /\ due \in Text
      /\ 1 <= piece.from /\ piece.from <= piece.to + 1
      /\ piece.to <= Length[due]
      /\ Short(due) => piece = AllOf(due)
  BY <1>1 DEF ClipInv, Setting, Calls
<1>6. OnlyText'
  <2>1. CASE busy
    BY <1>1, <1>4, <2>1 DEF ClipInv, OnlyText, Short, AllOf
  <2>2. CASE ~busy /\ refused
    BY <1>1, <1>4, <2>2, ClipboardConstantsOK DEF OnlyText
  <2>3. CASE ~busy /\ ~refused
    BY <1>1, <1>4, <1>5, <2>3, ClipboardConstantsOK
       DEF OnlyText, Short, AllOf
  <2>4. QED
    BY <2>1, <2>2, <2>3
<1>7. UpToDate'
  BY <1>1, <1>4, <1>5 DEF UpToDate, Short, AllOf
<1>8. QED
  BY <1>2, <1>3, <1>6, <1>7 DEF ClipInv

\* Nothing another program does with the clipboard breaks it.
LEMMA OtherInv ==
    ASSUME ClipInv, OtherOpens \/ OtherSets \/ OtherCloses
    PROVE  ClipInv'
<1> USE DEF serverVars, ghosts
<1>1. /\ opened \in {"none", "other"} /\ opened' \in {"none", "other"}
      /\ at' = at /\ piece' = piece /\ due' = due
      /\ busy' = busy /\ refused' = refused
      /\ clp_id' = clp_id /\ selected' = selected /\ next' = next
  BY DEF OtherOpens, OtherSets, OtherCloses
<1>2. \/ clip' = clip /\ overtaken' = overtaken
      \/ clip' = OtherPiece /\ overtaken' = TRUE
  BY Zenon DEF OtherOpens, OtherSets, OtherCloses
<1>3. overtaken' \in BOOLEAN
  BY <1>2, Zenon DEF ClipInv, TypeOK
<1>4. TypeOK'
  BY <1>1, <1>2, <1>3, NoTextPiece, Zenon DEF ClipInv, TypeOK
<1>5. Sending' /\ Setting'
  BY <1>1 DEF ClipInv, Sending, Setting, Short, AllOf
<1>6. Holding'
  <2>1. at \in {"empty", "set", "close"} => busy
    BY <1>1 DEF ClipInv, Holding
  <2>2. QED
    BY <1>1, <2>1 DEF Holding
<1>7. OnlyText'
  BY <1>1, <1>2, NoTextPiece, ClipboardConstantsOK
     DEF ClipInv, OnlyText, Short, AllOf
<1>8. UpToDate'
  <2>1. CASE clip' = clip /\ overtaken' = overtaken
    BY <1>1, <2>1 DEF ClipInv, UpToDate, Short, AllOf
  <2>2. CASE clip' = OtherPiece /\ overtaken' = TRUE
    BY <2>2, Zenon DEF UpToDate
  <2>3. QED
    BY <1>2, <2>1, <2>2
<1>9. QED
  BY <1>4, <1>5, <1>6, <1>7, <1>8 DEF ClipInv

\* Every step keeps the invariant.
LEMMA InvStep == ASSUME ClipInv, [Next]_vars PROVE ClipInv'
<1>1. CASE UNCHANGED vars
  BY <1>1 DEF vars, ClipInv, TypeOK, Sending, Setting, Holding, OnlyText,
     UpToDate, Short, AllOf
<1>2. QED
  BY <1>1, StartChunkInv, LeaveSelectionInv, DataChunkInv, AllocInv,
     OpenClipboardInv, EmptyClipboardInv, SetClipboardDataInv,
     CloseClipboardInv, OtherInv DEF Next

-----------------------------------------------------------------------------
(* The theorems.                                                           *)

\* What is sent and set at each call (synproto.c:252-292,
\* osio_win.c:763-809), for every text and every way a selection is cut up.
THEOREM Invariant == Spec => []ClipInv
<1>1. Init => ClipInv
  BY InvInit
<1>2. ClipInv /\ [Next]_vars => ClipInv'
  BY InvStep
<1>3. QED
  BY <1>1, <1>2, PTL DEF Spec

\* A text that fits in one chunk is on the clipboard when osio_set_clipboard
\* has returned, unless another program or a failure of Windows kept it off,
\* for every length of header, chunk and text (synproto.c:252-292,
\* osio_win.c:763-809).
THEOREM AlwaysUpToDate == Spec => []UpToDate
<1>1. ClipInv => UpToDate
  BY DEF ClipInv
<1>2. QED
  BY <1>1, Invariant, PTL

\* Other programs find bytes of the server's text and none of its header, all
\* of them if the text is short, and an emptied clipboard only where Windows
\* did not take the text (synproto.c:283-292, osio_win.c:803-806).
THEOREM AlwaysOnlyText == Spec => []OnlyText
<1>1. ClipInv => OnlyText
  BY DEF ClipInv
<1>2. QED
  BY <1>1, Invariant, PTL

\* The clipboard is never left open.
THEOREM NeverLeftOpen == Spec => []NotLeftOpen
<1>1. ClipInv => NotLeftOpen
  <2>1. ASSUME ClipInv, at \notin Calls PROVE opened # "self"
    BY <2>1 DEF ClipInv, TypeOK, Holding
  <2>2. QED
    BY <2>1 DEF NotLeftOpen
<1>2. QED
  BY <1>1, Invariant, PTL
=============================================================================
