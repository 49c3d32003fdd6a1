------------------------------ MODULE WinProofs ------------------------------
(***************************************************************************)
(* Proofs about WinLoop, for every depth of nested calls, size of buffer,  *)
(* set of packets and width of a word that the assumptions allow: what     *)
(* holds of the packet buffer although a call of minput_loop_iter may find *)
(* it changed by another, started from the dialog the first waits for.     *)
(***************************************************************************)
EXTENDS WinLoop, NetioProofs

\* Places in a sequence of m elements.
LEMMA WinPlaces ==
    ASSUME NEW m \in Nat
    PROVE  /\ \A k \in 1 .. m : k \in 1 .. m - 1 \/ k = m
           /\ \A k \in 1 .. m + 1 : k \in 1 .. m \/ k = m + 1
           /\ \A k \in 1 .. m - 1 : k \in 1 .. m
           /\ \A k \in 1 .. m : k \in 1 .. m + 1
           /\ \A k \in 1 .. (m - 1) - 1 : k \in 1 .. m - 1
           /\ \A k \in 1 .. (m + 1) - 1 : k \in 1 .. m
           /\ 1 <= m => m \in 1 .. m
           /\ m - 1 \in Nat /\ m - 1 # 0 => m - 1 \in 1 .. m - 1
BY SMT

\* An element put behind a sequence.
LEMMA WinAppend ==
    ASSUME NEW R, NEW o \in Seq(R), NEW f \in R, NEW t, t = Append(o, f)
    PROVE  /\ t \in Seq(R)
           /\ t # << >>
           /\ Len(t) = Len(o) + 1
           /\ t[Len(o) + 1] = f
           /\ \A k \in 1 .. Len(o) : t[k] = o[k]
BY AppendProperties

\* The frames, seen as a sequence whose last element is the innermost call.
LEMMA WinStack ==
    ASSUME frames \in Seq(Frame), frames # << >>
    PROVE  /\ Len(frames) \in Nat /\ 1 <= Len(frames)
           /\ DOMAIN frames = 1 .. Len(frames)
           /\ Inner \in Frame
           /\ Outer \in Seq(Frame)
           /\ Len(Outer) = Len(frames) - 1
           /\ \A k \in 1 .. Len(frames) - 1 : Outer[k] = frames[k]
<1> DEFINE R == Frame
<1>1. frames \in Seq(R)
  OBVIOUS
<1> HIDE DEF R
<1>2. Len(frames) \in Nat /\ Len(frames) # 0 /\ DOMAIN frames = 1 .. Len(frames)
  BY <1>1, EmptySeq, LenProperties, SMT
<1>3. Inner \in R
  <2>1. Len(frames) \in 1 .. Len(frames)
    BY <1>2, SMT
  <2>2. QED
    BY <1>1, <2>1, ElementOfSeq DEF Inner
<1>4. /\ Outer \in Seq(R)
      /\ Len(Outer) = Len(frames) - 1
      /\ \A k \in 1 .. Len(frames) - 1 : Outer[k] = frames[k]
  BY <1>1, <1>2, SMT DEF Outer
<1>5. QED
  BY <1>2, <1>3, <1>4, SMT DEF R

\* The innermost call goes on, and the others stay where they are.
LEMMA WinGoOn ==
    ASSUME frames \in Seq(Frame), frames # << >>, Nested, Counted,
           NEW f \in Frame, frames' = Append(Outer, f),
           f.at # "check" => f.iter < PKT_PROC_PER_LOOP
    PROVE  /\ frames' \in Seq(Frame)
           /\ frames' # << >>
           /\ Inner' = f
           /\ (\A k \in 1 .. Len(frames) - 1 : frames[k].at \in Dialogs)'
           /\ Counted'
           /\ OverflowShown /\ Inner.at # "overflow" => OverflowShown'
           /\ f.at = "overflow" => OverflowShown'
<1> DEFINE R == Frame
<1>1. f \in R
  OBVIOUS
<1>2. /\ Len(frames) \in Nat /\ 1 <= Len(frames)
      /\ DOMAIN frames = 1 .. Len(frames)
      /\ Outer \in Seq(R)
      /\ Len(Outer) = Len(frames) - 1
      /\ \A k \in 1 .. Len(frames) - 1 : Outer[k] = frames[k]
  BY WinStack
<1> HIDE DEF R
<1>3. /\ frames' \in Seq(R)
      /\ Len(frames') = Len(frames)
      /\ frames'[Len(frames)] = f
      /\ \A k \in 1 .. Len(frames) - 1 : frames'[k] = Outer[k]
      /\ frames' # << >>
  <2>1. Len(Outer) + 1 = Len(frames)
    BY <1>2, SMT
  <2>2. \A k \in 1 .. Len(frames) - 1 : k \in 1 .. Len(Outer)
    BY <1>2
  <2>3. Outer \in Seq(R)
    BY <1>2
  <2>4. /\ frames' \in Seq(R)
        /\ frames' # << >>
        /\ Len(frames') = Len(Outer) + 1
        /\ frames'[Len(Outer) + 1] = f
        /\ \A k \in 1 .. Len(Outer) : frames'[k] = Outer[k]
    BY <1>1, <2>3, WinAppend
  <2>5. QED
    BY <2>1, <2>2, <2>4, Zenon
<1>4. DOMAIN frames' = 1 .. Len(frames)
  BY <1>3, LenProperties, Zenon
<1>5. frames' # << >>
  BY <1>3
<1>6. Inner' = f
  BY <1>3 DEF Inner
<1>7. \A k \in 1 .. Len(frames) - 1 : frames'[k] = frames[k]
  BY <1>2, <1>3
<1>8. \A k \in 1 .. Len(frames') - 1 : frames'[k].at \in Dialogs
  BY <1>3, <1>7 DEF Nested
<1>9. \A k \in 1 .. Len(frames) : k \in 1 .. Len(frames) - 1 \/ k = Len(frames)
  BY <1>2, WinPlaces, Zenon
<1>10. Counted'
  BY <1>2, <1>3, <1>4, <1>7, <1>9, Zenon DEF Counted
<1>11. OverflowShown /\ Inner.at # "overflow" => OverflowShown'
  BY <1>2, <1>4, <1>7, <1>9, Zenon DEF OverflowShown, Inner
<1>12. f.at = "overflow" => OverflowShown'
  <2>1. Len(frames) \in DOMAIN frames'
    BY <1>2, <1>4, WinPlaces, Zenon
  <2>2. QED
    BY <1>3, <2>1 DEF OverflowShown
<1>13. QED
  BY <1>3, <1>5, <1>6, <1>8, <1>10, <1>11, <1>12 DEF R

\* The innermost call returns, to the dialog the next one waits for.
LEMMA WinReturn ==
    ASSUME frames \in Seq(Frame), frames # << >>, Nested, Counted,
           frames' = Outer
    PROVE  /\ frames' \in Seq(Frame)
           /\ (\A k \in 1 .. Len(frames) - 1 : frames[k].at \in Dialogs)'
           /\ Counted'
           /\ frames' # << >> => Inner'.at \in Dialogs
           /\ OverflowShown /\ Inner.at # "overflow" => OverflowShown'
<1>1. /\ Len(frames) \in Nat /\ 1 <= Len(frames)
      /\ DOMAIN frames = 1 .. Len(frames)
      /\ Outer \in Seq(Frame)
      /\ Len(Outer) = Len(frames) - 1
      /\ \A k \in 1 .. Len(frames) - 1 : Outer[k] = frames[k]
  BY WinStack
<1>2. /\ DOMAIN frames' = 1 .. Len(frames) - 1
      /\ Len(frames') = Len(frames) - 1
      /\ \A k \in 1 .. Len(frames) - 1 : frames'[k] = frames[k]
  BY <1>1, LenProperties
<1>3. \A k \in 1 .. Len(frames') - 1 : k \in 1 .. Len(frames) - 1
  BY <1>1, <1>2, WinPlaces, Zenon
<1>4. \A k \in 1 .. Len(frames') - 1 : frames'[k].at \in Dialogs
  BY <1>2, <1>3, Zenon DEF Nested
<1>5. \A k \in 1 .. Len(frames) - 1 : k \in 1 .. Len(frames)
  BY <1>1, WinPlaces, Zenon
<1>6. Counted'
  BY <1>1, <1>2, <1>5, Zenon DEF Counted
<1>7. ASSUME frames' # << >> PROVE Inner'.at \in Dialogs
  <2>1. Len(frames') # 0
    BY <1>1, <1>7, EmptySeq
  <2>2. Len(frames') \in 1 .. Len(frames) - 1
    <3>1. Len(frames) - 1 # 0
      BY <1>2, <2>1
    <3>2. Len(frames) - 1 \in Nat
      BY <1>1, SMT
    <3>3. QED
      BY <1>1, <1>2, <3>1, <3>2, WinPlaces, Zenon
  <2>3. frames'[Len(frames')].at \in Dialogs
    BY <1>2, <2>2, Zenon DEF Nested
  <2>4. QED
    BY <2>3 DEF Inner
<1>8. \A k \in 1 .. Len(frames) : k \in 1 .. Len(frames) - 1 \/ k = Len(frames)
  BY <1>1, WinPlaces, Zenon
<1>9. OverflowShown /\ Inner.at # "overflow" => OverflowShown'
  BY <1>1, <1>2, <1>8, Zenon DEF OverflowShown, Inner
<1>10. QED
  BY <1>1, <1>4, <1>6, <1>7, <1>9

\* A call that starts when all others wait for a dialog.
LEMMA WinCall ==
    ASSUME frames \in Seq(Frame), Nested, Counted,
           frames # << >> => Inner.at \in Dialogs,
           NEW f \in Frame, frames' = Append(frames, f),
           f.iter < PKT_PROC_PER_LOOP
    PROVE  /\ frames' \in Seq(Frame)
           /\ frames' # << >>
           /\ (\A k \in 1 .. Len(frames) - 1 : frames[k].at \in Dialogs)'
           /\ Counted'
           /\ OverflowShown => OverflowShown'
<1> DEFINE R == Frame
<1>1. f \in R /\ frames \in Seq(R)
  OBVIOUS
<1> HIDE DEF R
<1>2. Len(frames) \in Nat /\ DOMAIN frames = 1 .. Len(frames)
  BY <1>1, LenProperties
<1>3. /\ frames' \in Seq(R)
      /\ Len(frames') = Len(frames) + 1
      /\ frames'[Len(frames) + 1] = f
      /\ \A k \in 1 .. Len(frames) : frames'[k] = frames[k]
      /\ frames' # << >>
  <2> DEFINE t == Append(frames, f)
  <2>1. /\ t \in Seq(R)
        /\ Len(t) = Len(frames) + 1
        /\ t[Len(frames) + 1] = f
        /\ \A k \in 1 .. Len(frames) : t[k] = frames[k]
        /\ t # << >>
    BY <1>1, AppendProperties
  <2>2. frames' = t
    OBVIOUS
  <2> HIDE DEF t
  <2>3. QED
    BY <2>1, <2>2
<1>4. DOMAIN frames' = 1 .. Len(frames) + 1
  BY <1>3, LenProperties, Zenon
<1>5. frames' # << >>
  BY <1>3
<1>6. \A k \in 1 .. Len(frames) + 1 : k \in 1 .. Len(frames) \/ k = Len(frames) + 1
  BY <1>2, WinPlaces, Zenon
<1>7. \A k \in 1 .. Len(frames) : frames[k].at \in Dialogs
  <2>1. TAKE k \in 1 .. Len(frames)
  <2>2. frames # << >>
    <3>1. CASE frames = << >>
      <4>1. Len(frames) = 0
        BY <3>1, EmptySeq, Zenon
      <4>2. k \in 1 .. 0
        BY <4>1
      <4>3. QED
        BY <4>2, SMT
    <3>2. QED
      BY <3>1
  <2>3. k \in 1 .. Len(frames) - 1 \/ k = Len(frames)
    BY <1>2, WinPlaces, Zenon
  <2>4. QED
    BY <2>2, <2>3 DEF Nested, Inner
<1>8. \A k \in 1 .. Len(frames') - 1 : k \in 1 .. Len(frames)
  BY <1>2, <1>3, WinPlaces, Zenon
<1>9. \A k \in 1 .. Len(frames') - 1 : frames'[k].at \in Dialogs
  BY <1>3, <1>7, <1>8, Zenon
<1>10. Counted'
  BY <1>2, <1>3, <1>4, <1>6, Zenon DEF Counted
<1>11. \A k \in 1 .. Len(frames) : k \in 1 .. Len(frames) + 1
  BY <1>2, WinPlaces, Zenon
<1>12. OverflowShown => OverflowShown'
  BY <1>2, <1>3, <1>4, <1>11, Zenon DEF OverflowShown
<1>13. QED
  BY <1>3, <1>5, <1>9, <1>10, <1>12 DEF R

-----------------------------------------------------------------------------
(* What a step makes of the calls, whatever it does to the buffer.         *)

\* The invariant taken apart.
LEMMA WinParts ==
    ASSUME WinInv
    PROVE  /\ frames \in Seq(Frame) /\ Nested /\ Counted
           /\ Accounted /\ Emptied /\ OutsideOnlyInOverflow
           /\ TypeOK /\ pkt_buf_sz < WORD /\ pkt_buf_sz_max < WORD
           /\ rcvd <= sent /\ sent <= MaxSent
BY DEF WinInv, WinTypeOK, Trustworthy

\* All of the invariant that is about the calls and the overflow.
Calls ==
    /\ frames \in Seq(Frame)
    /\ Nested
    /\ Counted
    /\ Accounted
    /\ OutsideOnlyInOverflow

\* A call at another place is a call, with as many packets processed.
LEMMA WinFrameAt ==
    ASSUME frames \in Seq(Frame), frames # << >>, NEW p \in Places
    PROVE  /\ [Inner EXCEPT !.at = p] \in Frame
           /\ [Inner EXCEPT !.at = p].at = p
           /\ [Inner EXCEPT !.at = p].iter = Inner.iter
<1>1. Inner \in Frame
  BY WinStack
<1>2. QED
  BY <1>1 DEF Frame

\* The innermost call goes on: to an overflow when the buffer holds more than
\* was received, and out of the report of one only to "failed".
LEMMA WinOn ==
    ASSUME WinInv, end = "no", end' = end, frames # << >>,
           NEW f \in Frame, frames' = Append(Outer, f),
           f.at # "check" => f.iter < PKT_PROC_PER_LOOP,
           ~g_running' => f.at \notin {"top", "fetch"},
           g_running' = g_running,
           Inner.at = "overflow" => f.at = "failed",
           Inner.at # "failed",
           pkt_buf_sz <= rcvd => pkt_buf_sz' <= rcvd' \/ f.at = "overflow"
    PROVE  Calls'
<1>1. /\ frames \in Seq(Frame) /\ Nested /\ Counted /\ Accounted
  BY WinParts
<1>2. /\ frames' \in Seq(Frame)
      /\ frames' # << >>
      /\ Inner' = f
      /\ (\A k \in 1 .. Len(frames) - 1 : frames[k].at \in Dialogs)'
      /\ Counted'
      /\ OverflowShown /\ Inner.at # "overflow" => OverflowShown'
      /\ f.at = "overflow" => OverflowShown'
  BY <1>1, WinGoOn, Zenon
<1>3. Nested'
  BY <1>2, Zenon DEF Nested
<1>4. Accounted'
  BY <1>1, <1>2, Zenon DEF Accounted
<1>5. OutsideOnlyInOverflow'
  <2>1. end' # "outside"
    OBVIOUS
  <2>2. QED
    BY <2>1, Zenon DEF OutsideOnlyInOverflow
<1>6. QED
  BY <1>2, <1>3, <1>4, <1>5, Zenon DEF Calls

\* The same for a call that only changes its place.
LEMMA WinTo ==
    ASSUME WinInv, NEW q, At(q), end' = end, NEW p \in Places, GoTo(p),
           q \notin {"check", "failed"}, p # "check",
           ~g_running' => p \notin {"top", "fetch"},
           g_running' = g_running,
           q = "overflow" => p = "failed",
           pkt_buf_sz <= rcvd => pkt_buf_sz' <= rcvd' \/ p = "overflow"
    PROVE  Calls'
<1> DEFINE f == [Inner EXCEPT !.at = p]
<1>1. /\ end = "no" /\ frames # << >> /\ Inner.at = q
      /\ frames' = Append(Outer, f)
  BY DEF At, GoTo
<1>2. /\ f \in Frame /\ f.at = p /\ f.iter = Inner.iter
  BY <1>1, WinParts, WinFrameAt, Zenon
<1>3. Inner.iter < PKT_PROC_PER_LOOP
  <2>1. Len(frames) \in DOMAIN frames
    BY <1>1, WinParts, WinStack, WinPlaces, Zenon
  <2>2. Inner.at # "check"
    BY <1>1
  <2>3. QED
    BY <2>1, <2>2, WinParts, Zenon DEF Counted, Inner
<1> HIDE DEF f
<1>4. Inner.at # "failed" /\ (Inner.at = "overflow" => f.at = "failed")
  BY <1>1, <1>2
<1>5. ~g_running' => f.at \notin {"top", "fetch"}
  BY <1>2, Zenon
<1>6. pkt_buf_sz <= rcvd => pkt_buf_sz' <= rcvd' \/ f.at = "overflow"
  BY <1>2, Zenon
<1>7. QED
  BY <1>1, <1>2, <1>3, <1>4, <1>5, <1>6, WinOn, Zenon

\* The innermost call returns, after which the buffer holds no more than it
\* did, or the program is to end.
LEMMA WinBack ==
    ASSUME WinInv, NEW q, At(q), end' = end, Return, q # "overflow",
           (g_running' = g_running /\ q # "failed") \/ ~g_running',
           pkt_buf_sz <= rcvd => pkt_buf_sz' <= rcvd'
    PROVE  Calls'
<1>1. /\ end = "no" /\ frames # << >> /\ Inner.at = q /\ frames' = Outer
  BY DEF At, Return
<1>2. /\ frames \in Seq(Frame) /\ Nested /\ Counted /\ Accounted
  BY WinParts
<1>3. /\ frames' \in Seq(Frame)
      /\ (\A k \in 1 .. Len(frames) - 1 : frames[k].at \in Dialogs)'
      /\ Counted'
      /\ frames' # << >> => Inner'.at \in Dialogs
      /\ OverflowShown /\ Inner.at # "overflow" => OverflowShown'
  BY <1>1, <1>2, WinReturn, Zenon
<1>4. ASSUME frames' # << >> PROVE Inner'.at \notin {"top", "fetch"}
  BY <1>3, <1>4 DEF Dialogs
<1>5. Nested'
  BY <1>3, <1>4, Zenon DEF Nested
<1>6. Accounted'
  BY <1>1, <1>2, <1>3, Zenon DEF Accounted
<1>7. OutsideOnlyInOverflow'
  <2>1. end' # "outside"
    BY <1>1
  <2>2. QED
    BY <2>1, Zenon DEF OutsideOnlyInOverflow
<1>8. QED
  BY <1>3, <1>5, <1>6, <1>7, Zenon DEF Calls

\* No call moves.
LEMMA WinStay ==
    ASSUME WinInv, frames' = frames, end' # "outside",
           ~g_running => ~g_running',
           g_running /\ ~g_running' /\ frames # << >> => Inner.at \in Dialogs,
           pkt_buf_sz <= rcvd => pkt_buf_sz' <= rcvd'
    PROVE  Calls'
<1>1. /\ frames \in Seq(Frame) /\ Nested /\ Counted /\ Accounted
  BY WinParts
<1>2. Inner' = Inner
  BY DEF Inner
<1>3. ASSUME Inner.at \in Dialogs PROVE Inner.at \notin {"top", "fetch"}
  BY <1>3 DEF Dialogs
<1>4. frames' \in Seq(Frame) /\ Counted' /\ (OverflowShown' <=> OverflowShown)
  BY <1>1 DEF Counted, OverflowShown
<1>5. (\A k \in 1 .. Len(frames) - 1 : frames[k].at \in Dialogs)'
  BY <1>1 DEF Nested
<1>6. Nested'
  BY <1>1, <1>2, <1>3, <1>5, Zenon DEF Nested
<1>7. Accounted'
  BY <1>1, <1>2, <1>4, Zenon DEF Accounted
<1>8. OutsideOnlyInOverflow'
  BY Zenon DEF OutsideOnlyInOverflow
<1>9. QED
  BY <1>4, <1>6, <1>7, <1>8, Zenon DEF Calls

-----------------------------------------------------------------------------
(* The buffer: its type and the positions.                                 *)

Bounds ==
    /\ TypeOK
    /\ pkt_buf_sz < WORD
    /\ pkt_buf_sz_max < WORD
    /\ rcvd <= sent
    /\ sent <= MaxSent

\* What leaves the buffer alone keeps its bounds.
LEMMA WinBoundsKept ==
    ASSUME Bounds, UNCHANGED vars
    PROVE  Bounds'
BY DEF Bounds, TypeOK, vars

\* netio_disconnect keeps them.
LEMMA WinBoundsDisconnect ==
    ASSUME Bounds, Disconnect
    PROVE  Bounds'
<1>1. TypeOK'
  BY TypeStep DEF Bounds, Next
<1>2. 0 < WORD /\ sent <= sent
  BY ConstantsOK, SMT DEF Bounds, TypeOK
<1>3. QED
  BY <1>1, <1>2 DEF Bounds, Disconnect

\* osio_win_quit keeps them.
LEMMA WinBoundsQuit ==
    ASSUME Bounds, Quit
    PROVE  Bounds'
BY WinBoundsKept, WinBoundsDisconnect, Zenon DEF Quit

\* Parsing keeps them: it takes a packet from the stream, none from the buffer.
LEMMA WinBoundsParse ==
    ASSUME Bounds, IterParse
    PROVE  Bounds'
<1> DEFINE S == Seq([at : Nat, pkt : Packet])
<1>1. TypeOK
  BY DEF Bounds
<1>2. PICK w \in LengthWords :
        LET claim == Claim(w)
        IN  /\ last' = IF Whole(claim) THEN Head(stream).pkt ELSE Misread
            /\ stream' = IF Whole(claim) THEN Tail(stream) ELSE stream
  BY DEF IterParse
<1>3. last' \in Packet \cup {NoPacket, Misread} /\ stream' \in S
  <2>1. CASE Whole(Claim(w))
    <3>1. stream # << >>
      BY <2>1 DEF Whole, IsNextPacket, HoldsNext
    <3>2. QED
      BY <1>1, <1>2, <2>1, <3>1, HeadType
  <2>2. CASE ~Whole(Claim(w))
    BY <1>1, <1>2, <2>2 DEF TypeOK
  <2>3. QED
    BY <2>1, <2>2
<1>4. QED
  BY <1>3 DEF Bounds, TypeOK, IterParse

\* The difference of uint32_t numbers is one.
LEMMA WinRest ==
    ASSUME Bounds, NEW claim \in 0 .. WORD - 1
    PROVE  /\ Rest(claim) \in Nat /\ Rest(claim) < WORD
           /\ claim <= pkt_buf_sz => Rest(claim) <= pkt_buf_sz
           /\ ~(claim <= pkt_buf_sz) => TooLarge(Rest(claim), claim)
<1>1. /\ pkt_buf_sz \in Nat /\ pkt_buf_sz < WORD /\ WORD \in Nat
      /\ pkt_buf_sz_max \in Nat /\ pkt_buf_sz_max < WORD
  BY ConstantsOK DEF Bounds, TypeOK
<1>2. CASE claim <= pkt_buf_sz
  BY <1>1, <1>2, SMT DEF Rest
<1>3. CASE ~(claim <= pkt_buf_sz)
  BY <1>1, <1>3, SMT DEF Rest, TooLarge
<1>4. QED
  BY <1>2, <1>3

\* Removing a packet keeps them, even where pkt_buf_sz wraps.
LEMMA WinBoundsRemove ==
    ASSUME Bounds, IterRemove, Inner.claim \in 0 .. WORD - 1
    PROVE  Bounds'
<1> DEFINE claim == Inner.claim
           rest == Rest(claim)
<1>1. rest \in Nat /\ rest < WORD
  BY WinRest
<1>2. /\ pkt_buf_sz' = rest
      /\ pkt_buf' = [i \in DOMAIN pkt_buf |->
                       IF i < rest /\ i + claim < pkt_buf_sz_max
                         THEN pkt_buf[i + claim] ELSE pkt_buf[i]]
      /\ UNCHANGED <<socket_fd, pkt_buf_sz_max, err, stream, sent, rcvd, last>>
  BY DEF IterRemove
<1>3. claim \in Nat
  BY SMT
<1> HIDE DEF claim, rest
<1>4. pkt_buf' \in [0 .. pkt_buf_sz_max - 1 -> Nat \cup {Stale}]
  <2>1. pkt_buf \in [0 .. pkt_buf_sz_max - 1 -> Nat \cup {Stale}]
        /\ pkt_buf_sz_max \in Nat
    BY DEF Bounds, TypeOK
  <2>2. ASSUME NEW i \in 0 .. pkt_buf_sz_max - 1, i + claim < pkt_buf_sz_max
        PROVE  pkt_buf[i + claim] \in Nat \cup {Stale}
    <3>1. i + claim \in 0 .. pkt_buf_sz_max - 1
      BY <1>3, <2>1, <2>2, SMT
    <3>2. QED
      BY <2>1, <3>1
  <2>3. QED
    BY <1>2, <2>1, <2>2
<1>5. QED
  BY <1>1, <1>2, <1>4 DEF Bounds, TypeOK

\* Every step keeps the bounds of the buffer.
LEMMA WinBounds ==
    ASSUME WinInv, [WinNext]_allVars
    PROVE  Bounds'
<1> USE DEF Bounds
<1>1. Bounds
  BY WinParts
<1>2. ASSUME NEW p \in Packet, ServerWrite(p) PROVE Bounds'
  <2>1. TypeOK'
    BY <1>1, <1>2, TypeStep DEF Next
  <2>2. sent' = sent + Size(p) /\ sent' <= MaxSent /\ Size(p) \in Nat
    BY <1>2, SizeBounds DEF ServerWrite
  <2>3. rcvd <= sent'
    BY <1>1, <2>2, SMT DEF TypeOK
  <2>4. QED
    BY <1>1, <1>2, <2>1, <2>2, <2>3 DEF ServerWrite
<1>3. CASE UserQuits
  BY <1>1, <1>3, WinBoundsQuit DEF UserQuits
<1>4. CASE Save
  <2>1. << >> \in Seq([at : Nat, pkt : Packet])
    BY EmptySeq
  <2>2. 0 < WORD /\ sent <= sent
    BY <1>1, ConstantsOK, SMT DEF TypeOK
  <2>3. QED
    BY <1>1, <1>4, <2>1, <2>2 DEF Save, TypeOK
<1>5. CASE CloseDialog
  BY <1>1, <1>5, WinBoundsKept DEF CloseDialog
<1>6. CASE CopyToNull
  BY <1>1, <1>6, WinBoundsKept DEF CopyToNull
<1>7. CASE Exit
  BY <1>1, <1>7, WinBoundsKept, WinBoundsDisconnect DEF Exit
<1>8. CASE IterConnect
  <2>1. TypeOK'
    BY <1>1, <1>8, TypeStep DEF IterConnect, Next
  <2>2. 0 < WORD
    BY <1>1, ConstantsOK, SMT DEF TypeOK
  <2>3. QED
    BY <1>1, <1>8, <2>1, <2>2 DEF IterConnect, Connect
<1>9. CASE IterConnectFails
  <2>1. 0 < WORD
    BY <1>1, ConstantsOK, SMT DEF TypeOK
  <2>2. QED
    BY <1>1, <1>9, <2>1 DEF IterConnectFails, TypeOK
<1>10. CASE IterConnected
  BY <1>1, <1>10, WinBoundsKept DEF IterConnected
<1>11. ASSUME NEW n \in 1 .. SOCKBUF_SZ, IterFetch(n) PROVE Bounds'
  <2>1. TypeOK'
    BY <1>1, <1>11, TypeStep DEF IterFetch, Next
  <2>2. /\ pkt_buf_sz' = pkt_buf_sz + n /\ pkt_buf_sz_max' = Capacity(n)
        /\ rcvd' = rcvd + n /\ n <= sent - rcvd /\ sent' = sent
        /\ ~(pkt_buf_sz + n + SLACK >= WORD)
    BY <1>11 DEF IterFetch, Fetch, Received, SizeWraps
  <2>3. pkt_buf_sz' < WORD /\ pkt_buf_sz_max' < WORD /\ rcvd' <= sent'
    BY <1>1, <2>2, ConstantsOK, SMT DEF TypeOK, Capacity
  <2>4. QED
    BY <1>1, <2>1, <2>2, <2>3
<1>12. ASSUME NEW n \in 1 .. SOCKBUF_SZ,
              IterFetchNoMemory(n) \/ IterFetchOutside(n)
       PROVE  Bounds'
  <2>1. rcvd' = rcvd + n /\ n <= sent - rcvd
    BY <1>12 DEF IterFetchNoMemory, IterFetchOutside, Received
  <2>2. rcvd' \in Nat /\ rcvd' <= sent
    BY <1>1, <2>1, SMT DEF TypeOK
  <2>3. QED
    BY <1>1, <1>12, <2>2 DEF TypeOK, IterFetchNoMemory, IterFetchOutside
<1>13. CASE IterFetchNothing
  BY <1>1, <1>13, WinBoundsKept DEF IterFetchNothing
<1>14. CASE IterNothing
  BY <1>1, <1>14, WinBoundsKept DEF IterNothing
<1>15. CASE IterParse
  BY <1>1, <1>15, WinBoundsParse
<1>16. CASE IterRemove
  <2>1. Inner \in Frame
    BY <1>16, WinParts, WinStack DEF IterRemove, At
  <2>2. Inner.claim \in 0 .. WORD - 1
    BY <2>1 DEF Frame
  <2>3. QED
    BY <1>1, <1>16, <2>2, WinBoundsRemove
<1>17. CASE IterCheck
  BY <1>1, <1>17, WinBoundsKept, WinBoundsDisconnect DEF IterCheck
<1>18. CASE IterFailed
  BY <1>1, <1>18, WinBoundsQuit DEF IterFailed
<1>19. CASE Timer
  BY <1>1, <1>19, WinBoundsKept DEF Timer
<1>20. CASE UNCHANGED allVars
  BY <1>1, <1>20, WinBoundsKept DEF allVars
<1>21. QED
  BY <1>2, <1>3, <1>4, <1>5, <1>6, <1>7, <1>8, <1>9, <1>10, <1>11, <1>12,
     <1>13, <1>14, <1>15, <1>16, <1>17, <1>18, <1>19, <1>20 DEF WinNext

-----------------------------------------------------------------------------
(* The flags, and that a disconnection leaves the buffer empty.            *)

\* Every step keeps the types of the flags.
LEMMA WinFlags ==
    ASSUME WinInv, [WinNext]_allVars
    PROVE  /\ timer' \in BOOLEAN
           /\ g_running' \in BOOLEAN
           /\ found' \in BOOLEAN
           /\ end' \in Ends
<1>1. timer \in BOOLEAN /\ g_running \in BOOLEAN /\ found \in BOOLEAN
      /\ end \in Ends
  BY DEF WinInv, WinTypeOK
<1>2. CASE UNCHANGED <<timer, g_running, found, end>>
  BY <1>1, <1>2
<1>3. ASSUME timer' = FALSE, g_running' = FALSE, UNCHANGED <<found, end>>
      PROVE  /\ timer' \in BOOLEAN /\ g_running' \in BOOLEAN
             /\ found' \in BOOLEAN /\ end' \in Ends
  BY <1>1, <1>3, Zenon
<1>4. ASSUME end' \in Ends, UNCHANGED <<timer, g_running, found>>
      PROVE  /\ timer' \in BOOLEAN /\ g_running' \in BOOLEAN
             /\ found' \in BOOLEAN /\ end' \in Ends
  BY <1>1, <1>4
<1>5. CASE UserQuits \/ IterFailed
  BY <1>3, <1>5, Zenon DEF UserQuits, IterFailed, Quit
<1>6. CASE CopyToNull \/ Exit \/ \E n \in 1 .. SOCKBUF_SZ : IterFetchOutside(n)
  <2>1. end' \in {"null", "exit", "outside"}
    BY <1>6 DEF CopyToNull, Exit, IterFetchOutside
  <2>2. end' \in Ends
    BY <2>1 DEF Ends
  <2>3. QED
    BY <1>4, <1>6, <2>2, Zenon DEF CopyToNull, Exit, IterFetchOutside
<1>7. CASE IterRemove
  <2>1. PICK r : found' = (found \/ TooLarge(r, Inner.claim))
    BY <1>7, Zenon DEF IterRemove
  <2>2. found' \in BOOLEAN
    BY <2>1, Zenon
  <2>3. QED
    BY <1>1, <1>7, <2>2, Zenon DEF IterRemove
<1>8. CASE Timer \/ Save \/ CloseDialog \/ IterConnect \/ IterConnectFails
           \/ IterConnected
  BY <1>2, <1>8, Zenon DEF Timer, Save, CloseDialog, IterConnect,
     IterConnectFails, IterConnected, winVars
<1>9. CASE \E n \in 1 .. SOCKBUF_SZ : IterFetch(n) \/ IterFetchNoMemory(n)
  BY <1>2, <1>9, Zenon DEF IterFetch, IterFetchNoMemory
<1>10. CASE IterFetchNothing \/ IterNothing \/ IterParse \/ IterCheck
  BY <1>2, <1>10, Zenon DEF IterFetchNothing, IterNothing, IterParse, IterCheck
<1>11. CASE UNCHANGED winVars \/ UNCHANGED allVars
  BY <1>2, <1>11, Zenon DEF winVars, allVars
<1>12. QED
  BY <1>5, <1>6, <1>7, <1>8, <1>9, <1>10, <1>11, Zenon DEF WinNext

\* Every step keeps what is known of an empty buffer after a quit.
LEMMA WinEmptied ==
    ASSUME WinInv, [WinNext]_allVars
    PROVE  Emptied'
<1>1. Emptied /\ Bounds
  BY WinParts DEF Bounds
<1>2. CASE pkt_buf_sz' = 0
  BY <1>2, Zenon DEF Emptied
<1>3. CASE UNCHANGED <<found, socket_fd, g_running, pkt_buf_sz>>
  BY <1>1, <1>3, Zenon DEF Emptied
<1>4. CASE Quit /\ UNCHANGED found
  <2>1. CASE socket_fd = 1
    BY <1>2, <1>4, <2>1, Zenon DEF Quit, Disconnect
  <2>2. CASE socket_fd # 1
    <3>1. socket_fd = 0
      BY <1>1, <2>2 DEF Bounds, TypeOK
    <3>2. UNCHANGED <<found, pkt_buf_sz>>
      BY <1>4, <2>2, Zenon DEF Quit, vars
    <3>3. QED
      BY <1>1, <3>1, <3>2, Zenon DEF Emptied
  <2>3. QED
    BY <2>1, <2>2
<1>5. CASE UserQuits \/ IterFailed
  BY <1>4, <1>5, Zenon DEF UserQuits, IterFailed
<1>6. CASE Save \/ IterConnect \/ IterConnectFails
  BY <1>2, <1>6, Zenon DEF Save, IterConnect, Connect, IterConnectFails
<1>7. CASE Exit
  <2>1. CASE socket_fd = 1
    BY <1>2, <1>7, <2>1, Zenon DEF Exit, Disconnect
  <2>2. CASE socket_fd # 1
    BY <1>3, <1>7, <2>2, Zenon DEF Exit, vars
  <2>3. QED
    BY <2>1, <2>2
<1>8. ASSUME NEW n \in 1 .. SOCKBUF_SZ, IterFetch(n) PROVE Emptied'
  <2>1. socket_fd' # 0
    BY <1>8 DEF IterFetch, Fetch, Received
  <2>2. frames # << >> /\ Inner.at = "fetch" /\ g_running' = g_running
    BY <1>8, Zenon DEF IterFetch, At
  <2>3. Nested
    BY WinParts
  <2>4. "fetch" \in {"top", "fetch"}
    OBVIOUS
  <2>5. g_running
    BY <2>2, <2>3, <2>4, Zenon DEF Nested
  <2>6. g_running'
    BY <2>2, <2>5, Zenon
  <2>7. QED
    BY <2>1, <2>6, Zenon DEF Emptied
<1>9. CASE IterRemove
  <2> DEFINE claim == Inner.claim
             rest == Rest(claim)
  <2>1. Inner \in Frame
    BY <1>9, WinParts, WinStack DEF IterRemove, At
  <2>2. claim \in 0 .. WORD - 1
    BY <2>1 DEF Frame
  <2>3. /\ pkt_buf_sz' = rest
        /\ found' = (found \/ TooLarge(rest, claim))
        /\ UNCHANGED <<socket_fd, g_running>>
    BY <1>9, Zenon DEF IterRemove
  <2>4. /\ rest \in Nat
        /\ claim <= pkt_buf_sz => rest <= pkt_buf_sz
        /\ ~(claim <= pkt_buf_sz) => TooLarge(rest, claim)
    BY <1>1, <2>2, WinRest
  <2> HIDE DEF claim, rest
  <2>5. ASSUME ~found', socket_fd' = 0 \/ ~g_running' PROVE pkt_buf_sz' = 0
    <3>1. ~found /\ ~TooLarge(rest, claim)
      BY <2>3, <2>5, Zenon
    <3>2. pkt_buf_sz = 0
      BY <1>1, <2>3, <2>5, <3>1, Zenon DEF Emptied
    <3>3. rest <= 0
      BY <2>4, <3>1, <3>2, Zenon
    <3>4. rest = 0
      BY <2>4, <3>3, SMT
    <3>5. QED
      BY <2>3, <3>4
  <2>6. QED
    BY <2>5, Zenon DEF Emptied
<1>10. CASE IterCheck
  <2>1. CASE Disconnect
    BY <1>2, <2>1 DEF Disconnect
  <2>2. CASE UNCHANGED vars
    BY <1>3, <1>10, <2>2, Zenon DEF IterCheck, vars
  <2>3. QED
    BY <1>10, <2>1, <2>2 DEF IterCheck
<1>11. CASE Timer \/ CloseDialog \/ CopyToNull \/ IterConnected
            \/ IterFetchNothing \/ IterNothing \/ IterParse
  BY <1>3, <1>11, Zenon DEF Timer, CloseDialog, CopyToNull, IterConnected,
     IterFetchNothing, IterNothing, IterParse, vars
<1>12. ASSUME NEW n \in 1 .. SOCKBUF_SZ,
              IterFetchNoMemory(n) \/ IterFetchOutside(n)
       PROVE  Emptied'
  BY <1>3, <1>12, Zenon DEF IterFetchNoMemory, IterFetchOutside
<1>13. ASSUME NEW p \in Packet, ServerWrite(p), UNCHANGED winVars
       PROVE  Emptied'
  BY <1>3, <1>13, Zenon DEF ServerWrite, winVars
<1>14. CASE UNCHANGED allVars
  BY <1>3, <1>14, Zenon DEF allVars, vars, winVars
<1>15. QED
  BY <1>5, <1>6, <1>7, <1>8, <1>9, <1>10, <1>11, <1>12, <1>13, <1>14
     DEF WinNext

-----------------------------------------------------------------------------
(* The calls, step by step.                                                *)

\* A call that waits in recv() does so before a quit.
LEMMA WinFetching ==
    ASSUME WinInv, At("fetch")
    PROVE  g_running
<1>1. frames # << >> /\ Inner.at \in {"top", "fetch"}
  BY DEF At
<1>2. QED
  BY <1>1, WinParts, Zenon DEF Nested

\* A disconnect, or no change, leaves no more in the buffer than was received.
LEMMA WinEmptiesOrKeeps ==
    ASSUME Bounds, Disconnect \/ UNCHANGED vars
    PROVE  pkt_buf_sz <= rcvd => pkt_buf_sz' <= rcvd'
<1>1. CASE Disconnect
  <2>1. 0 <= sent
    BY SMT DEF Bounds, TypeOK
  <2>2. QED
    BY <1>1, <2>1 DEF Disconnect
<1>2. CASE UNCHANGED vars
  BY <1>2 DEF vars
<1>3. QED
  BY <1>1, <1>2

\* Only with a size that can no longer be what was received does the sum of
\* sizes wrap.
LEMMA WinOutside ==
    ASSUME WinInv, NEW n \in 1 .. SOCKBUF_SZ, IterFetchOutside(n)
    PROVE  OverflowShown
<1>1. rcvd' = rcvd + n /\ n <= sent - rcvd /\ pkt_buf_sz + n + SLACK >= WORD
  BY DEF IterFetchOutside, Received, SizeWraps
<1>2. ~(pkt_buf_sz <= rcvd)
  BY <1>1, WinParts, ConstantsOK, WinConstantsOK, SMT DEF TypeOK
<1>3. g_running
  BY WinFetching DEF IterFetchOutside
<1>4. Inner.at = "fetch"
  BY DEF IterFetchOutside, At
<1>5. Inner.at # "failed"
  BY <1>4
<1>6. QED
  BY <1>2, <1>3, <1>5, WinParts, Zenon DEF Accounted

\* The end of a turn of the do-while loop keeps what is known of the calls.
LEMMA WinNextTurn ==
    ASSUME WinInv, NEW q, At(q), end' = end, q \in {"process", "remove"},
           NEW sz, NextTurn(sz), g_running' = g_running,
           pkt_buf_sz <= rcvd => pkt_buf_sz' <= rcvd'
    PROVE  Calls'
<1> DEFINE f == [at |-> IF 0 < sz /\ Inner.iter + 1 < PKT_PROC_PER_LOOP
                          THEN "process" ELSE "check",
                 iter |-> Inner.iter + 1, claim |-> 0]
<1>1. /\ end = "no" /\ frames # << >> /\ Inner.at = q
      /\ frames' = Append(Outer, f)
  BY DEF At, NextTurn
<1>2. Inner \in Frame /\ Len(frames) \in DOMAIN frames
  BY <1>1, WinParts, WinStack, WinPlaces, Zenon
<1>3. Inner.at # "check" /\ Inner.at # "failed" /\ Inner.at # "overflow"
  BY <1>1
<1>4. Inner.iter < PKT_PROC_PER_LOOP
  BY <1>2, <1>3, WinParts, Zenon DEF Counted, Inner
<1>5. Inner.iter \in 0 .. PKT_PROC_PER_LOOP
  BY <1>2 DEF Frame
<1>6. Inner.iter + 1 \in 0 .. PKT_PROC_PER_LOOP
  BY <1>4, <1>5, WinConstantsOK, SMT
<1>7. 0 \in 0 .. WORD - 1
  BY WinConstantsOK, ConstantsOK, SMT
<1>8. CASE 0 < sz /\ Inner.iter + 1 < PKT_PROC_PER_LOOP
  <2>1. f = [at |-> "process", iter |-> Inner.iter + 1, claim |-> 0]
    BY <1>8
  <2>2. f \in Frame
    BY <1>6, <1>7, <2>1 DEF Frame, Places
  <2>3. f.at = "process" /\ f.iter < PKT_PROC_PER_LOOP
    BY <1>8, <2>1
  <2> HIDE DEF f
  <2>4. f.at \notin {"top", "fetch"}
    BY <2>3
  <2>5. QED
    BY <1>1, <1>3, <2>2, <2>3, <2>4, WinOn, Zenon
<1>9. CASE ~(0 < sz /\ Inner.iter + 1 < PKT_PROC_PER_LOOP)
  <2>1. f = [at |-> "check", iter |-> Inner.iter + 1, claim |-> 0]
    BY <1>9
  <2>2. f \in Frame
    BY <1>6, <1>7, <2>1 DEF Frame, Places
  <2>3. f.at = "check"
    BY <2>1
  <2> HIDE DEF f
  <2>4. f.at \notin {"top", "fetch"}
    BY <2>3
  <2>5. QED
    BY <1>1, <1>3, <2>2, <2>3, <2>4, WinOn, Zenon
<1>10. QED
  BY <1>8, <1>9

\* Parsing keeps it.
LEMMA WinCallsParse ==
    ASSUME WinInv, IterParse
    PROVE  Calls'
<1>1. At("process") /\ UNCHANGED <<pkt_buf_sz, rcvd, g_running, end>>
  BY DEF IterParse
<1>0. PICK w \in LengthWords :
        \E p \in AfterParser(Claim(w)) :
          frames' = Append(Outer, [Inner EXCEPT !.at = p, !.claim = Claim(w)])
  BY DEF IterParse
<1>2. PICK p \in AfterParser(Claim(w)) :
        frames' = Append(Outer, [Inner EXCEPT !.at = p, !.claim = Claim(w)])
  BY <1>0
<1>3. p \in {"remove", "parse_error", "no_clipboard"}
  BY DEF AfterParser, Outcomes
<1>4. Claim(w) \in 0 .. WORD - 1
  BY WinParts, WordBounds, ConstantsOK, WinConstantsOK, SMT DEF Claim
<1> DEFINE f == [Inner EXCEPT !.at = p, !.claim = Claim(w)]
<1>5. end = "no" /\ frames # << >> /\ Inner.at = "process"
  BY <1>1 DEF At
<1>6. Inner \in Frame /\ Len(frames) \in DOMAIN frames
  BY <1>5, WinParts, WinStack, WinPlaces, Zenon
<1>7. Inner.iter < PKT_PROC_PER_LOOP
  <2>1. Inner.at # "check"
    BY <1>5
  <2>2. QED
    BY <1>6, <2>1, WinParts, Zenon DEF Counted, Inner
<1>8. p \in Places
  BY <1>3 DEF Places, Dialogs
<1>9. f \in Frame /\ f.at = p /\ f.iter = Inner.iter
  BY <1>4, <1>6, <1>8 DEF Frame
<1> HIDE DEF f
<1>10. f.at \notin {"top", "fetch"} /\ f.at # "check"
  BY <1>3, <1>9
<1>11. Inner.at # "failed" /\ Inner.at # "overflow"
  BY <1>5
<1>12. frames' = Append(Outer, f)
  BY <1>2 DEF f
<1>13. pkt_buf_sz <= rcvd => pkt_buf_sz' <= rcvd'
  BY <1>1
<1>14. g_running' = g_running /\ end' = end
  BY <1>1
<1>15. QED
  BY <1>5, <1>7, <1>9, <1>10, <1>11, <1>12, <1>13, <1>14, WinOn, Zenon

\* Removing a packet keeps it.
LEMMA WinCallsRemove ==
    ASSUME WinInv, IterRemove
    PROVE  Calls'
<1> DEFINE claim == Inner.claim
           rest == Rest(claim)
<1>1. /\ At("remove")
      /\ pkt_buf_sz' = rest
      /\ IF TooLarge(rest, claim) THEN GoTo("overflow") ELSE NextTurn(rest)
      /\ UNCHANGED <<rcvd, g_running, end>>
  BY DEF IterRemove
<1>2. Inner \in Frame
  BY <1>1, WinParts, WinStack DEF At
<1>3. claim \in 0 .. WORD - 1
  BY <1>2 DEF Frame
<1>4. Bounds
  BY WinParts DEF Bounds
<1>5. /\ rest \in Nat
      /\ claim <= pkt_buf_sz => rest <= pkt_buf_sz
      /\ ~(claim <= pkt_buf_sz) => TooLarge(rest, claim)
  BY <1>3, <1>4, WinRest
<1> HIDE DEF claim, rest
<1>6. CASE TooLarge(rest, claim)
  <2>1. GoTo("overflow")
    BY <1>1, <1>6
  <2>2. /\ "overflow" \in Places /\ "overflow" \notin {"top", "fetch"}
        /\ "overflow" # "check" /\ "remove" \notin {"check", "failed"}
        /\ "remove" # "overflow"
    BY DEF Places, Dialogs
  <2>3. QED
    BY <1>1, <2>1, <2>2, WinTo, Zenon
<1>7. CASE ~TooLarge(rest, claim)
  <2>1. NextTurn(rest) /\ rest <= pkt_buf_sz
    BY <1>1, <1>5, <1>7, Zenon
  <2>2. pkt_buf_sz <= rcvd => pkt_buf_sz' <= rcvd'
    BY <1>1, <1>4, <1>5, <2>1, SMT DEF Bounds, TypeOK
  <2>3. "remove" \in {"process", "remove"} /\ end' = end /\ g_running' = g_running
    BY <1>1
  <2>4. QED
    BY <1>1, <2>1, <2>2, <2>3, WinNextTurn, Zenon
<1>8. QED
  BY <1>6, <1>7

\* Every step keeps what is known of the calls and of the overflow.
LEMMA WinCalls ==
    ASSUME WinInv, [WinNext]_allVars
    PROVE  Calls'
<1>1. /\ frames \in Seq(Frame) /\ Nested /\ Counted /\ Accounted /\ TypeOK
      /\ Bounds
  BY WinParts DEF Bounds
<1>2. ASSUME frames' = frames, end' # "outside", g_running' = g_running,
             pkt_buf_sz <= rcvd => pkt_buf_sz' <= rcvd'
      PROVE  Calls'
  <2>1. ~g_running <=> ~g_running'
    BY <1>2, Zenon
  <2>2. frames' = frames /\ end' # "outside"
    BY <1>2
  <2>3. QED
    BY <1>2, <2>1, <2>2, WinStay, Zenon
<1>3. ASSUME NEW p \in Packet, end = "no", ServerWrite(p), UNCHANGED winVars
      PROVE  Calls'
  <2>1. UNCHANGED <<frames, g_running, pkt_buf_sz, rcvd>> /\ end' = "no"
    BY <1>3 DEF ServerWrite, winVars
  <2>2. QED
    BY <1>2, <2>1
<1>4. CASE Timer
  <2> DEFINE f == [at |-> "top", iter |-> 0, claim |-> 0]
  <2>1. f \in Frame /\ f.iter < PKT_PROC_PER_LOOP
    BY ConstantsOK, WinConstantsOK, SMT DEF Frame, Places
  <2>2. /\ frames' = Append(frames, f) /\ g_running
        /\ frames # << >> => Inner.at \in Dialogs
        /\ UNCHANGED <<pkt_buf_sz, rcvd, g_running, end>>
        /\ end = "no"
    BY <1>4, Zenon DEF Timer, Pumping, vars
  <2> HIDE DEF f
  <2>3. /\ frames' \in Seq(Frame)
        /\ frames' # << >>
        /\ (\A k \in 1 .. Len(frames) - 1 : frames[k].at \in Dialogs)'
        /\ Counted'
        /\ OverflowShown => OverflowShown'
    BY <1>1, <2>1, <2>2, WinCall, Zenon
  <2>4. Nested'
    BY <2>2, <2>3, Zenon DEF Nested
  <2>5. "failed" \notin Dialogs
    BY DEF Dialogs
  <2>6. Accounted'
    <3>1. ASSUME frames # << >> PROVE Inner.at # "failed"
      BY <2>2, <2>5, <3>1
    <3>2. pkt_buf_sz <= rcvd \/ OverflowShown
      BY <1>1, <2>2, <3>1, Zenon DEF Accounted
    <3>3. CASE pkt_buf_sz <= rcvd
      BY <2>2, <3>3, Zenon DEF Accounted
    <3>4. CASE OverflowShown
      BY <2>3, <3>4, Zenon DEF Accounted
    <3>5. QED
      BY <3>2, <3>3, <3>4, Zenon
  <2>7. end' # "outside"
    BY <2>2
  <2>8. QED
    BY <2>3, <2>4, <2>6, <2>7, Zenon DEF Calls, OutsideOnlyInOverflow
<1>5. CASE UserQuits
  <2>1. /\ frames' = frames /\ end' = end /\ end = "no" /\ ~g_running'
        /\ frames # << >> => Inner.at \in Dialogs
        /\ Disconnect \/ UNCHANGED vars
    BY <1>5, Zenon DEF UserQuits, Pumping, Quit
  <2>2. end' # "outside"
    BY <2>1
  <2>3. QED
    BY <1>1, <2>1, <2>2, WinEmptiesOrKeeps, WinStay, Zenon
<1>6. CASE Save
  <2>1. pkt_buf_sz' <= rcvd'
    BY <1>1, <1>6, SMT DEF Save, TypeOK
  <2>2. frames' = frames /\ end' # "outside" /\ g_running' = g_running
    BY <1>6 DEF Save, Pumping, winVars
  <2>3. QED
    BY <1>2, <2>1, <2>2
<1>7. CASE CloseDialog
  <2>1. PICK d \in Dialogs \ {"no_clipboard"} : At(d)
    BY <1>7 DEF CloseDialog
  <2>2. Inner.at = d
    BY <2>1 DEF At
  <2> DEFINE p == IF d = "parse_error" THEN "remove" ELSE "failed"
  <2>3. GoTo(p) /\ UNCHANGED <<g_running, end>> /\ UNCHANGED vars
    BY <1>7, <2>2 DEF CloseDialog
  <2>4. p \in Places /\ p \notin {"top", "fetch"} /\ p # "check"
    BY DEF Places
  <2>5. d = "overflow" => p = "failed"
    BY SMT
  <2>6. d \notin {"check", "failed"}
    BY DEF Dialogs
  <2> HIDE DEF p
  <2>7. pkt_buf_sz <= rcvd => pkt_buf_sz' <= rcvd'
    BY <2>3 DEF vars
  <2>8. end' = end /\ g_running' = g_running
    BY <2>3
  <2>9. QED
    BY <2>1, <2>3, <2>4, <2>5, <2>6, <2>7, <2>8, WinTo, Zenon
<1>8. CASE CopyToNull
  <2>1. frames' = frames /\ end' # "outside" /\ g_running' = g_running
        /\ UNCHANGED <<pkt_buf_sz, rcvd>>
    BY <1>8 DEF CopyToNull, vars
  <2>2. QED
    BY <1>2, <2>1
<1>9. CASE Exit
  <2>1. frames' = frames /\ end' # "outside" /\ g_running' = g_running
    BY <1>9 DEF Exit
  <2>2. Disconnect \/ UNCHANGED vars
    BY <1>9 DEF Exit
  <2>3. QED
    BY <1>1, <1>2, <2>1, <2>2, WinEmptiesOrKeeps
<1>10. ASSUME At("top"), g_running' = g_running, end' = end, GoTo("fetch"),
              pkt_buf_sz <= rcvd => pkt_buf_sz' <= rcvd'
       PROVE  Calls'
  <2>1. frames # << >> /\ Inner.at \in {"top", "fetch"}
    BY <1>10 DEF At
  <2>2. g_running
    BY <1>1, <2>1, Zenon DEF Nested
  <2>3. /\ "fetch" \in Places /\ "top" \notin {"check", "failed"}
        /\ "fetch" # "check" /\ "top" # "overflow"
    BY DEF Places
  <2>4. QED
    BY <1>10, <2>2, <2>3, WinTo, Zenon
<1>11. CASE IterConnect
  <2>1. pkt_buf_sz' <= rcvd'
    BY <1>1, <1>11, SMT DEF IterConnect, Connect, TypeOK
  <2>2. QED
    BY <1>10, <1>11, <2>1 DEF IterConnect
<1>12. CASE IterConnected
  BY <1>10, <1>12, Zenon DEF IterConnected, vars
<1>13. ASSUME NEW q, At(q), end' = end, Return, q \notin {"overflow", "failed"},
              g_running' = g_running, pkt_buf_sz <= rcvd => pkt_buf_sz' <= rcvd'
       PROVE  Calls'
  <2>1. q # "overflow" /\ q # "failed"
    BY <1>13
  <2>2. QED
    BY <1>13, <2>1, WinBack, Zenon
<1>14. CASE IterConnectFails
  <2>1. pkt_buf_sz' <= rcvd'
    BY <1>1, <1>14, SMT DEF IterConnectFails, TypeOK
  <2>2. At("top") /\ Return /\ end' = end /\ g_running' = g_running
    BY <1>14 DEF IterConnectFails
  <2>3. QED
    BY <1>13, <2>1, <2>2
<1>15. ASSUME NEW p \in {"process", "no_memory"}, At("fetch"), GoTo(p),
              end' = end, g_running' = g_running,
              pkt_buf_sz <= rcvd => pkt_buf_sz' <= rcvd'
       PROVE  Calls'
  <2>1. /\ p \in Places /\ p \notin {"top", "fetch"} /\ p # "check"
        /\ "fetch" \notin {"check", "failed"} /\ "fetch" # "overflow"
    BY DEF Places, Dialogs
  <2>2. QED
    BY <1>15, <2>1, WinTo, Zenon
<1>16. ASSUME NEW n \in 1 .. SOCKBUF_SZ, IterFetch(n) PROVE Calls'
  <2>1. pkt_buf_sz <= rcvd => pkt_buf_sz' <= rcvd'
    BY <1>1, <1>16, SMT DEF IterFetch, Fetch, Received, TypeOK
  <2>2. QED
    BY <1>15, <1>16, <2>1 DEF IterFetch
<1>17. CASE IterFetchNothing
  BY <1>15, <1>17 DEF IterFetchNothing, vars
<1>18. ASSUME NEW n \in 1 .. SOCKBUF_SZ, IterFetchNoMemory(n) PROVE Calls'
  <2>1. pkt_buf_sz <= rcvd => pkt_buf_sz' <= rcvd'
    BY <1>1, <1>18, SMT DEF IterFetchNoMemory, Received, TypeOK
  <2>2. QED
    BY <1>15, <1>18, <2>1 DEF IterFetchNoMemory
<1>19. ASSUME NEW n \in 1 .. SOCKBUF_SZ, IterFetchOutside(n) PROVE Calls'
  <2>1. OverflowShown
    BY <1>19, WinOutside
  <2>2. /\ frames' = frames /\ g_running' = g_running
        /\ UNCHANGED pkt_buf_sz /\ rcvd' = rcvd + n
    BY <1>19 DEF IterFetchOutside, Received
  <2>3. OverflowShown'
    BY <2>1, <2>2 DEF OverflowShown
  <2>4. frames' \in Seq(Frame) /\ Nested' /\ Counted'
    <3>1. Inner' = Inner
      BY <2>2 DEF Inner
    <3>2. (\A k \in 1 .. Len(frames) - 1 : frames[k].at \in Dialogs)'
      BY <1>1, <2>2 DEF Nested
    <3>3. Nested'
      BY <1>1, <2>2, <3>1, <3>2, Zenon DEF Nested
    <3>4. QED
      BY <1>1, <2>2, <3>3 DEF Counted
  <2>5. QED
    BY <2>3, <2>4, Zenon DEF Calls, Accounted, OutsideOnlyInOverflow, OverflowShown
<1>20. CASE IterNothing
  BY <1>20, WinNextTurn DEF IterNothing, vars
<1>21. CASE IterParse
  BY <1>21, WinCallsParse
<1>22. CASE IterRemove
  BY <1>22, WinCallsRemove
<1>23. CASE IterCheck
  <2>1. At("check") /\ Return /\ end' = end /\ g_running' = g_running
        /\ (Disconnect \/ UNCHANGED vars)
    BY <1>23 DEF IterCheck
  <2>2. QED
    BY <1>1, <1>13, <2>1, WinEmptiesOrKeeps
<1>24. CASE IterFailed
  <2>1. /\ At("failed") /\ Return /\ end' = end /\ ~g_running'
        /\ Disconnect \/ UNCHANGED vars
    BY <1>24, Zenon DEF IterFailed, Quit
  <2>2. "failed" # "overflow"
    OBVIOUS
  <2>3. QED
    BY <1>1, <2>1, <2>2, WinEmptiesOrKeeps, WinBack, Zenon
<1>25. CASE UNCHANGED allVars
  BY <1>25, WinParts DEF allVars, vars, winVars, Calls, Nested, Counted,
     Accounted, OverflowShown, OutsideOnlyInOverflow, Inner
<1>26. QED
  BY <1>3, <1>4, <1>5, <1>6, <1>7, <1>8, <1>9, <1>11, <1>12, <1>14, <1>16,
     <1>17, <1>18, <1>19, <1>20, <1>21, <1>22, <1>23, <1>24, <1>25 DEF WinNext

-----------------------------------------------------------------------------
(* The theorems.                                                           *)

\* The invariant holds when the program starts.
LEMMA WinInvInit == WinInit => WinInv
<1> SUFFICES ASSUME WinInit PROVE WinInv
  OBVIOUS
<1>1. TypeOK
  BY TypeInit DEF WinInit
<1>2. frames \in Seq(Frame) /\ Len(frames) = 0
  BY EmptySeq DEF WinInit
<1>3. end \in Ends /\ end # "outside"
  BY DEF WinInit, Ends
<1>4. timer \in BOOLEAN /\ g_running \in BOOLEAN /\ found \in BOOLEAN
  BY Zenon DEF WinInit
<1>5. /\ pkt_buf_sz < WORD /\ pkt_buf_sz_max < WORD
      /\ rcvd <= sent /\ sent <= MaxSent /\ pkt_buf_sz <= rcvd
      /\ pkt_buf_sz = 0
  BY ConstantsOK, WinConstantsOK, SMT DEF WinInit, Init
<1>6. DOMAIN frames = {} /\ 1 .. Len(frames) - 1 = {} /\ frames = << >>
  BY <1>2, SMT DEF WinInit
<1>7. Nested /\ Counted
  BY <1>6, Zenon DEF Nested, Counted
<1>8. QED
  BY <1>1, <1>2, <1>3, <1>4, <1>5, <1>7, Zenon
     DEF WinInv, WinTypeOK, Trustworthy, Accounted, Emptied,
         OutsideOnlyInOverflow

\* Every step keeps the invariant.
LEMMA WinInvStep == WinInv /\ [WinNext]_allVars => WinInv'
BY WinBounds, WinFlags, WinEmptied, WinCalls, Zenon
   DEF Bounds, Calls, WinInv, WinTypeOK, Trustworthy

\* The calls under way form a stack of dialogs, and the size of the buffer
\* can be trusted until an overflow is found (netio.c:128-216, main.c:10-103).
THEOREM WinInvariant == WinSpec => []WinInv
BY WinInvInit, WinInvStep, PTL DEF WinSpec

\* The frames and the wrapping numbers keep their types.
THEOREM WinTypeCorrect == WinSpec => []WinTypeOK
<1>1. WinInv => WinTypeOK
  BY DEF WinInv
<1>2. QED
  BY <1>1, WinInvariant, PTL

\* Bytes are stored outside the packet buffer only while the report of an
\* overflow is open (netio.c:147, 209-213).
THEOREM StoresInside == WinSpec => []OutsideOnlyInOverflow
<1>1. WinInv => OutsideOnlyInOverflow
  BY DEF WinInv
<1>2. QED
  BY <1>1, WinInvariant, PTL

\* After a quit no packet is acted on, unless an overflow was found before
\* (osio_win.c:101-114, netio.c:174-190).
THEOREM NothingAfterQuit == WinSpec => NoInputAfterQuit
<1>1. ASSUME WinInv, [WinNext]_allVars
      PROVE  [~g_running /\ ~found => last' = last \/ last' = NoPacket]_allVars
  <2> DEFINE Quiet == last' = last \/ last' = NoPacket
  <2>1. SUFFICES ASSUME WinNext, ~g_running, ~found PROVE Quiet
    BY <1>1, Zenon
  <2>2. ~IterParse
    <3>1. pkt_buf_sz = 0
      BY <1>1, <2>1, WinParts, Zenon DEF Emptied
    <3>2. QED
      BY <3>1 DEF IterParse
  <2>3. ASSUME Quit PROVE Quiet
    BY <2>3, Zenon DEF Quit, Disconnect, vars
  <2>4. CASE UserQuits \/ IterFailed
    BY <2>3, <2>4, Zenon DEF UserQuits, IterFailed
  <2>5. CASE Exit \/ IterCheck
    BY <2>5, Zenon DEF Exit, IterCheck, Disconnect, vars
  <2>6. CASE Timer \/ Save \/ CloseDialog \/ CopyToNull \/ IterConnect
             \/ IterConnectFails \/ IterConnected \/ IterFetchNothing
             \/ IterNothing \/ IterRemove
    BY <2>6, Zenon DEF Timer, Save, CloseDialog, CopyToNull, IterConnect,
       Connect, IterConnectFails, IterConnected, IterFetchNothing,
       IterNothing, IterRemove, vars
  <2>7. ASSUME NEW n \in 1 .. SOCKBUF_SZ,
               IterFetch(n) \/ IterFetchNoMemory(n) \/ IterFetchOutside(n)
        PROVE  Quiet
    BY <2>7, Zenon DEF IterFetch, Fetch, IterFetchNoMemory, IterFetchOutside
  <2>8. ASSUME NEW p \in Packet, ServerWrite(p) PROVE Quiet
    BY <2>8, Zenon DEF ServerWrite
  <2>9. QED
    BY <2>1, <2>2, <2>4, <2>5, <2>6, <2>7, <2>8, Zenon DEF WinNext
<1>2. QED
  BY <1>1, WinInvariant, PTL DEF WinSpec, NoInputAfterQuit

-----------------------------------------------------------------------------
(* The way to the end.                                                     *)

\* A call has a bounded number of steps to go.
LEMMA WinStepsBounded ==
    ASSUME NEW f \in Frame
    PROVE  StepsLeft(f) \in 0 .. 7 * (PKT_PROC_PER_LOOP + 1) - 1
<1>1. f.at \in Places /\ f.iter \in 0 .. PKT_PROC_PER_LOOP /\ PKT_PROC_PER_LOOP \in Nat
  BY WinConstantsOK DEF Frame
<1>2. StepsAt[f.at] \in 0 .. 6
  BY <1>1 DEF StepsAt, Places, Dialogs
<1>3. QED
  BY <1>1, <1>2 DEF StepsLeft

\* One call fewer is a bounded number of steps fewer.
LEMMA WinOneFewer ==
    ASSUME NEW k \in Nat, NEW n \in Nat \ {0}
    PROVE  k * n = k * (n - 1) + k /\ k * n \in Nat /\ k * (n - 1) \in Nat
OBVIOUS

\* The innermost call goes on to a place nearer to its return.
LEMMA WinOnCloser ==
    ASSUME frames \in Seq(Frame), frames # << >>, end = "no", end' = end,
           NEW f \in Frame, frames' = Append(Outer, f), StepsLeft(f) < StepsLeft(Inner)
    PROVE  ToGo' < ToGo
<1> DEFINE R == Frame
           K == 7 * (PKT_PROC_PER_LOOP + 1)
<1>1. Outer \in Seq(R) /\ Len(Outer) = Len(frames) - 1 /\ Len(frames) \in Nat /\ Inner \in R
  BY WinStack, Zenon
<1>2. f \in R
  OBVIOUS
<1> HIDE DEF R
<1>3. frames' # << >> /\ Len(frames') = Len(Outer) + 1 /\ frames'[Len(Outer) + 1] = f
  BY <1>1, <1>2, WinAppend
<1>4. Len(frames') = Len(frames) /\ Inner' = f
  BY <1>1, <1>3 DEF Inner
<1>5. StepsLeft(f) \in Int /\ StepsLeft(Inner) \in Int /\ K * Len(frames) \in Int
  BY <1>1, WinStepsBounded, WinConstantsOK DEF R
<1>6. ToGo = 1 + K * Len(frames) + StepsLeft(Inner)
  BY Zenon DEF ToGo
<1>7. ToGo' = 1 + K * Len(frames) + StepsLeft(f)
  <2>1. ToGo' = 1 + K * Len(frames') + StepsLeft(Inner')
    BY <1>3 DEF ToGo, StepsLeft
  <2>2. QED
    BY <2>1, <1>4, Zenon
<1> HIDE DEF K
<1>8. QED
  BY <1>5, <1>6, <1>7

\* The innermost call changes its place for one nearer to its return.
LEMMA WinToCloser ==
    ASSUME frames \in Seq(Frame), NEW q, At(q), end' = end, NEW p \in Places, GoTo(p),
           StepsAt[p] < StepsAt[q]
    PROVE  ToGo' < ToGo
<1> DEFINE f == [Inner EXCEPT !.at = p]
<1>1. end = "no" /\ frames # << >> /\ Inner.at = q /\ frames' = Append(Outer, f)
  BY DEF At, GoTo
<1>2. f \in Frame /\ f.at = p /\ f.iter = Inner.iter /\ Inner \in Frame
  BY <1>1, WinFrameAt, WinStack, Zenon
<1> HIDE DEF f
<1>3. StepsLeft(f) < StepsLeft(Inner)
  <2>1. Inner.iter \in Int /\ PKT_PROC_PER_LOOP \in Int
    BY <1>2, WinConstantsOK DEF Frame
  <2>2. StepsAt[p] \in Int /\ StepsAt[q] \in Int
    BY <1>1, <1>2 DEF StepsAt, Places, Dialogs, Frame
  <2>3. QED
    BY <1>1, <1>2, <2>1, <2>2 DEF StepsLeft
<1>4. QED
  BY <1>1, <1>2, <1>3, WinOnCloser

\* The innermost call goes round in its do-while loop: with a packet less.
LEMMA WinTurnCloser ==
    ASSUME frames \in Seq(Frame), Counted, NEW q, At(q), q \in {"process", "remove"},
           end' = end, NEW sz, NextTurn(sz)
    PROVE  ToGo' < ToGo
<1>1. end = "no" /\ frames # << >> /\ Inner.at = q
  BY DEF At
<1>2. Inner \in Frame /\ Inner.iter < PKT_PROC_PER_LOOP /\ Inner.iter \in Nat
      /\ PKT_PROC_PER_LOOP \in Nat /\ 0 \in 0 .. WORD - 1
  <2>1. Inner \in Frame /\ Len(frames) \in DOMAIN frames
    BY <1>1, WinStack, WinPlaces, Zenon
  <2>2. Inner.at # "check"
    BY <1>1
  <2>3. Inner.iter < PKT_PROC_PER_LOOP
    BY <2>1, <2>2, Zenon DEF Counted, Inner
  <2>4. Inner.iter \in Nat /\ Inner.claim \in 0 .. WORD - 1
    BY <2>1 DEF Frame
  <2>5. QED
    BY <2>1, <2>3, <2>4, WinConstantsOK, ConstantsOK
<1>3. PICK p \in {"process", "check"} :
        frames' = Append(Outer, [at |-> p, iter |-> Inner.iter + 1, claim |-> 0])
  BY DEF NextTurn
<1> DEFINE f == [at |-> p, iter |-> Inner.iter + 1, claim |-> 0]
<1>4. f \in Frame /\ f.at = p /\ f.iter = Inner.iter + 1
  BY <1>2 DEF Frame, Places
<1> HIDE DEF f
<1>5. StepsAt[f.at] \in {4, 1} /\ StepsAt[Inner.at] \in {4, 2}
  BY <1>1, <1>4 DEF StepsAt
<1> DEFINE k == Inner.iter
           s == StepsAt[f.at]
           t == StepsAt[Inner.at]
<1>6. StepsLeft(f) = 7 * (PKT_PROC_PER_LOOP - (k + 1)) + s
      /\ StepsLeft(Inner) = 7 * (PKT_PROC_PER_LOOP - k) + t
  BY <1>4 DEF StepsLeft
<1>7. StepsLeft(f) < StepsLeft(Inner)
  <2>1. k \in Nat /\ s \in {4, 1} /\ t \in {4, 2} /\ PKT_PROC_PER_LOOP \in Nat
    BY <1>2, <1>5
  <2> HIDE DEF k, s, t
  <2>2. QED
    BY <1>6, <2>1
<1>8. QED
  BY <1>1, <1>3, <1>4, <1>7, WinOnCloser DEF f

\* The innermost call returns.
LEMMA WinBackCloser ==
    ASSUME frames \in Seq(Frame), frames # << >>, end = "no", end' = end, Return
    PROVE  ToGo' < ToGo
<1> DEFINE K == 7 * (PKT_PROC_PER_LOOP + 1)
           n == Len(frames)
           R == Frame
<1>1. Outer \in Seq(R) /\ Len(Outer) = n - 1 /\ n \in Nat \ {0} /\ Inner \in R
  <2>1. Outer \in Seq(R) /\ Len(Outer) = n - 1 /\ n \in Nat /\ 1 <= n /\ Inner \in R
    BY WinStack, Zenon
  <2>2. QED
    BY <2>1
<1>2. K \in Nat /\ StepsLeft(Inner) \in 0 .. K - 1
  BY <1>1, WinStepsBounded, WinConstantsOK
<1>3. frames' = Outer
  BY DEF Return
<1>4. ToGo = 1 + K * n + StepsLeft(Inner)
  BY Zenon DEF ToGo
<1> HIDE DEF K, n
<1>5. K * n = K * (n - 1) + K /\ K * n \in Nat /\ K * (n - 1) \in Nat
  BY <1>1, <1>2, WinOneFewer
<1>6. CASE frames' = << >>
  <2>1. ToGo' = 1
    BY <1>6 DEF ToGo
  <2>2. K >= 1
    BY <1>2
  <2>3. QED
    BY <1>2, <1>4, <1>5, <2>1, <2>2
<1>7. CASE frames' # << >>
  <2>1. Len(frames') = n - 1 /\ Inner' \in R /\ n - 1 \in Nat
    <3> HIDE DEF R
    <3>1. Len(Outer) \in Nat \ {0}
      BY <1>1, <1>3, <1>7, EmptySeq
    <3>2. Len(Outer) \in 1 .. Len(Outer)
      BY <3>1
    <3>3. Outer[Len(Outer)] \in R
      BY <1>1, <3>2, ElementOfSeq, Zenon
    <3>4. Inner' = Outer[Len(Outer)]
      BY <1>3, Zenon DEF Inner
    <3>5. QED
      BY <1>1, <1>3, <3>1, <3>3, <3>4
  <2>2. ToGo' = 1 + K * (n - 1) + StepsLeft(Inner')
    <3>1. ToGo' = 1 + K * Len(frames') + StepsLeft(Inner')
      BY <1>7 DEF ToGo, K, StepsLeft
    <3>2. QED
      BY <3>1, <2>1, Zenon
  <2>3. StepsLeft(Inner') \in 0 .. K - 1
    BY <2>1, WinStepsBounded DEF K
  <2>4. QED
    BY <1>2, <1>4, <1>5, <2>2, <2>3
<1>8. QED
  BY <1>6, <1>7

\* After a quit a step brings the program nearer to its end, or changes only
\* what the server does.
LEMMA WinCloser ==
    ASSUME WinInv, WinNext, ~g_running
    PROVE  ~g_running' /\ (ToGo' < ToGo \/ UNCHANGED winVars)
<1>1. /\ frames \in Seq(Frame) /\ Nested /\ Counted
      /\ frames # << >> => Inner.at \notin {"top", "fetch"}
  BY WinParts, Zenon DEF Nested
<1>2. ~Pumping
  BY DEF Pumping
<1>3. ~At("top") /\ ~At("fetch")
  BY <1>1 DEF At
<1>4. CASE CloseDialog
  <2>1. PICK d \in Dialogs \ {"no_clipboard"} : At(d)
    BY <1>4 DEF CloseDialog
  <2>2. Inner.at = d
    BY <2>1 DEF At
  <2>3. PICK p \in {"remove", "failed"} :
          GoTo(p) /\ (p = "remove" => d = "parse_error")
    BY <1>4, <2>2, Zenon DEF CloseDialog
  <2>4. StepsAt[p] < StepsAt[d] /\ p \in Places
    BY <2>3 DEF StepsAt, Dialogs, Places
  <2>5. end' = end /\ g_running' = g_running
    BY <1>4 DEF CloseDialog
  <2>6. QED
    BY <1>1, <2>1, <2>3, <2>4, <2>5, WinToCloser
<1>5. CASE CopyToNull \/ Exit
  <2>1. end = "no" /\ end' # "no" /\ UNCHANGED <<frames, g_running>>
    BY <1>5 DEF CopyToNull, Exit, At
  <2>2. ToGo' = 0
    BY <2>1 DEF ToGo
  <2>3. ToGo \in Nat \ {0}
    <3>1. CASE frames = << >>
      BY <2>1, <3>1 DEF ToGo
    <3>2. CASE frames # << >>
      <4> DEFINE K == 7 * (PKT_PROC_PER_LOOP + 1)
      <4>1. K \in Nat /\ Len(frames) \in Nat \ {0} /\ StepsLeft(Inner) \in Nat
        <5>1. Inner \in Frame /\ Len(frames) \in Nat /\ 1 <= Len(frames)
          BY <1>1, <3>2, WinStack, Zenon
        <5>2. StepsLeft(Inner) \in 0 .. 7 * (PKT_PROC_PER_LOOP + 1) - 1
          BY <5>1, WinStepsBounded
        <5>3. QED
          BY <5>1, <5>2, WinConstantsOK
      <4>2. ToGo = 1 + K * Len(frames) + StepsLeft(Inner)
        BY <2>1, <3>2, Zenon DEF ToGo
      <4> HIDE DEF K
      <4>3. K * Len(frames) \in Nat
        BY <4>1, WinOneFewer
      <4>4. QED
        BY <4>1, <4>2, <4>3
    <3>3. QED
      BY <3>1, <3>2
  <2>4. ToGo' < ToGo
    BY <2>2, <2>3
  <2>5. QED
    BY <2>1, <2>4
<1>6. CASE IterNothing
  <2>1. At("process") /\ NextTurn(pkt_buf_sz) /\ end' = end /\ g_running' = g_running
    BY <1>6 DEF IterNothing
  <2>2. QED
    BY <1>1, <2>1, WinTurnCloser
<1>7. CASE IterParse
  <2>1. At("process") /\ end' = end /\ g_running' = g_running
    BY <1>7 DEF IterParse
  <2>2. PICK w \in LengthWords :
          \E p \in AfterParser(Claim(w)) :
            /\ frames' = Append(Outer, [Inner EXCEPT !.at = p, !.claim = Claim(w)])
            /\ Claim(w) <= pkt_buf_sz
    BY <1>7, Zenon DEF IterParse
  <2>3. PICK p \in AfterParser(Claim(w)) :
          /\ frames' = Append(Outer, [Inner EXCEPT !.at = p, !.claim = Claim(w)])
          /\ Claim(w) <= pkt_buf_sz
    BY <2>2
  <2>4. p \in {"remove", "parse_error", "no_clipboard"}
    BY DEF AfterParser, Outcomes
  <2> DEFINE f == [Inner EXCEPT !.at = p, !.claim = Claim(w)]
  <2>5. end = "no" /\ frames # << >> /\ Inner.at = "process" /\ Inner \in Frame
    <3>1. end = "no" /\ frames # << >> /\ Inner.at = "process"
      BY <2>1 DEF At
    <3>2. QED
      BY <1>1, <3>1, WinStack, Zenon
  <2>6. Claim(w) \in 0 .. WORD - 1
    BY <2>3, WinParts, WordBounds, ConstantsOK, WinConstantsOK, SMT DEF Claim
  <2>7. f \in Frame /\ f.at = p /\ f.iter = Inner.iter
    BY <2>4, <2>5, <2>6 DEF Frame, Places, Dialogs
  <2> HIDE DEF f
  <2>8. StepsLeft(f) < StepsLeft(Inner)
    <3>1. Inner.iter \in Int /\ PKT_PROC_PER_LOOP \in Int
      BY <2>5, WinConstantsOK DEF Frame
    <3>2. QED
      BY <2>4, <2>5, <2>7, <3>1 DEF StepsLeft, StepsAt
  <2>9. QED
    BY <1>1, <2>1, <2>3, <2>5, <2>7, <2>8, WinOnCloser DEF f
<1>8. CASE IterRemove
  <2>1. At("remove") /\ end' = end /\ g_running' = g_running
    BY <1>8 DEF IterRemove
  <2>2. PICK rest : GoTo("overflow") \/ NextTurn(rest)
    BY <1>8, Zenon DEF IterRemove
  <2>3. StepsAt["overflow"] < StepsAt["remove"] /\ "overflow" \in Places
    BY DEF StepsAt, Places, Dialogs
  <2>4. CASE GoTo("overflow")
    BY <1>1, <2>1, <2>3, <2>4, WinToCloser
  <2>5. CASE NextTurn(rest)
    BY <1>1, <2>1, <2>5, WinTurnCloser
  <2>6. QED
    BY <2>1, <2>2, <2>4, <2>5
<1>9. CASE IterCheck \/ IterFailed
  <2>1. Return /\ frames # << >> /\ end = "no" /\ end' = end /\ ~g_running'
    BY <1>9 DEF IterCheck, IterFailed, At, Quit
  <2>2. QED
    BY <1>1, <2>1, WinBackCloser
<1>10. CASE Timer \/ UserQuits \/ Save
  BY <1>2, <1>10 DEF Timer, UserQuits, Save
<1>11. CASE IterConnect \/ IterConnectFails \/ IterConnected \/ IterFetchNothing
  BY <1>3, <1>11 DEF IterConnect, IterConnectFails, IterConnected, IterFetchNothing
<1>12. ASSUME NEW n \in 1 .. SOCKBUF_SZ,
              IterFetch(n) \/ IterFetchNoMemory(n) \/ IterFetchOutside(n)
       PROVE  FALSE
  BY <1>3, <1>12 DEF IterFetch, IterFetchNoMemory, IterFetchOutside
<1>13. CASE UNCHANGED winVars
  BY <1>13 DEF winVars
<1>14. QED
  BY <1>4, <1>5, <1>6, <1>7, <1>8, <1>9, <1>10, <1>11, <1>12, <1>13 DEF WinNext

\* After a quit the program only ever comes nearer to its end, however many
\* calls of minput_loop_iter wait for dialogs over each other and whatever
\* the buffer holds by then (osio_win.c:101-114, main.c:55-73).
THEOREM AlwaysNearerTheEnd == WinSpec => NearerTheEnd
<1>1. WinInv /\ [WinNext]_allVars =>
        [~g_running => ~g_running' /\ (ToGo' < ToGo \/ UNCHANGED winVars)]_allVars
  BY WinCloser
<1>2. QED
  BY <1>1, WinInvariant, PTL DEF WinSpec, NearerTheEnd

\* And it can always go on: after a quit, until the program has ended, the
\* guard of one of its own steps holds (osio_win.c:101-114, main.c:55-73).
THEOREM NeverStuckAfterQuit ==
    ASSUME WinInv, ~g_running, end = "no"
    PROVE  \/ frames = << >>
           \/ \E d \in Dialogs : At(d)
           \/ At("process") /\ pkt_buf_sz = 0
           \/ At("process") /\ \E w \in LengthWords :
                                \/ pkt_buf_sz < Claim(w)
                                \/ Claim(w) <= pkt_buf_sz /\ AfterParser(Claim(w)) # {}
           \/ At("remove") \/ At("check") \/ At("failed")
<1>1. SUFFICES ASSUME frames # << >> PROVE
           \/ \E d \in Dialogs : At(d)
           \/ At("process") /\ pkt_buf_sz = 0
           \/ At("process") /\ \E w \in LengthWords :
                                \/ pkt_buf_sz < Claim(w)
                                \/ Claim(w) <= pkt_buf_sz /\ AfterParser(Claim(w)) # {}
           \/ At("remove") \/ At("check") \/ At("failed")
  OBVIOUS
<1>2. Inner \in Frame /\ Inner.at \notin {"top", "fetch"}
  BY <1>1, WinParts, WinStack, Zenon DEF Nested
<1>3. Inner.at \in Places
  BY <1>2 DEF Frame
<1>4. CASE Inner.at # "process"
  BY <1>1, <1>2, <1>3, <1>4 DEF At, Places
<1>5. CASE Inner.at = "process"
  <2>1. PICK w \in LengthWords : TRUE
    <3>1. CASE stream = << >>
      <4>1. LengthWords = 0 .. WORD - 1
        BY <3>1, Zenon DEF LengthWords, HoldsNext
      <4>2. pkt_buf_sz \in Nat /\ pkt_buf_sz < WORD /\ WORD \in Nat
        BY WinParts, ConstantsOK DEF TypeOK
      <4>3. 0 \in 0 .. WORD - 1
        BY <4>2
      <4>4. QED
        BY <4>1, <4>3
    <3>2. CASE stream # << >>
      <4> DEFINE P == [at : Nat, pkt : Packet]
      <4>1. Head(stream).pkt \in Packet
        <5>1. stream \in Seq(P)
          BY WinParts DEF TypeOK
        <5>2. Head(stream) \in P
          <6> HIDE DEF P
          <6>1. QED
            BY <3>2, <5>1, HeadTailProperties
        <5>3. QED
          BY <5>2
      <4>2. Garbled[Head(stream).pkt] # {}
        BY <4>1, LengthWordShows
      <4>3. 0 .. WORD - 1 # {}
        <5>1. pkt_buf_sz \in Nat /\ pkt_buf_sz < WORD /\ WORD \in Nat
          BY WinParts, ConstantsOK DEF TypeOK
        <5>2. 0 \in 0 .. WORD - 1
          BY <5>1
        <5>3. QED
          BY <5>2
      <4>4. QED
        BY <4>2, <4>3 DEF LengthWords
    <3>3. QED
      BY <3>1, <3>2
  <2>2. AfterParser(Claim(w)) # {}
    BY DEF AfterParser, Outcomes
  <2>3. pkt_buf_sz < Claim(w) \/ Claim(w) <= pkt_buf_sz
    BY <2>1, WinParts, ClaimType DEF TypeOK
  <2>4. At("process")
    BY <1>1, <1>5 DEF At
  <2>5. QED
    BY <2>2, <2>3, <2>4
<1>6. QED
  BY <1>4, <1>5
==============================================================================
