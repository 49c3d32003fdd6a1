----------------------------- MODULE NetioProofs -----------------------------
(***************************************************************************)
(* Proofs about Netio, for every set of packets, every size of buffer,     *)
(* length word and slack that ConstantsOK allows.                          *)
(***************************************************************************)
EXTENDS Netio, SequenceTheorems, TLAPS

\* A packet is no smaller than its header, and its size fits a uint32_t.
LEMMA SizeBounds ==
    ASSUME NEW p \in Packet
    PROVE  Size(p) \in Nat /\ HDR_SZ <= Size(p) /\ Size(p) < WORD
BY ConstantsOK, SMT DEF Size

-----------------------------------------------------------------------------
(* What the length word can be, and what is claimed of it.                 *)

\* The packet to be processed next is the first of the stream.
LEMMA HeadType ==
    ASSUME TypeOK, stream # << >>
    PROVE  /\ Head(stream) \in [at : Nat, pkt : Packet]
           /\ Head(stream) = stream[1]
           /\ 1 \in 1 .. Len(stream)
           /\ Tail(stream) \in Seq([at : Nat, pkt : Packet])
<1> DEFINE R == [at : Nat, pkt : Packet]
<1>1. stream \in Seq(R)
  BY DEF TypeOK
<1> HIDE DEF R
<1>2. Len(stream) \in Nat /\ Len(stream) # 0
  BY <1>1, EmptySeq, LenProperties, SMT
<1>3. 1 \in 1 .. Len(stream)
  BY <1>2, SMT
<1>4. Head(stream) \in R /\ Tail(stream) \in Seq(R)
  BY <1>1, HeadTailProperties
<1>5. Head(stream) = stream[1]
  BY <1>1, <1>2, SMT
<1>6. QED
  BY <1>3, <1>4, <1>5 DEF R

\* What swap_32 returns for the first four bytes is a uint32_t.
LEMMA WordBounds ==
    ASSUME TypeOK, NEW w \in LengthWords
    PROVE  w \in Nat /\ w < WORD
<1>1. CASE HoldsNext(1) \/ HoldsNext(HDR_SZ)
  <2>1. stream # << >>
    BY <1>1 DEF HoldsNext
  <2>2. Head(stream).pkt \in Packet
    BY <2>1, HeadType
  <2>3. CASE w = PktLen[Head(stream).pkt]
    BY <2>2, <2>3, ConstantsOK, SizeBounds, SMT DEF Size
  <2>4. CASE w \in Garbled[Head(stream).pkt]
    BY <2>2, <2>4, ConstantsOK, SMT
  <2>5. QED
    BY <1>1, <2>3, <2>4 DEF LengthWords
<1>2. CASE ~HoldsNext(1) /\ ~HoldsNext(HDR_SZ)
  BY <1>2, ConstantsOK, SMT DEF LengthWords
<1>3. QED
  BY <1>1, <1>2

\* pkt_claim_sz is a number.
LEMMA ClaimType ==
    ASSUME TypeOK, NEW w \in LengthWords
    PROVE  Claim(w) \in Nat
BY WordBounds, ConstantsOK, SMT DEF Claim

\* The types are right when the program starts.
LEMMA TypeInit == Init => TypeOK
<1>1. << >> \in Seq([at : Nat, pkt : Packet])
  BY EmptySeq
<1>2. QED
  BY <1>1, ConstantsOK, SMT DEF Init, TypeOK, Stale

\* Every step keeps the types.
LEMMA TypeStep ==
    ASSUME TypeOK, [Next]_vars
    PROVE  TypeOK'
<1> DEFINE R == [at : Nat, pkt : Packet]
<1> USE DEF TypeOK
<1>1. ASSUME NEW p \in Packet, ServerWrite(p) PROVE TypeOK'
  <2>1. sent + Size(p) \in Nat
    BY SizeBounds, SMT
  <2>2. [at |-> sent, pkt |-> p] \in R
    OBVIOUS
  <2>3. stream' \in Seq(R)
    BY <1>1, <2>2, AppendProperties DEF ServerWrite
  <2>4. QED
    BY <1>1, <2>1, <2>3 DEF ServerWrite
<1>2. CASE Connect
  BY <1>2 DEF Connect
<1>3. CASE Disconnect
  <2>1. stream' \in Seq(R)
    BY <1>3, EmptySeq DEF Disconnect
  <2>2. QED
    BY <1>3, <2>1 DEF Disconnect
<1>4. ASSUME NEW n \in 1 .. SOCKBUF_SZ, Fetch(n) PROVE TypeOK'
  <2>1. Capacity(n) \in Nat /\ pkt_buf_sz' \in Nat /\ rcvd' \in Nat
    BY <1>4, ConstantsOK, SMT DEF Fetch, Received, Capacity
  <2>2. ASSUME NEW i \in 0 .. Capacity(n) - 1
        PROVE  (IF pkt_buf_sz <= i /\ i < pkt_buf_sz + n
                  THEN rcvd + (i - pkt_buf_sz)
                  ELSE IF i < pkt_buf_sz_max THEN pkt_buf[i] ELSE Stale)
               \in Nat \cup {Stale}
    BY <2>1, SMT DEF Stale
  <2>3. pkt_buf' \in [0 .. Capacity(n) - 1 -> Nat \cup {Stale}]
    BY <1>4, <2>2 DEF Fetch
  <2>4. QED
    BY <1>4, <2>1, <2>3 DEF Fetch, Received
<1>5. ASSUME NEW n \in 1 .. SOCKBUF_SZ, FetchNoMemory(n) PROVE TypeOK'
  <2>1. rcvd' \in Nat
    BY <1>5, SMT DEF FetchNoMemory, Received
  <2>2. QED
    BY <1>5, <2>1 DEF FetchNoMemory
<1>6. CASE ProcessPackets
  <2>1. PICK w \in LengthWords :
          /\ Claim(w) <= pkt_buf_sz
          /\ last' = IF IsNextPacket(Claim(w)) THEN Head(stream).pkt
                                               ELSE Misread
          /\ stream' = IF IsNextPacket(Claim(w)) THEN Tail(stream)
                                                 ELSE stream
          /\ MoveDown(Claim(w))
    BY <1>6 DEF ProcessPackets, Complete
  <2>2. Claim(w) \in Nat
    BY ClaimType
  <2>3. last' \in Packet \cup {NoPacket, Misread} /\ stream' \in Seq(R)
    <3>1. CASE IsNextPacket(Claim(w))
      BY <2>1, <3>1, HeadType DEF IsNextPacket, HoldsNext
    <3>2. CASE ~IsNextPacket(Claim(w))
      BY <2>1, <3>2
    <3>3. QED
      BY <3>1, <3>2
  <2>4. pkt_buf_sz' \in Nat /\ err' \in {"none", "overflow"}
    BY <2>1, <2>2, SMT DEF MoveDown
  <2>5. pkt_buf' \in [0 .. pkt_buf_sz_max - 1 -> Nat \cup {Stale}]
    <3>1. ASSUME NEW i \in 0 .. pkt_buf_sz_max - 1, i + Claim(w) < pkt_buf_sz_max
          PROVE  pkt_buf[i + Claim(w)] \in Nat \cup {Stale}
      <4>1. i + Claim(w) \in 0 .. pkt_buf_sz_max - 1
        BY <2>2, <3>1, SMT
      <4>2. QED
        BY <4>1
    <3>2. QED
      BY <2>1, <3>1 DEF MoveDown
  <2>6. QED
    BY <1>6, <2>3, <2>4, <2>5 DEF ProcessPackets
<1>7. CASE UNCHANGED vars
  BY <1>7 DEF vars
<1>8. QED
  BY <1>1, <1>2, <1>3, <1>4, <1>5, <1>6, <1>7 DEF Next

\* The variables of the client keep their types: the buffer is a function
\* on all its cells after every reallocation and move (netio.c:128-216).
THEOREM TypeCorrect == Spec => []TypeOK
<1>1. Init => TypeOK
  BY TypeInit
<1>2. TypeOK /\ [Next]_vars => TypeOK'
  BY TypeStep
<1>3. QED
  BY <1>1, <1>2, PTL DEF Spec
-----------------------------------------------------------------------------
(* The head of the stream, the buffer, and what a call of                  *)
(* netio_process_packets makes of them.                                    *)

\* Every packet of the stream has a place and contents.
LEMMA ElementType ==
    ASSUME TypeOK, NEW k \in 1 .. Len(stream)
    PROVE  stream[k].at \in Nat /\ stream[k].pkt \in Packet
<1> DEFINE R == [at : Nat, pkt : Packet]
<1>1. stream \in Seq(R)
  BY DEF TypeOK
<1>2. stream[k] \in R
  BY <1>1, ElementOfSeq
<1>3. QED
  BY <1>2

\* The stream has a length, 0 only if it is empty.
LEMMA LengthType ==
    ASSUME TypeOK
    PROVE  Len(stream) \in Nat /\ (stream = << >> <=> Len(stream) = 0)
<1>1. stream \in Seq([at : Nat, pkt : Packet])
  BY DEF TypeOK
<1>2. QED
  BY <1>1, EmptySeq, LenProperties, SMT

\* The contents of the buffer begin with the next packet of the stream.
LEMMA HeadInBuffer ==
    ASSUME IInv, err = "none", pkt_buf_sz > 0
    PROVE  /\ stream # << >>
           /\ \A i \in 0 .. pkt_buf_sz - 1 : pkt_buf[i] = Head(stream).at + i
<1> USE DEF IInv
<1>1. pkt_buf_sz \in Nat /\ rcvd \in Nat /\ sent \in Nat /\ rcvd <= sent
  BY DEF TypeOK, Positions
<1>2. rcvd - pkt_buf_sz = NextAt(0)
  BY DEF Aligned
<1>3. stream # << >>
  <2>1. SUFFICES ASSUME stream = << >> PROVE FALSE
    OBVIOUS
  <2>2. NextAt(0) = sent
    BY <2>1, LengthType, SMT DEF NextAt
  <2>3. QED
    BY <1>1, <1>2, <2>2, SMT
<1>4. NextAt(0) = Head(stream).at
  BY <1>3, LengthType, HeadType, SMT DEF NextAt
<1>5. \A i \in 0 .. pkt_buf_sz - 1 : pkt_buf[i] = (rcvd - pkt_buf_sz) + i
  BY DEF Window
<1>6. QED
  BY <1>2, <1>3, <1>4, <1>5

\* A claim that is not longer than the contents is the size of the next
\* packet: an incomplete length word never makes one, because the size it is
\* completed to counts the bytes of the word itself.
LEMMA ClaimIsNextPacket ==
    ASSUME IInv, err = "none", pkt_buf_sz > 0,
           NEW w \in LengthWords, Claim(w) <= pkt_buf_sz
    PROVE  stream # << >> /\ IsNextPacket(Claim(w))
<1>1. stream # << >>
  BY HeadInBuffer
<1>2. \A i \in 0 .. pkt_buf_sz - 1 : pkt_buf[i] = Head(stream).at + i
  BY HeadInBuffer
<1>3. TypeOK /\ pkt_buf_sz \in Nat
  BY DEF IInv, TypeOK
<1>4. Head(stream).pkt \in Packet
  BY <1>1, <1>3, HeadType
<1>5. HoldsNext(1)
  BY <1>1, <1>2, <1>3, SMT DEF HoldsNext
<1>6. CASE HoldsNext(HDR_SZ)
  <2>1. w = PktLen[Head(stream).pkt]
    BY <1>6 DEF LengthWords
  <2>2. Claim(w) = Size(Head(stream).pkt)
    BY <1>4, <2>1, ConstantsOK, SizeBounds, SMT DEF Claim, Size
  <2>3. Claim(w) \in Nat
    BY <1>3, ClaimType
  <2>4. HoldsNext(Claim(w))
    BY <1>1, <1>2, <1>3, <2>3, SMT DEF HoldsNext
  <2>5. QED
    BY <1>1, <2>2, <2>4 DEF IsNextPacket
<1>7. CASE ~HoldsNext(HDR_SZ)
  <2>1. pkt_buf_sz < HDR_SZ
    BY <1>1, <1>2, <1>3, <1>7, ConstantsOK, SMT DEF HoldsNext
  <2>2. w \in Garbled[Head(stream).pkt]
    BY <1>5, <1>7 DEF LengthWords
  <2>3. w \in Nat /\ w + HDR_SZ < WORD
    BY <1>4, <2>2, ConstantsOK, SMT
  <2>4. Claim(w) = w + HDR_SZ
    BY <2>3 DEF Claim
  <2>5. QED
    BY <1>3, <2>1, <2>3, <2>4, ConstantsOK, SMT
<1>8. QED
  BY <1>6, <1>7
-----------------------------------------------------------------------------
(* The stream stays one run of bytes: after a write, after a packet is     *)
(* parsed, after the connection ends.                                      *)

\* A packet the server writes continues the stream without a gap.
LEMMA WriteKeepsStream ==
    ASSUME TypeOK, Contiguous, NEW p \in Packet, ServerWrite(p)
    PROVE  Contiguous' /\ NextAt(0)' = NextAt(0)
<1> DEFINE e == [at |-> sent, pkt |-> p]
           R == [at : Nat, pkt : Packet]
<1>1. /\ stream' = Append(stream, e) /\ sent' = sent + Size(p)
      /\ e.at = sent /\ e.pkt = p /\ e \in R /\ stream \in Seq(R)
  BY DEF ServerWrite, TypeOK
<1> HIDE DEF e, R
<1>2. /\ Len(stream') = Len(stream) + 1
      /\ stream'[Len(stream) + 1] = e
      /\ \A k \in 1 .. Len(stream) : stream'[k] = stream[k]
  BY <1>1, AppendProperties
<1>3. Len(stream) \in Nat
  BY LengthType
<1>4. ASSUME NEW k \in 1 .. Len(stream')
      PROVE  stream'[k].at + Size(stream'[k].pkt) = NextAt(k)'
  <2>1. CASE k = Len(stream) + 1
    BY <1>1, <1>2, <1>3, <2>1, SMT DEF NextAt
  <2>2. CASE k \in 1 .. Len(stream)
    <3>1. stream[k].at + Size(stream[k].pkt) = NextAt(k)
      BY <2>2 DEF Contiguous
    <3>2. NextAt(k)' = NextAt(k)
      BY <1>1, <1>2, <1>3, <2>2, SMT DEF NextAt
    <3>3. QED
      BY <1>2, <2>2, <3>1, <3>2
  <2>3. QED
    BY <1>2, <1>3, <2>1, <2>2, SMT
<1>5. NextAt(0)' = NextAt(0)
  BY <1>1, <1>2, <1>3, SMT DEF NextAt
<1>6. QED
  BY <1>4, <1>5 DEF Contiguous, Size

\* Without its first packet the stream has no gap, and begins where that one
\* ended.
LEMMA ParseKeepsStream ==
    ASSUME TypeOK, Contiguous, stream # << >>, stream' = Tail(stream),
           sent' = sent
    PROVE  Contiguous' /\ NextAt(0)' = Head(stream).at + Size(Head(stream).pkt)
<1> DEFINE R == [at : Nat, pkt : Packet]
<1>1. stream \in Seq(R)
  BY DEF TypeOK
<1> HIDE DEF R
<1>2. /\ Len(stream') = Len(stream) - 1
      /\ \A k \in 1 .. Len(stream) - 1 : stream'[k] = stream[k + 1]
  BY <1>1, HeadTailProperties, SMT
<1>3. Len(stream) \in Nat /\ Len(stream) >= 1
  BY LengthType, SMT
<1>4. \A k \in 0 .. Len(stream) - 1 : NextAt(k)' = NextAt(k + 1)
  BY <1>2, <1>3, SMT DEF NextAt
<1>5. ASSUME NEW k \in 1 .. Len(stream')
      PROVE  stream'[k].at + Size(stream'[k].pkt) = NextAt(k)'
  <2>1. k + 1 \in 1 .. Len(stream) /\ k \in 1 .. Len(stream) - 1
    BY <1>2, <1>3, SMT
  <2>2. stream[k + 1].at + Size(stream[k + 1].pkt) = NextAt(k + 1)
    BY <2>1 DEF Contiguous
  <2>3. QED
    BY <1>2, <1>4, <2>1, <2>2, SMT
<1>6. NextAt(0)' = NextAt(1)
  BY <1>3, <1>4, SMT
<1>7. Head(stream) = stream[1] /\ 1 \in 1 .. Len(stream)
  BY HeadType
<1>8. QED
  BY <1>5, <1>6, <1>7 DEF Contiguous, Size
-----------------------------------------------------------------------------
(* The inductive invariant.                                                *)

\* The invariant holds when the program starts.
LEMMA InvInit == Init => IInv
<1>1. ASSUME Init PROVE Len(stream) = 0 /\ TypeOK
  BY <1>1, TypeInit, LengthType DEF Init
<1>2. QED
  BY <1>1, ConstantsOK, SMT DEF Init, IInv, Contiguous, Positions, Capacious,
     Aligned, Window, NoOverflow, NextAt

\* What the server writes keeps it.
LEMMA ServerWriteInv ==
    ASSUME IInv, NEW p \in Packet, ServerWrite(p), TypeOK'
    PROVE  IInv'
<1>1. TypeOK /\ Contiguous
  BY DEF IInv
<1>2. Contiguous' /\ NextAt(0)' = NextAt(0)
  BY <1>1, WriteKeepsStream
<1>3. sent \in Nat /\ rcvd \in Nat /\ Size(p) \in Nat
  BY <1>1, SizeBounds DEF TypeOK
<1>4. Positions'
  BY <1>3, SMT DEF ServerWrite, IInv, Positions
<1>5. Capacious' /\ Aligned' /\ Window' /\ NoOverflow'
  BY <1>2 DEF ServerWrite, IInv, Capacious, Aligned, Window, NoOverflow
<1>6. QED
  BY <1>2, <1>4, <1>5 DEF IInv

\* netio_connect keeps it: the buffer is empty.
LEMMA ConnectInv ==
    ASSUME IInv, Connect, TypeOK'
    PROVE  IInv'
<1>1. Contiguous' /\ NextAt(0)' = NextAt(0)
  BY DEF Connect, IInv, Contiguous, NextAt
<1>2. pkt_buf_sz' = 0 /\ pkt_buf_sz = 0
  BY DEF Connect, IInv, Positions
<1>3. Positions'
  BY DEF Connect, IInv, Positions
<1>4. Capacious' /\ NoOverflow'
  BY <1>2 DEF Connect, IInv, Capacious, NoOverflow
<1>5. Aligned' /\ Window'
  BY <1>1, <1>2 DEF Connect, IInv, Aligned, Window
<1>6. QED
  BY <1>1, <1>3, <1>4, <1>5 DEF IInv

\* netio_disconnect keeps it.
LEMMA DisconnectInv ==
    ASSUME IInv, Disconnect, TypeOK'
    PROVE  IInv'
<1>1. Len(stream') = 0 /\ sent \in Nat
  BY LengthType, EmptySeq DEF IInv, TypeOK, Disconnect
<1>2. Contiguous' /\ NextAt(0)' = sent
  BY <1>1, SMT DEF Disconnect, Contiguous, NextAt
<1>3. Positions'
  BY <1>1, SMT DEF Disconnect, Positions
<1>4. Capacious' /\ NoOverflow'
  BY ConstantsOK, SMT DEF Disconnect, IInv, Capacious, NoOverflow, TypeOK
<1>5. Aligned' /\ Window'
  BY <1>1, <1>2, <1>4, SMT DEF Disconnect, Aligned, Window, Capacious
<1>6. QED
  BY <1>2, <1>3, <1>4, <1>5 DEF IInv

\* The buffer is large enough for what is appended, whether it was
\* reallocated or not, and larger or smaller than before.
LEMMA FetchInv ==
    ASSUME IInv, NEW n \in 1 .. SOCKBUF_SZ, Fetch(n), TypeOK'
    PROVE  IInv'
<1>1. /\ n \in Nat /\ pkt_buf_sz \in Nat /\ pkt_buf_sz_max \in Nat
      /\ rcvd \in Nat /\ sent \in Nat /\ err = "none" /\ err' = "none"
  BY SMT DEF IInv, TypeOK, Fetch, Received
<1>2. Contiguous' /\ NextAt(0)' = NextAt(0)
  BY DEF Fetch, IInv, Contiguous, NextAt
<1>3. Positions'
  BY <1>1, SMT DEF Fetch, Received, Positions
<1>4. /\ Capacity(n) \in Nat
      /\ SOCKBUF_SZ <= Capacity(n)
      /\ pkt_buf_sz + n <= Capacity(n)
      /\ pkt_buf_sz <= pkt_buf_sz_max
  BY <1>1, ConstantsOK, SMT DEF IInv, Capacious, Capacity, MustGrow
<1>5. Capacious' /\ NoOverflow'
  BY <1>1, <1>4 DEF Fetch, Capacious, NoOverflow
<1>6. Aligned'
  BY <1>1, <1>2, SMT DEF Fetch, Received, IInv, Aligned
<1>7. ASSUME NEW i \in 0 .. pkt_buf_sz' - 1
      PROVE  pkt_buf'[i] = (rcvd' - pkt_buf_sz') + i
  <2>0. pkt_buf_sz' = pkt_buf_sz + n /\ rcvd' = rcvd + n
    BY DEF Fetch, Received
  <2>1. /\ i \in 0 .. Capacity(n) - 1 /\ i < pkt_buf_sz + n
        /\ pkt_buf_sz' = pkt_buf_sz + n /\ rcvd' = rcvd + n
    BY <1>1, <1>4, <2>0, SMT
  <2>2. CASE pkt_buf_sz <= i
    BY <1>1, <2>1, <2>2, SMT DEF Fetch
  <2>3. CASE i < pkt_buf_sz
    <3>1. pkt_buf[i] = (rcvd - pkt_buf_sz) + i
      BY <1>1, <2>1, <2>3, SMT DEF IInv, Window
    <3>2. pkt_buf'[i] = pkt_buf[i]
      BY <1>1, <1>4, <2>1, <2>3, SMT DEF Fetch
    <3>3. QED
      BY <1>1, <2>1, <3>1, <3>2, SMT
  <2>4. QED
    BY <1>1, <2>1, <2>2, <2>3, SMT
<1>8. Window'
  BY <1>5, <1>7 DEF Window, Capacious
<1>9. QED
  BY <1>2, <1>3, <1>5, <1>6, <1>8 DEF IInv

\* netio_fetch_packets without memory for a larger buffer keeps it: the
\* contents stay as they are.
LEMMA FetchNoMemoryInv ==
    ASSUME IInv, NEW n \in 1 .. SOCKBUF_SZ, FetchNoMemory(n), TypeOK'
    PROVE  IInv'
<1>1. n \in Nat /\ rcvd \in Nat /\ sent \in Nat
  BY SMT DEF IInv, TypeOK
<1>2. Contiguous'
  BY DEF FetchNoMemory, IInv, Contiguous, NextAt
<1>3. Positions'
  BY <1>1, SMT DEF FetchNoMemory, Received, Positions
<1>4. Capacious' /\ NoOverflow' /\ Aligned' /\ Window'
  BY DEF FetchNoMemory, IInv, Capacious, NoOverflow, Aligned, Window
<1>5. QED
  BY <1>2, <1>3, <1>4 DEF IInv

\* netio_process_packets keeps it: what is moved to the front is the stream
\* without its first packet.
LEMMA ProcessPacketsInv ==
    ASSUME IInv, ProcessPackets, TypeOK'
    PROVE  IInv'
<1>1. /\ TypeOK /\ Contiguous /\ err = "none" /\ pkt_buf_sz > 0
      /\ pkt_buf_sz \in Nat /\ pkt_buf_sz_max \in Nat /\ rcvd \in Nat
      /\ pkt_buf_sz <= pkt_buf_sz_max
      /\ DOMAIN pkt_buf = 0 .. pkt_buf_sz_max - 1
  BY DEF IInv, TypeOK, ProcessPackets, Capacious
<1>2. PICK w \in LengthWords :
        /\ Claim(w) <= pkt_buf_sz
        /\ last' = IF IsNextPacket(Claim(w)) THEN Head(stream).pkt
                                             ELSE Misread
        /\ stream' = IF IsNextPacket(Claim(w)) THEN Tail(stream)
                                               ELSE stream
        /\ MoveDown(Claim(w))
  BY DEF ProcessPackets, Complete
<1>3. stream # << >> /\ IsNextPacket(Claim(w))
  BY <1>1, <1>2, ClaimIsNextPacket
<1>4. Claim(w) \in Nat
  BY <1>1, ClaimType
<1>5. /\ pkt_buf_sz' = pkt_buf_sz - Claim(w)
      /\ pkt_buf_sz' \in Nat
      /\ pkt_buf_sz_max' = pkt_buf_sz_max /\ rcvd' = rcvd /\ sent' = sent
  BY <1>1, <1>2, <1>4, SMT DEF MoveDown, ProcessPackets
<1>6. Contiguous' /\ NextAt(0)' = Head(stream).at + Claim(w)
  BY <1>1, <1>2, <1>3, <1>5, ParseKeepsStream DEF IsNextPacket
<1>7. Head(stream).at = rcvd - pkt_buf_sz
  <2>1. NextAt(0) = Head(stream).at
    BY <1>1, <1>3, HeadType, LengthType, SMT DEF NextAt
  <2>2. QED
    BY <1>1, <2>1 DEF IInv, Aligned
<1>8. Aligned'
  BY <1>1, <1>4, <1>5, <1>6, <1>7, SMT DEF Aligned
<1>9. Positions'
  BY <1>1 DEF ProcessPackets, IInv, Positions
<1>10. NoOverflow'
  BY <1>1, <1>2, <1>4, SMT DEF MoveDown, NoOverflow
<1>11. Capacious'
  BY <1>1, <1>4, <1>5, SMT DEF IInv, Capacious
<1>12. ASSUME NEW i \in 0 .. pkt_buf_sz' - 1
       PROVE  pkt_buf'[i] = (rcvd' - pkt_buf_sz') + i
  <2>1. /\ i \in DOMAIN pkt_buf
        /\ i + Claim(w) \in 0 .. pkt_buf_sz - 1
        /\ i < pkt_buf_sz - Claim(w)
        /\ i + Claim(w) < pkt_buf_sz_max
    BY <1>1, <1>4, <1>5, SMT
  <2>2. pkt_buf'[i] = pkt_buf[i + Claim(w)]
    BY <1>2, <2>1 DEF MoveDown
  <2>3. pkt_buf[i + Claim(w)] = (rcvd - pkt_buf_sz) + (i + Claim(w))
    BY <1>1, <2>1 DEF IInv, Window
  <2>4. QED
    BY <1>1, <1>4, <1>5, <2>2, <2>3, SMT
<1>13. Window'
  BY <1>11, <1>12 DEF Window, Capacious
<1>14. QED
  BY <1>6, <1>8, <1>9, <1>10, <1>11, <1>13 DEF IInv

\* Every step keeps the invariant.
LEMMA InvStep ==
    ASSUME IInv, [Next]_vars
    PROVE  IInv'
<1>1. TypeOK'
  BY TypeStep DEF IInv
<1>2. ASSUME NEW p \in Packet, ServerWrite(p) PROVE IInv'
  BY <1>1, <1>2, ServerWriteInv
<1>3. CASE Connect
  BY <1>1, <1>3, ConnectInv
<1>4. CASE Disconnect
  BY <1>1, <1>4, DisconnectInv
<1>5. ASSUME NEW n \in 1 .. SOCKBUF_SZ, Fetch(n) PROVE IInv'
  BY <1>1, <1>5, FetchInv
<1>6. ASSUME NEW n \in 1 .. SOCKBUF_SZ, FetchNoMemory(n) PROVE IInv'
  BY <1>1, <1>6, FetchNoMemoryInv
<1>7. CASE ProcessPackets
  BY <1>1, <1>7, ProcessPacketsInv
<1>8. CASE UNCHANGED vars
  BY <1>8 DEF vars, IInv, TypeOK, Contiguous, Positions, Capacious, Aligned,
     Window, NoOverflow, NextAt
<1>9. QED
  BY <1>2, <1>3, <1>4, <1>5, <1>6, <1>7, <1>8 DEF Next

\* The buffer always holds the received and unparsed bytes of the current
\* connection, from the first byte of a packet on (netio.c:105-239).
THEOREM Invariant == Spec => []IInv
<1>1. Init => IInv
  BY InvInit
<1>2. IInv /\ [Next]_vars => IInv'
  BY InvStep
<1>3. QED
  BY <1>1, <1>2, PTL DEF Spec

\* No reallocation, move or reconnection loses, repeats or shifts a byte.
THEOREM WindowKept == Spec => []Window
<1>1. IInv => Window
  BY DEF IInv
<1>2. QED
  BY <1>1, Invariant, PTL

\* MINHOP_ERR_OVERFLOW is never returned (netio.c:209, main.c:67) by calls that
\* are not made from within each other.
THEOREM OverflowFree == Spec => []NoOverflow
<1>1. IInv => NoOverflow
  BY DEF IInv
<1>2. QED
  BY <1>1, Invariant, PTL
-----------------------------------------------------------------------------
(* Netio implements SynStream.                                             *)

\* A function from 1 .. n is a sequence of length n.
LEMMA FunctionIsSeq ==
    ASSUME NEW S, NEW n \in Nat, NEW f \in [1 .. n -> S]
    PROVE  f \in Seq(S) /\ Len(f) = n
<1>1. f \in Seq(S)
  BY SeqDef
<1>2. QED
  BY <1>1, LenProperties, SMT

Element == [at : Nat, pkt : Packet]

\* The packets of a stream are a sequence as long as it.
LEMMA PacketsOfSeq ==
    ASSUME NEW s \in Seq(Element)
    PROVE  /\ PacketsOf(s) \in Seq(Packet)
           /\ Len(PacketsOf(s)) = Len(s)
           /\ Len(s) \in Nat
           /\ \A k \in 1 .. Len(s) : PacketsOf(s)[k] = s[k].pkt
<1>1. DOMAIN s = 1 .. Len(s) /\ Len(s) \in Nat
  BY LenProperties
<1>2. ASSUME NEW k \in 1 .. Len(s) PROVE s[k].pkt \in Packet
  <2>1. s[k] \in Element
    BY ElementOfSeq
  <2>2. QED
    BY <2>1 DEF Element
<1>3. PacketsOf(s) \in [1 .. Len(s) -> Packet]
  BY <1>1, <1>2 DEF PacketsOf
<1>4. QED
  BY <1>1, <1>3, FunctionIsSeq DEF PacketsOf

\* A packet more in the stream is a packet more of it.
LEMMA PacketsOfAppend ==
    ASSUME NEW s \in Seq(Element), NEW e \in Element
    PROVE  PacketsOf(Append(s, e)) = Append(PacketsOf(s), e.pkt)
<1> DEFINE t == Append(s, e)
           u == Append(PacketsOf(s), e.pkt)
<1>1. e.pkt \in Packet
  BY DEF Element
<1>2. /\ t \in Seq(Element) /\ Len(t) = Len(s) + 1
      /\ \A k \in 1 .. Len(s) : t[k] = s[k]
      /\ t[Len(s) + 1] = e
  BY AppendProperties
<1>3. /\ u \in Seq(Packet) /\ Len(u) = Len(s) + 1
      /\ \A k \in 1 .. Len(s) : u[k] = PacketsOf(s)[k]
      /\ u[Len(s) + 1] = e.pkt
  BY <1>1, PacketsOfSeq, AppendProperties
<1> HIDE DEF t, u
<1>4. /\ PacketsOf(t) \in Seq(Packet) /\ Len(PacketsOf(t)) = Len(t)
      /\ \A k \in 1 .. Len(t) : PacketsOf(t)[k] = t[k].pkt
  BY <1>2, PacketsOfSeq
<1>5. ASSUME NEW k \in 1 .. Len(t) PROVE PacketsOf(t)[k] = u[k]
  <2>1. CASE k = Len(s) + 1
    BY <1>2, <1>3, <1>4, <2>1
  <2>2. CASE k # Len(s) + 1
    <3>1. k \in 1 .. Len(s)
      BY <1>2, <2>2, PacketsOfSeq, SMT
    <3>2. PacketsOf(s)[k] = s[k].pkt
      BY <3>1, PacketsOfSeq
    <3>3. QED
      BY <1>2, <1>3, <1>4, <3>1, <3>2
  <2>3. QED
    BY <2>1, <2>2
<1>6. PacketsOf(t) = u
  BY <1>2, <1>3, <1>4, <1>5, SeqEqual
<1>7. QED
  BY <1>6 DEF t, u

\* A packet less at the front of the stream is a packet less of it.
LEMMA PacketsOfTail ==
    ASSUME NEW s \in Seq(Element), s # << >>
    PROVE  /\ PacketsOf(s) # << >>
           /\ Head(PacketsOf(s)) = Head(s).pkt
           /\ PacketsOf(Tail(s)) = Tail(PacketsOf(s))
<1> DEFINE t == Tail(s)
           u == PacketsOf(s)
<1>1. Len(s) \in Nat /\ Len(s) >= 1
  BY EmptySeq, SMT
<1>2. /\ u \in Seq(Packet) /\ Len(u) = Len(s)
      /\ \A k \in 1 .. Len(s) : u[k] = s[k].pkt
  BY PacketsOfSeq
<1>3. /\ t \in Seq(Element) /\ Len(t) = Len(s) - 1
      /\ \A k \in 1 .. Len(t) : t[k] = s[k + 1]
  BY HeadTailProperties
<1> HIDE DEF t, u
<1>4. u # << >>
  BY <1>1, <1>2, EmptySeq, SMT
<1>5. Head(u) = u[1] /\ Head(s) = s[1]
  BY <1>1, <1>2, SMT
<1>6. Head(u) = Head(s).pkt
  BY <1>1, <1>2, <1>5, SMT
<1>7. /\ Tail(u) \in Seq(Packet) /\ Len(Tail(u)) = Len(u) - 1
      /\ \A k \in 1 .. Len(Tail(u)) : Tail(u)[k] = u[k + 1]
  BY <1>2, <1>4, HeadTailProperties
<1>8. /\ PacketsOf(t) \in Seq(Packet) /\ Len(PacketsOf(t)) = Len(t)
      /\ \A k \in 1 .. Len(t) : PacketsOf(t)[k] = t[k].pkt
  BY <1>3, PacketsOfSeq
<1>9. ASSUME NEW k \in 1 .. Len(t) PROVE PacketsOf(t)[k] = Tail(u)[k]
  <2>1. k \in 1 .. Len(Tail(u)) /\ k + 1 \in 1 .. Len(s)
    BY <1>1, <1>2, <1>3, <1>7, SMT
  <2>2. QED
    BY <1>2, <1>3, <1>7, <1>8, <2>1
<1>10. PacketsOf(t) = Tail(u)
  BY <1>2, <1>3, <1>7, <1>8, <1>9, SeqEqual
<1>11. QED
  BY <1>4, <1>6, <1>10 DEF t, u

\* An empty stream has no packets.
LEMMA PacketsOfEmpty == PacketsOf(<< >>) = << >>
<1>1. << >> \in Seq(Element) /\ Len(<< >>) = 0
  BY EmptySeq
<1>2. PacketsOf(<< >>) \in Seq(Packet) /\ Len(PacketsOf(<< >>)) = 0
  BY <1>1, PacketsOfSeq
<1>3. QED
  BY <1>2, EmptySeq, SMT

\* netio_process_packets hands the parser the packets of the current
\* connection whole, once each and in order; nothing else does.
THEOREM ImplementsSynStream == Spec => StreamSpec
<1>1. Init => Stream!Init
  BY PacketsOfEmpty DEF Init, Stream!Init
<1>2. ASSUME IInv, [Next]_vars
      PROVE  [Stream!Next]_<<PacketsOf(stream), last>>
  <2>1. stream \in Seq(Element) /\ TypeOK
    BY <1>2 DEF IInv, TypeOK, Element
  <2>2. ASSUME NEW p \in Packet, ServerWrite(p) PROVE Stream!Write(p)
    <3>1. [at |-> sent, pkt |-> p] \in Element
      BY <2>1 DEF TypeOK, Element
    <3>2. PacketsOf(stream') = Append(PacketsOf(stream), p)
      BY <2>1, <2>2, <3>1, PacketsOfAppend DEF ServerWrite
    <3>3. QED
      BY <2>2, <3>2 DEF ServerWrite, Stream!Write
  <2>3. CASE Disconnect
    BY <2>3, PacketsOfEmpty DEF Disconnect, Stream!Reset, Stream!Next
  <2>4. CASE ProcessPackets
    <3>1. err = "none" /\ pkt_buf_sz > 0
      BY <2>4 DEF ProcessPackets
    <3>2. PICK w \in LengthWords :
            /\ Claim(w) <= pkt_buf_sz
            /\ last' = IF IsNextPacket(Claim(w)) THEN Head(stream).pkt
                                                 ELSE Misread
            /\ stream' = IF IsNextPacket(Claim(w)) THEN Tail(stream)
                                                   ELSE stream
      BY <2>4 DEF ProcessPackets, Complete
    <3>3. stream # << >> /\ IsNextPacket(Claim(w))
      BY <1>2, <3>1, <3>2, ClaimIsNextPacket
    <3>4. last' = Head(stream).pkt /\ stream' = Tail(stream)
      BY <3>2, <3>3
    <3>5. Stream!Deliver
      BY <2>1, <3>3, <3>4, PacketsOfTail DEF Stream!Deliver
    <3>6. QED
      BY <3>5 DEF Stream!Next
  <2>5. ASSUME NEW n \in 1 .. SOCKBUF_SZ, Fetch(n) \/ FetchNoMemory(n)
        PROVE  UNCHANGED <<PacketsOf(stream), last>>
    BY <2>5 DEF Fetch, FetchNoMemory
  <2>6. CASE Connect \/ UNCHANGED vars
    BY <2>6 DEF Connect, vars
  <2>7. QED
    BY <1>2, <2>2, <2>3, <2>4, <2>5, <2>6 DEF Next, Stream!Next
<1>3. QED
  BY <1>1, <1>2, Invariant, PTL DEF Spec, StreamSpec, Stream!Spec
==============================================================================
