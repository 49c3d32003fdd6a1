-------------------------------- MODULE Netio --------------------------------
(***************************************************************************)
(* The receive side of netio.c, byte by byte: the packet buffer that       *)
(* netio_fetch_packets appends to and netio_process_packets takes packets  *)
(* from, across connections.                                               *)
(*                                                                         *)
(* A byte is known by its position in what the server has written: a cell  *)
(* of the buffer holds the position of the byte stored there, or Stale for *)
(* memory no byte of a server was ever stored in.  Positions go on across  *)
(* connections, so a byte left over from an old connection is never taken  *)
(* for one of the new.  A packet is a length word of HDR_SZ bytes followed *)
(* by that many bytes.                                                     *)
(*                                                                         *)
(* The operations may be called in any order the guards allow: the order   *)
(* minput_loop_iter imposes is the subject of MinputLoop.                  *)
(***************************************************************************)
EXTENDS Integers, Sequences

CONSTANTS
    Packet,        \* the packets a server can write
    NoPacket,      \* nothing was parsed on this connection yet
    Misread,       \* what was parsed is not the next packet of the stream
    PktLen,        \* PktLen[p]: the value of the length word of p
    Garbled,       \* Garbled[p]: the values the length word of p can show
                   \* while only a part of it has arrived, the other bytes
                   \* being whatever the buffer held before
    HDR_SZ,        \* bytes of a length word
    WORD,          \* 2^(bits of a uint32_t)
    SOCKBUF_SZ,    \* bytes asked of recv(), and the first buffer's size
    SLACK,         \* bytes a reallocated buffer is larger than its contents
    MaxSent        \* bound: bytes the server writes in a behaviour

Size(p) == HDR_SZ + PktLen[p]

\* The length word of a packet, whole or not, has a first byte below 0xFF:
\* HDR_SZ can be added to it without wrapping.
ASSUME ConstantsOK ==
    /\ HDR_SZ \in Nat \ {0}
    /\ SOCKBUF_SZ \in Nat /\ HDR_SZ <= SOCKBUF_SZ
    /\ SLACK \in Nat
    /\ WORD \in Nat
    /\ MaxSent \in Nat
    /\ PktLen \in [Packet -> Nat]
    /\ \A p \in Packet : Size(p) < WORD
    /\ Garbled \in [Packet -> SUBSET Nat]
    /\ \A p \in Packet : \A w \in Garbled[p] : w + HDR_SZ < WORD
    /\ NoPacket \notin Packet
    /\ Misread \notin Packet /\ Misread # NoPacket

VARIABLES
    socket_fd,       \* 0: no connection; 1: a connected socket
    pkt_buf,         \* the cells of the packet buffer
    pkt_buf_sz,      \* cells in use
    pkt_buf_sz_max,  \* cells there are
    err,             \* the error that ends the program, or "none"
    stream,          \* packets written on this connection and not yet
                     \* parsed, each with the position of its first byte
    sent,            \* bytes the servers have written
    rcvd,            \* bytes recv() has returned or the connections lost
    last             \* what the parser was given most recently

vars == <<socket_fd, pkt_buf, pkt_buf_sz, pkt_buf_sz_max, err, stream, sent,
          rcvd, last>>

Stale == -1

TypeOK ==
    /\ socket_fd \in {0, 1}
    /\ pkt_buf_sz \in Nat
    /\ pkt_buf_sz_max \in Nat
    /\ pkt_buf \in [0 .. pkt_buf_sz_max - 1 -> Nat \cup {Stale}]
    /\ err \in {"none", "alloc", "overflow"}
    /\ stream \in Seq([at : Nat, pkt : Packet])
    /\ sent \in Nat
    /\ rcvd \in Nat
    /\ last \in Packet \cup {NoPacket, Misread}

Init ==
    /\ socket_fd = 0
    /\ pkt_buf = [i \in 0 .. SOCKBUF_SZ - 1 |-> Stale]
    /\ pkt_buf_sz = 0
    /\ pkt_buf_sz_max = SOCKBUF_SZ
    /\ err = "none"
    /\ stream = << >>
    /\ sent = 0
    /\ rcvd = 0
    /\ last = NoPacket

-----------------------------------------------------------------------------
(* The server and the connection.                                          *)

ServerWrite(p) ==
    /\ socket_fd = 1
    /\ sent + Size(p) <= MaxSent
    /\ stream' = Append(stream, [at |-> sent, pkt |-> p])
    /\ sent' = sent + Size(p)
    /\ UNCHANGED <<socket_fd, pkt_buf, pkt_buf_sz, pkt_buf_sz_max, err, rcvd,
                   last>>

\* A failed attempt (socket or connect returns an error) leaves socket_fd
\* and the buffer as they are here before it: a step that changes nothing.
Connect ==
    /\ err = "none"
    /\ socket_fd = 0
    /\ socket_fd' = 1
    /\ pkt_buf_sz' = 0
    /\ UNCHANGED <<pkt_buf, pkt_buf_sz_max, err, stream, sent, rcvd, last>>

\* Mutant: the contents of the buffer survive the connection.
DisconnectKeepsBuffer ==
    /\ socket_fd = 1
    /\ socket_fd' = 0
    /\ stream' = << >>
    /\ rcvd' = sent
    /\ last' = NoPacket
    /\ UNCHANGED <<pkt_buf, pkt_buf_sz, pkt_buf_sz_max, err, sent>>

\* The bytes that were on their way are lost with the connection; what the
\* cells of the buffer hold stays there.
Disconnect ==
    /\ socket_fd = 1
    /\ socket_fd' = 0
    /\ pkt_buf_sz' = 0
    /\ stream' = << >>
    /\ rcvd' = sent
    /\ last' = NoPacket
    /\ UNCHANGED <<pkt_buf, pkt_buf_sz_max, err, sent>>

-----------------------------------------------------------------------------
(* netio_fetch_packets: recv() returns n bytes.  A recv() that returns     *)
(* none (timeout, closed connection, error) changes nothing here.          *)

Received(n) ==
    /\ err = "none"
    /\ socket_fd = 1
    /\ n <= sent - rcvd
    /\ rcvd' = rcvd + n

MustGrow(n) == pkt_buf_sz + n >= SOCKBUF_SZ

\* Mutant: the new size forgets what the buffer holds already.
CapacityOfReceived(n) ==
    IF MustGrow(n) THEN n + SLACK ELSE pkt_buf_sz_max

Capacity(n) ==
    IF MustGrow(n) THEN pkt_buf_sz + n + SLACK ELSE pkt_buf_sz_max

Fetch(n) ==
    /\ Received(n)
    /\ pkt_buf_sz_max' = Capacity(n)
    /\ pkt_buf' =
        [i \in 0 .. Capacity(n) - 1 |->
            IF pkt_buf_sz <= i /\ i < pkt_buf_sz + n
              THEN rcvd + (i - pkt_buf_sz)
              ELSE IF i < pkt_buf_sz_max THEN pkt_buf[i] ELSE Stale]
    /\ pkt_buf_sz' = pkt_buf_sz + n
    /\ UNCHANGED <<socket_fd, err, stream, sent, last>>

\* realloc() returns NULL: the buffer stays, the bytes received are lost, and
\* minput_loop_iter gives up.
FetchNoMemory(n) ==
    /\ Received(n)
    /\ MustGrow(n)
    /\ err' = "alloc"
    /\ UNCHANGED <<socket_fd, pkt_buf, pkt_buf_sz, pkt_buf_sz_max, stream,
                   sent, last>>

-----------------------------------------------------------------------------
(* netio_process_packets.                                                  *)

HoldsNext(n) ==
    /\ stream # << >>
    /\ \A i \in 0 .. n - 1 : pkt_buf[i] = Head(stream).at + i

\* What swap_32 of the first four bytes of the buffer can be.  The code reads
\* all four however few of them belong to the contents.
LengthWords ==
    IF HoldsNext(HDR_SZ) THEN {PktLen[Head(stream).pkt]}
    ELSE IF HoldsNext(1) THEN Garbled[Head(stream).pkt]
    ELSE 0 .. WORD - 1

\* Mutant: the length word taken for the size of the whole packet.
ClaimOfPayload(w) == w

\* pkt_claim_sz, a uint32_t.
Claim(w) == IF w + HDR_SZ < WORD THEN w + HDR_SZ ELSE w + HDR_SZ - WORD

\* Mutant: an off-by-one in the test for a complete packet.
CompleteAndMore(claim) == claim < pkt_buf_sz

Complete(claim) == claim <= pkt_buf_sz

\* The claim bytes handed to the parser are exactly the next packet.
IsNextPacket(claim) ==
    /\ HoldsNext(claim)
    /\ claim = Size(Head(stream).pkt)

\* Mutant: the rest is moved before pkt_buf_sz is lowered.
MoveDownTooMuch(claim) ==
    /\ pkt_buf_sz' = pkt_buf_sz - claim
    /\ pkt_buf' =
        [i \in DOMAIN pkt_buf |->
            IF i < pkt_buf_sz /\ i + claim < pkt_buf_sz_max
              THEN pkt_buf[i + claim] ELSE pkt_buf[i]]
    /\ err' = IF pkt_buf_sz - 1 + claim >= pkt_buf_sz_max
                THEN "overflow" ELSE "none"

\* The loop that moves the rest down stops at the first cell past the end of
\* the buffer and reports an overflow.
MoveDown(claim) ==
    LET rest == pkt_buf_sz - claim
    IN  /\ pkt_buf_sz' = rest
        /\ pkt_buf' =
            [i \in DOMAIN pkt_buf |->
                IF i < rest /\ i + claim < pkt_buf_sz_max
                  THEN pkt_buf[i + claim] ELSE pkt_buf[i]]
        /\ err' = IF rest > 0 /\ rest - 1 + claim >= pkt_buf_sz_max
                    THEN "overflow" ELSE "none"

\* A call that finds the buffer empty or the packet incomplete changes
\* nothing.  The parser's own error (ERR_PROTOCOL) does not keep the packet
\* from being removed, and the loop drops it.
ProcessPackets ==
    /\ err = "none"
    /\ pkt_buf_sz > 0
    /\ \E w \in LengthWords :
        LET claim == Claim(w)
        IN  /\ Complete(claim)
            /\ last' = IF IsNextPacket(claim) THEN Head(stream).pkt
                                              ELSE Misread
            /\ stream' = IF IsNextPacket(claim) THEN Tail(stream) ELSE stream
            /\ MoveDown(claim)
    /\ UNCHANGED <<socket_fd, pkt_buf_sz_max, sent, rcvd>>

-----------------------------------------------------------------------------
Next ==
    \/ \E p \in Packet : ServerWrite(p)
    \/ Connect
    \/ Disconnect
    \/ \E n \in 1 .. SOCKBUF_SZ : Fetch(n)
    \/ \E n \in 1 .. SOCKBUF_SZ : FetchNoMemory(n)
    \/ ProcessPackets

Spec == Init /\ [][Next]_vars

\* The loop of the client keeps fetching and processing.
FairSpec ==
    /\ Spec
    /\ WF_vars(\E n \in 1 .. SOCKBUF_SZ : Fetch(n))
    /\ WF_vars(ProcessPackets)

-----------------------------------------------------------------------------
(* Properties.                                                             *)

\* The buffer is exactly what was received on this connection and not yet
\* parsed, in order, from its first cell on: no reallocation, move or
\* reconnection loses, repeats or shifts a byte (netio.c:128-148, 200-216).
Window ==
    err = "none" =>
        /\ pkt_buf_sz <= pkt_buf_sz_max
        /\ \A i \in 0 .. pkt_buf_sz - 1 :
            pkt_buf[i] = (rcvd - pkt_buf_sz) + i

\* "Overflow is a show-stopped! (But probably shouldn't happen?)"
\* (main.c:68): it never does, however the bytes are cut up by recv() and
\* whatever is left over in the buffer after the contents, as long as one call
\* returns before the next begins.  So it is on Unix; WinLoop has the calls
\* that a dialog nests into each other on Windows, where it does happen.
NoOverflow == err # "overflow"

\* Every packet is parsed whole, once, in the order written, and nothing
\* else is ever given to synproto_parse_and_reply (netio.c:179-216): neither
\* a packet whose length word is still incomplete, nor the leftovers of an
\* earlier connection.
PacketsOf(s) == [k \in DOMAIN s |-> s[k].pkt]
Stream == INSTANCE SynStream WITH pending <- PacketsOf(stream)
StreamSpec == Stream!Spec

\* "Let's wait until we've fetched the rest!" (netio.c:188): a connection
\* that stays up while the client keeps going has all its packets parsed in
\* the end; none is waited for that is already there.
AllParsed ==
    <>[](socket_fd = 1 /\ err = "none") => <>[](stream = << >>)

-----------------------------------------------------------------------------
(* The invariant that is inductive.                                        *)

\* The position after packet k of the stream: the next packet's first byte.
NextAt(k) == IF k < Len(stream) THEN stream[k + 1].at ELSE sent

Contiguous ==
    \A k \in 1 .. Len(stream) :
        stream[k].at + Size(stream[k].pkt) = NextAt(k)

Positions ==
    /\ rcvd <= sent
    /\ socket_fd = 0 => pkt_buf_sz = 0 /\ stream = << >> /\ rcvd = sent

Capacious ==
    /\ SOCKBUF_SZ <= pkt_buf_sz_max
    /\ pkt_buf_sz <= pkt_buf_sz_max

\* The first cell of the buffer is the first byte of the next packet.
Aligned == err = "none" => rcvd - pkt_buf_sz = NextAt(0)

IInv ==
    /\ TypeOK
    /\ Contiguous
    /\ Positions
    /\ Capacious
    /\ Aligned
    /\ Window
    /\ NoOverflow
==============================================================================
