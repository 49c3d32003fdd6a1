----------------------------- MODULE MinputLoop -----------------------------
(***************************************************************************)
(* The main loop of the client: osio_loop of the Unix build calling        *)
(* minput_loop_iter for ever, with the operations of netio.c it calls, the *)
(* replies synproto_parse_and_reply sends and the keepalive deadline,      *)
(* against a server and a network that may stop at any moment.             *)
(*                                                                         *)
(* Packets are whole here: Netio shows that netio.c cuts the byte stream   *)
(* into exactly the packets written and that its overflow branch is dead.  *)
(* That time passes in recv() only is an assumption: the rest of an        *)
(* iteration takes nothing next to a tick, and neither does send(), which  *)
(* has no timeout and could wait for a server that does not read.          *)
(* connect() may take long, but the deadline is set when it returns.  The  *)
(* clock of this module does not wrap.                                     *)
(***************************************************************************)
EXTENDS Integers, Sequences, FiniteSets

CONSTANTS
    Kind,               \* the kinds of packet the server writes
    PKT_PROC_PER_LOOP,  \* packets an iteration processes at most
    TIMEOUT,            \* SYNPROTO_TIMEOUT_MS, in ticks
    RCVTIMEO,           \* the socket's receive timeout, in ticks
    MaxRecv,            \* bound: packets one recv() completes
    MaxBacklog,         \* bound: packets on their way or in the buffer
    REALLOC_AT,         \* packets that make the buffer be reallocated
    SIGPIPE             \* send() to a connection that was reset ends the
                        \* process: TRUE on Unix, FALSE on Windows

ASSUME LoopConstantsOK ==
    /\ PKT_PROC_PER_LOOP \in Nat \ {0}
    /\ TIMEOUT \in Nat
    /\ RCVTIMEO \in Nat
    /\ MaxRecv \in Nat
    /\ MaxBacklog \in Nat
    /\ REALLOC_AT \in Nat
    /\ SIGPIPE \in BOOLEAN

VARIABLES
    pc,             \* where minput_loop_iter is, or how the program ended
    socket_fd,      \* 0: no connection; 1: a socket
    link,           \* what the socket is connected to: see Links
    inflight,       \* packets written by the server, not yet received
    buffered,       \* whole packets in pkt_buf
    partial,        \* pkt_buf ends with a part of the next packet
    pkt_proc_iter,  \* packets looked at in this iteration
    calv_left,      \* ticks from now to calv_deadline
    waited,         \* ticks spent in the current recv()
    silent,         \* ticks since a keepalive was received, or the connection
                    \* made, as far as the properties tell them apart
    owed,           \* owed[k]: requests of kind k of this connection that
                    \* were not answered on it
    died            \* recv() has reported the end of this connection

vars == <<pc, socket_fd, link, inflight, buffered, partial, pkt_proc_iter,
          calv_left, waited, silent, owed, died>>

netVars == <<link, inflight>>
bufVars == <<buffered, partial>>
timeVars == <<calv_left, waited, silent>>

\* open: both ends are up.  fin: the server has closed its end.  rst: a reset
\* has arrived.  gone: nothing comes from the server any more, not even that.
Links == {"none", "open", "fin", "rst", "gone"}

Requests == {"Barr", "QINF", "CALV"}    \* synproto_send follows
KeepsAlive == {"Barr", "CALV"}          \* synproto_reset_calv_deadline follows

Steps == {"top", "fetch", "process", "check", "cleanup"}
Ends == {"ended", "killed"}

TypeOK ==
    /\ pc \in Steps \cup Ends
    /\ socket_fd \in {0, 1}
    /\ link \in Links
    /\ inflight \in Seq(Kind)
    /\ buffered \in Seq(Kind)
    /\ partial \in BOOLEAN
    /\ pkt_proc_iter \in 0 .. PKT_PROC_PER_LOOP
    /\ calv_left \in -(RCVTIMEO + 1) .. TIMEOUT
    /\ waited \in 0 .. RCVTIMEO
    /\ silent \in 0 .. TIMEOUT + 1
    /\ owed \in [Requests -> Int]
    /\ died \in BOOLEAN

NothingOwed == [k \in Requests |-> 0]

Init ==
    /\ pc = "top"
    /\ socket_fd = 0
    /\ link = "none"
    /\ inflight = << >>
    /\ buffered = << >>
    /\ partial = FALSE
    /\ pkt_proc_iter = 0
    /\ calv_left = -(RCVTIMEO + 1)
    /\ waited = 0
    /\ silent = 0
    /\ owed = NothingOwed
    /\ died = FALSE

-----------------------------------------------------------------------------
(* The server and the network.                                             *)

\* The server asks for the screen (QINF) again only once it was told.
ServerWrite(k) ==
    /\ link = "open"
    /\ Len(inflight) + Len(buffered) < MaxBacklog
    /\ k \in Requests \ KeepsAlive => owed[k] = 0
    /\ inflight' = Append(inflight, k)
    /\ owed' = IF k \in Requests THEN [owed EXCEPT ![k] = @ + 1] ELSE owed
    /\ UNCHANGED <<pc, socket_fd, link, bufVars, pkt_proc_iter, timeVars, died>>

ServerClose ==
    /\ link = "open"
    /\ link' = "fin"
    /\ UNCHANGED <<pc, socket_fd, inflight, bufVars, pkt_proc_iter, timeVars,
                   owed, died>>

\* A reset answers what is sent to a server that has closed its end, or comes
\* from one that closes without having read everything.
ServerReset ==
    /\ link \in {"open", "fin"}
    /\ link' = "rst"
    /\ inflight' \in {inflight, << >>}
    /\ UNCHANGED <<pc, socket_fd, bufVars, pkt_proc_iter, timeVars, owed, died>>

ServerGone ==
    /\ link = "open"
    /\ link' = "gone"
    /\ inflight' = << >>
    /\ UNCHANGED <<pc, socket_fd, bufVars, pkt_proc_iter, timeVars, owed, died>>

Later(t) == IF t > -(RCVTIMEO + 1) THEN t - 1 ELSE t

Tick ==
    /\ pc = "fetch"
    /\ waited < RCVTIMEO
    /\ waited' = waited + 1
    /\ calv_left' = Later(calv_left)
    /\ silent' = IF silent <= TIMEOUT THEN silent + 1 ELSE silent
    /\ UNCHANGED <<pc, socket_fd, netVars, bufVars, pkt_proc_iter, owed, died>>

-----------------------------------------------------------------------------
(* Connecting and disconnecting.                                           *)

\* Mutant: nothing sets pkt_buf_sz to 0.
KeepBuffer == UNCHANGED bufVars

\* pkt_buf_sz = 0
EmptyBuffer == buffered' = << >> /\ partial' = FALSE

ResetDeadline == calv_left' = TIMEOUT

Connect ==
    /\ pc = "top"
    /\ socket_fd = 0
    /\ socket_fd' = 1
    /\ link' = "open"
    /\ EmptyBuffer
    /\ ResetDeadline
    /\ silent' = 0
    /\ waited' = 0
    /\ pkt_proc_iter' = 0
    /\ pc' = "fetch"
    /\ UNCHANGED <<inflight, owed, died>>

\* The iteration ends at once and the next one tries again.
ConnectFails ==
    /\ pc = "top"
    /\ socket_fd = 0
    /\ EmptyBuffer
    /\ ResetDeadline
    /\ UNCHANGED <<pc, socket_fd, netVars, pkt_proc_iter, waited, silent, owed,
                   died>>

StayConnected ==
    /\ pc = "top"
    /\ socket_fd = 1
    /\ waited' = 0
    /\ pkt_proc_iter' = 0
    /\ pc' = "fetch"
    /\ UNCHANGED <<socket_fd, netVars, bufVars, calv_left, silent, owed, died>>

\* Mutant: the socket is closed but still taken for one.
DisconnectKeepsSocket ==
    /\ EmptyBuffer
    /\ link' = "none"
    /\ inflight' = << >>
    /\ owed' = NothingOwed
    /\ died' = FALSE
    /\ UNCHANGED socket_fd

Disconnect ==
    /\ socket_fd' = 0
    /\ EmptyBuffer
    /\ link' = "none"
    /\ inflight' = << >>
    /\ owed' = NothingOwed
    /\ died' = FALSE

-----------------------------------------------------------------------------
(* netio_fetch_packets.                                                    *)

\* recv() has completed the first m packets on their way, and, if more is
\* set, a part of the one that follows.
Receive(m, more) ==
    /\ pc = "fetch"
    /\ m <= Len(inflight)
    /\ more => m < Len(inflight)
    /\ m = 0 => more /\ ~partial
    /\ inflight' = SubSeq(inflight, m + 1, Len(inflight))

FetchData(m, more) ==
    /\ Receive(m, more)
    /\ buffered' = buffered \o SubSeq(inflight, 1, m)
    /\ partial' = more
    /\ silent' = IF \E i \in 1 .. m : inflight[i] \in KeepsAlive
                   THEN 0 ELSE silent
    /\ pc' = "process"
    /\ UNCHANGED <<socket_fd, link, pkt_proc_iter, calv_left, waited, owed,
                   died>>

\* realloc() fails: ERR_ALLOC ends the loop.
FetchNoMemory(m, more) ==
    /\ Receive(m, more)
    /\ Len(buffered) + m >= REALLOC_AT
    /\ pc' = "cleanup"
    /\ UNCHANGED <<socket_fd, link, bufVars, pkt_proc_iter, timeVars, owed,
                   died>>

\* Mutant: the loop starts again when nothing was received.
FetchTimeoutRestarts ==
    /\ pc = "fetch"
    /\ link # "rst"
    /\ waited = RCVTIMEO
    /\ pc' = "top"
    /\ UNCHANGED <<socket_fd, netVars, bufVars, pkt_proc_iter, timeVars, owed,
                   died>>

\* ERR_RECV because nothing came in time.  It is no error to the loop.
FetchTimeout ==
    /\ pc = "fetch"
    /\ link # "rst"
    /\ waited = RCVTIMEO
    /\ pc' = "process"
    /\ UNCHANGED <<socket_fd, netVars, bufVars, pkt_proc_iter, timeVars, owed,
                   died>>

\* ERR_RECV because the connection is over.  The loop does not tell the two
\* apart: the socket stays.
FetchEnded ==
    /\ pc = "fetch"
    /\ link \in {"fin", "rst"}
    /\ inflight = << >>
    /\ died' = TRUE
    /\ pc' = "process"
    /\ UNCHANGED <<socket_fd, netVars, bufVars, pkt_proc_iter, timeVars, owed>>
-----------------------------------------------------------------------------
(* netio_process_packets and synproto_parse_and_reply, called until the    *)
(* buffer is empty or the budget of the iteration is spent.  A packet that *)
(* is EBAD or unknown (ERR_PROTOCOL) is dropped like one that is ignored.  *)

\* Mutant: one packet more than the budget.
CountPacketAfterTest(rest) ==
    /\ pkt_proc_iter' = pkt_proc_iter + 1
    /\ pc' = IF (rest # << >> \/ partial)
                    /\ pkt_proc_iter <= PKT_PROC_PER_LOOP
               THEN "process" ELSE "check"

\* The end of the do-while loop: partial or whole, what is left in the buffer
\* makes pkt_buf_sz positive.
CountPacket(rest) ==
    /\ pkt_proc_iter' = pkt_proc_iter + 1
    /\ pc' = IF (rest # << >> \/ partial)
                    /\ pkt_proc_iter' < PKT_PROC_PER_LOOP
               THEN "process" ELSE "check"

\* Mutant: CALV is answered but does not move the deadline.
AnswerOnly(k) ==
    /\ owed' = IF k \in Requests /\ link = "open"
                 THEN [owed EXCEPT ![k] = @ - 1] ELSE owed
    /\ calv_left' = IF k = "Barr" THEN TIMEOUT ELSE calv_left

\* Mutant: QINF is recognised but not answered.
AnswerKeepalivesOnly(k) ==
    /\ owed' = IF k \in KeepsAlive /\ link = "open"
                 THEN [owed EXCEPT ![k] = @ - 1] ELSE owed
    /\ calv_left' = IF k \in KeepsAlive THEN TIMEOUT ELSE calv_left

\* The result of send() is not looked at: on any other link the answer is
\* lost.
ParseAndReply(k) ==
    /\ owed' = IF k \in Requests /\ link = "open"
                 THEN [owed EXCEPT ![k] = @ - 1] ELSE owed
    /\ calv_left' = IF k \in KeepsAlive THEN TIMEOUT ELSE calv_left

ProcessPacket ==
    /\ pc = "process"
    /\ buffered # << >>
    /\ ParseAndReply(Head(buffered))
    /\ buffered' = Tail(buffered)
    /\ CountPacket(Tail(buffered))
    /\ UNCHANGED <<socket_fd, netVars, partial, waited, silent, died>>

\* send() on a connection that was reset raises SIGPIPE, which the program
\* neither ignores nor handles.  (The first send() after a reset may only
\* fail: that is ProcessPacket.)
SendKills ==
    /\ SIGPIPE
    /\ pc = "process"
    /\ buffered # << >>
    /\ Head(buffered) \in Requests
    /\ link = "rst"
    /\ pc' = "killed"
    /\ UNCHANGED <<socket_fd, netVars, bufVars, pkt_proc_iter, timeVars, owed,
                   died>>

\* No whole packet in the buffer: nothing to do, or the rest to wait for.
ProcessNothing ==
    /\ pc = "process"
    /\ buffered = << >>
    /\ CountPacket(buffered)
    /\ UNCHANGED <<socket_fd, netVars, bufVars, timeVars, owed, died>>

-----------------------------------------------------------------------------
(* The deadline, and the end.                                              *)

CheckInTime ==
    /\ pc = "check"
    /\ calv_left >= 0
    /\ pc' = "top"
    /\ UNCHANGED <<socket_fd, netVars, bufVars, pkt_proc_iter, timeVars, owed,
                   died>>

\* "Too long since the last keepalive! Restart!"
CheckTimedOut ==
    /\ pc = "check"
    /\ calv_left < 0
    /\ Disconnect
    /\ pc' = "top"
    /\ UNCHANGED <<pkt_proc_iter, timeVars>>

\* minput_main after osio_loop.
Cleanup ==
    /\ pc = "cleanup"
    /\ Disconnect
    /\ pc' = "ended"
    /\ UNCHANGED <<pkt_proc_iter, timeVars>>

-----------------------------------------------------------------------------
Client ==
    \/ StayConnected
    \/ \E m \in 0 .. MaxRecv, more \in BOOLEAN : FetchData(m, more)
    \/ FetchTimeout
    \/ FetchEnded
    \/ ProcessPacket
    \/ ProcessNothing
    \/ CheckInTime
    \/ CheckTimedOut
    \/ Cleanup

Next ==
    \/ \E k \in Kind : ServerWrite(k)
    \/ ServerClose
    \/ ServerReset
    \/ ServerGone
    \/ Tick
    \/ Connect
    \/ ConnectFails
    \/ StayConnected
    \/ \E m \in 0 .. MaxRecv, more \in BOOLEAN : FetchData(m, more)
    \/ \E m \in 0 .. MaxRecv, more \in BOOLEAN : FetchNoMemory(m, more)
    \/ FetchTimeout
    \/ FetchEnded
    \/ ProcessPacket
    \/ SendKills
    \/ ProcessNothing
    \/ CheckInTime
    \/ CheckTimedOut
    \/ Cleanup

Spec == Init /\ [][Next]_vars

\* The client is a loop that never stops by itself and time goes on; a server
\* that can be connected to again and again is connected to in the end.
FairSpec ==
    /\ Spec
    /\ WF_vars(Client)
    /\ SF_vars(Tick)
    /\ SF_vars(Connect)

-----------------------------------------------------------------------------
(* Properties.                                                             *)

Occurrences(k, s) == Cardinality({i \in DOMAIN s : s[i] = k})

HasKeepalive(s) == \E i \in DOMAIN s : s[i] \in KeepsAlive

\* What the server is still owed is what it asked on this connection and the
\* client has not looked at: nothing is answered twice, no request of an
\* earlier connection is answered on a later one (main.c:17, netio.c:235).
\* Only a client that is about to leave, out of memory, has lost packets.
OwedIsOnItsWay ==
    link = "open" /\ pc # "cleanup" =>
        \A k \in Requests : owed[k] = Occurrences(k, buffered \o inflight)

\* The client holds on to a connection past its deadline for one recv()
\* timeout at the most, whatever arrives and whatever is left to process
\* (main.c:80-92 is reached in every iteration that fetched).
DropsInTime == socket_fd = 1 => calv_left >= -RCVTIMEO

\* A connection is given up after its deadline, not before, within one recv()
\* timeout: on a clock that does not wrap the loop implements Countdown
\* (minput.h:84-88).
Promise ==
    INSTANCE Countdown WITH
        LATE <- RCVTIMEO,
        state <- IF pc \in Ends THEN "over"
                 ELSE IF socket_fd = 1 THEN "on" ELSE "off",
        left <- IF pc \notin Ends /\ socket_fd = 1 THEN calv_left ELSE TIMEOUT
PromiseSpec == Promise!Spec

\* A connection is dropped only if the server was silent for longer than the
\* timeout, or its keepalive is in the buffer behind more packets than an
\* iteration processes (main.c:55-59), or the program ends.
WhyDropped ==
    [][socket_fd = 1 /\ socket_fd' = 0 =>
        \/ pc = "cleanup"
        \/ silent > TIMEOUT
        \/ HasKeepalive(buffered) /\ pkt_proc_iter = PKT_PROC_PER_LOOP]_vars

\* A client that is running and not connected to a live server will be: a
\* connection that is closed, reset or silent does not hold it up for ever
\* (netio.c:116-120, main.c:80-92).
BackOnline ==
    pc \in Steps /\ link # "open" ~> link = "open" \/ pc \notin Steps

\* What the server asks is answered, however much it writes, unless the
\* connection or the program ends first.
ScreenTold ==
    link = "open" /\ owed["QINF"] > 0 ~>
        link # "open" \/ owed["QINF"] = 0 \/ pc \notin Steps

\* "The next osio_get_time() in ms by which a keepalive must be received from
\* the server in order for us not to disconnect" (minput.h:85-86): no timeout
\* when a keepalive was received before the deadline passed, which was
\* -calv_left ticks ago.
ReceivedKeepaliveCounts ==
    [][pc = "check" /\ socket_fd' = 0 =>
        ~(-calv_left <= silent /\ silent <= TIMEOUT)]_vars

\* "Connection died. Restart loop so we can try to reconnect." (netio.c:117):
\* recv() is not called again on a connection it has reported the end of.
DeadConnectionIsLeft == pc = "fetch" => ~died

\* "Not a show-stopper, but try to reconnect!" (main.c:33): the end of a
\* connection does not end the program.
SurvivesConnection == pc # "killed"
-----------------------------------------------------------------------------
(* The invariant that is inductive.                                        *)

\* When the iteration is where, how far past the deadline it can be.
Overdue ==
    socket_fd = 1 =>
        /\ DropsInTime
        /\ pc = "top" => calv_left >= 0
        /\ pc = "fetch" => calv_left >= -waited

\* If no keepalive waits in the buffer, the deadline was set when the last one
\* was received, or later.
Heard ==
    socket_fd = 1 /\ ~HasKeepalive(buffered) =>
        silent > TIMEOUT \/ silent >= TIMEOUT - calv_left

\* An iteration stops with a packet in the buffer only at its budget.
Budget ==
    /\ pc \in {"fetch", "process"} => pkt_proc_iter < PKT_PROC_PER_LOOP
    /\ pc = "check" /\ buffered # << >> => pkt_proc_iter = PKT_PROC_PER_LOOP

LoopInv == TypeOK /\ Overdue /\ Heard /\ Budget
=============================================================================
