------------------------------- MODULE WinLoop -------------------------------
(***************************************************************************)
(* The Windows build: minput_loop_iter runs from WM_TIMER, and an error    *)
(* shown to the user (osio_printf with MINPUT_STAT_ERROR) is a MessageBox, *)
(* which dispatches messages of its own until it is closed.  So while one  *)
(* call of minput_loop_iter waits for a dialog it has opened, the timer    *)
(* may start another on the same NETIO_CFG, and the user may quit from the *)
(* notification area.                                                      *)
(*                                                                         *)
(* The calls that are under way are a stack of frames; the packet buffer   *)
(* is that of Netio, byte by byte, but netio_process_packets is taken      *)
(* apart where its dialogs open, and pkt_buf_sz wraps.  When the keepalive *)
(* deadline passes is left open here (see MinputLoop), and what becomes of *)
(* the clipboard (see Clipboard).                                          *)
(***************************************************************************)
EXTENDS Netio

CONSTANTS
    PKT_PROC_PER_LOOP,  \* packets an iteration processes at most
    Complains,          \* packets the parser shows an error for: a DCLP
                        \* shorter than DCLP_BUF_START
    Clips,              \* packets whose contents go to the clipboard
    MaxDepth            \* bound: calls of minput_loop_iter under way

ASSUME WinConstantsOK ==
    /\ PKT_PROC_PER_LOOP \in Nat \ {0}
    /\ Complains \subseteq Packet
    /\ Clips \subseteq Packet
    /\ MaxDepth \in Nat
    /\ 2 * (MaxSent + SLACK) < WORD
    /\ SOCKBUF_SZ < WORD

\* A length word shows something, whatever part of it has arrived.
ASSUME LengthWordShows == \A p \in Packet : Garbled[p] # {}

VARIABLES
    frames,     \* the calls of minput_loop_iter under way, the inner one last
    timer,      \* ID_TIMER_LOOP is set
    g_running,  \* no quit so far
    found,      \* netio_process_packets has found an offset too large
    end         \* "no", or how the program ended: orderly, by a copy to
                \* address 0, or by one to outside the packet buffer

winVars == <<frames, timer, g_running, found, end>>
allVars == <<vars, winVars>>

Dialogs == {"parse_error", "no_clipboard", "no_memory", "overflow"}
Places == {"top", "fetch", "process", "remove", "check", "failed"} \cup Dialogs
Ends == {"no", "exit", "null", "outside"}

\* at: where the call is; iter: packets processed; claim: the size of the
\* packet netio_process_packets is busy with.
Frame == [at : Places, iter : 0 .. PKT_PROC_PER_LOOP, claim : 0 .. WORD - 1]

WinTypeOK ==
    /\ TypeOK
    /\ pkt_buf_sz < WORD
    /\ pkt_buf_sz_max < WORD
    /\ frames \in Seq(Frame)
    /\ timer \in BOOLEAN
    /\ g_running \in BOOLEAN
    /\ found \in BOOLEAN
    /\ end \in Ends

WinInit ==
    /\ Init
    /\ frames = << >>
    /\ timer = TRUE
    /\ g_running = TRUE
    /\ found = FALSE
    /\ end = "no"

Inner == frames[Len(frames)]
Outer == SubSeq(frames, 1, Len(frames) - 1)

\* The innermost call is at place p.
At(p) == end = "no" /\ frames # << >> /\ Inner.at = p

GoTo(p) == frames' = Append(Outer, [Inner EXCEPT !.at = p])
Return == frames' = Outer

\* GetMessage runs: that of osio_loop, or that of the innermost dialog.
Pumping ==
    /\ end = "no"
    /\ g_running
    /\ frames # << >> => Inner.at \in Dialogs

-----------------------------------------------------------------------------
(* Messages.                                                               *)

Timer ==
    /\ Pumping
    /\ timer
    /\ Len(frames) < MaxDepth
    /\ frames' = Append(frames, [at |-> "top", iter |-> 0, claim |-> 0])
    /\ UNCHANGED <<vars, timer, g_running, found, end>>

\* Mutant: the connection is left to minput_main.
QuitKeepsConnection ==
    /\ g_running' = FALSE
    /\ timer' = FALSE
    /\ UNCHANGED vars

\* osio_win_quit.
Quit ==
    /\ g_running' = FALSE
    /\ timer' = FALSE
    /\ IF socket_fd = 1 THEN Disconnect ELSE UNCHANGED vars

\* "Exit" in the menu of the notification area, which works during a dialog.
UserQuits ==
    /\ Pumping
    /\ Quit
    /\ UNCHANGED <<frames, found, end>>

\* The Save button, which does not: a dialog disables the window.
Save ==
    /\ Pumping
    /\ frames = << >>
    /\ socket_fd' \in {0, 1}
    /\ pkt_buf_sz' = 0
    /\ stream' = << >>
    /\ rcvd' = sent
    /\ last' = NoPacket
    /\ UNCHANGED <<pkt_buf, pkt_buf_sz_max, err, sent, winVars>>

\* Mutant: a dialog that WM_QUIT does not close.
CloseDialogByUser ==
    /\ \E d \in Dialogs \ {"no_clipboard"} : At(d)
    /\ g_running
    /\ GoTo(IF Inner.at = "parse_error" THEN "remove" ELSE "failed")
    /\ UNCHANGED <<vars, timer, g_running, found, end>>

\* The user closes a dialog, or WM_QUIT does.
CloseDialog ==
    /\ \E d \in Dialogs \ {"no_clipboard"} : At(d)
    /\ GoTo(IF Inner.at = "parse_error" THEN "remove" ELSE "failed")
    /\ UNCHANGED <<vars, timer, g_running, found, end>>

\* Without memory for the clipboard, and after the dialog that says so,
\* osio_set_clipboard copies to what GlobalLock makes of a null handle.
CopyToNull ==
    /\ At("no_clipboard")
    /\ end' = "null"
    /\ UNCHANGED <<vars, frames, timer, g_running, found>>

\* osio_loop has returned: minput_main disconnects what is connected.
Exit ==
    /\ end = "no"
    /\ frames = << >>
    /\ ~g_running
    /\ end' = "exit"
    /\ IF socket_fd = 1 THEN Disconnect ELSE UNCHANGED vars
    /\ UNCHANGED <<frames, timer, g_running, found>>

-----------------------------------------------------------------------------
(* minput_loop_iter up to the packets.                                     *)

IterConnect ==
    /\ At("top")
    /\ Connect
    /\ GoTo("fetch")
    /\ UNCHANGED <<timer, g_running, found, end>>

IterConnectFails ==
    /\ At("top")
    /\ socket_fd = 0
    /\ pkt_buf_sz' = 0
    /\ Return
    /\ UNCHANGED <<socket_fd, pkt_buf, pkt_buf_sz_max, err, stream, sent, rcvd,
                   last, timer, g_running, found, end>>

IterConnected ==
    /\ At("top")
    /\ socket_fd = 1
    /\ GoTo("fetch")
    /\ UNCHANGED <<vars, timer, g_running, found, end>>

\* pkt_buf_sz has not wrapped: the contents end inside the buffer.
SizeInBuffer == pkt_buf_sz <= pkt_buf_sz_max

\* The new size, a uint32_t too, wraps with a pkt_buf_sz that has wrapped.
SizeWraps(n) == pkt_buf_sz + n + SLACK >= WORD

IterFetch(n) ==
    /\ At("fetch")
    /\ SizeInBuffer
    /\ ~SizeWraps(n)
    /\ Fetch(n)
    /\ GoTo("process")
    /\ UNCHANGED <<timer, g_running, found, end>>

IterFetchNothing ==
    /\ At("fetch")
    /\ GoTo("process")
    /\ UNCHANGED <<vars, timer, g_running, found, end>>

IterFetchNoMemory(n) ==
    /\ At("fetch")
    /\ Received(n)
    /\ MustGrow(n)
    /\ ~SizeWraps(n)
    /\ GoTo("no_memory")
    /\ UNCHANGED <<socket_fd, pkt_buf, pkt_buf_sz, pkt_buf_sz_max, err, stream,
                   sent, last, timer, g_running, found, end>>

\* The buffer is not enlarged, or made small, and what was received is copied
\* to where pkt_buf_sz points.
IterFetchOutside(n) ==
    /\ At("fetch")
    /\ Received(n)
    /\ SizeWraps(n)
    /\ end' = "outside"
    /\ UNCHANGED <<socket_fd, pkt_buf, pkt_buf_sz, pkt_buf_sz_max, err, stream,
                   sent, last, frames, timer, g_running, found>>

-----------------------------------------------------------------------------
(* netio_process_packets, and the loop around it.                          *)

\* Mutant: one packet more than the budget.
NextTurnLate(sz) ==
    frames' = Append(Outer,
        [at |-> IF 0 < sz /\ Inner.iter < PKT_PROC_PER_LOOP
                  THEN "process" ELSE "check",
         iter |-> Inner.iter + 1, claim |-> 0])

\* Mutant: a packet that is not counted.
NextTurnUncounted(sz) ==
    frames' = Append(Outer,
        [at |-> IF 0 < sz /\ Inner.iter + 1 < PKT_PROC_PER_LOOP
                  THEN "process" ELSE "check",
         iter |-> Inner.iter, claim |-> 0])

\* The end of the do-while loop, with sz bytes left in the buffer.
NextTurn(sz) ==
    frames' = Append(Outer,
        [at |-> IF 0 < sz /\ Inner.iter + 1 < PKT_PROC_PER_LOOP
                  THEN "process" ELSE "check",
         iter |-> Inner.iter + 1, claim |-> 0])

IterNothing ==
    /\ At("process")
    /\ pkt_buf_sz # 0 => \E w \in LengthWords : pkt_buf_sz < Claim(w)
    /\ NextTurn(pkt_buf_sz)
    /\ UNCHANGED <<vars, timer, g_running, found, end>>

Whole(claim) == claim <= pkt_buf_sz_max /\ IsNextPacket(claim)

\* Where the parser can leave the call with packet p.
Outcomes(p) ==
    IF p \in Complains THEN {"parse_error"}
    ELSE IF p \in Clips THEN {"remove", "no_clipboard"}
    ELSE {"remove"}

\* Bytes that are not the next packet may look like any.
AfterParser(claim) ==
    IF Whole(claim) THEN Outcomes(Head(stream).pkt)
    ELSE {"remove", "parse_error", "no_clipboard"}

IterParse ==
    /\ At("process")
    /\ pkt_buf_sz # 0
    /\ \E w \in LengthWords :
        LET claim == Claim(w)
        IN  /\ claim <= pkt_buf_sz
            /\ last' = IF Whole(claim) THEN Head(stream).pkt ELSE Misread
            /\ stream' = IF Whole(claim) THEN Tail(stream) ELSE stream
            /\ \E p \in AfterParser(claim) :
                frames' = Append(Outer,
                    [Inner EXCEPT !.at = p, !.claim = claim])
    /\ UNCHANGED <<socket_fd, pkt_buf, pkt_buf_sz, pkt_buf_sz_max, err, sent,
                   rcvd, timer, g_running, found, end>>

\* Mutant: the move stops at the end of the buffer without a word.
NotTooLarge(rest, claim) == FALSE

TooLarge(rest, claim) == rest > 0 /\ rest - 1 + claim >= pkt_buf_sz_max

\* A uint32_t: a claim larger than the contents makes it wrap.
Rest(claim) ==
    IF claim <= pkt_buf_sz THEN pkt_buf_sz - claim
                           ELSE pkt_buf_sz + (WORD - claim)

IterRemove ==
    /\ At("remove")
    /\ LET claim == Inner.claim
           rest == Rest(claim)
       IN  /\ pkt_buf_sz' = rest
           /\ pkt_buf' =
               [i \in DOMAIN pkt_buf |->
                   IF i < rest /\ i + claim < pkt_buf_sz_max
                     THEN pkt_buf[i + claim] ELSE pkt_buf[i]]
           /\ IF TooLarge(rest, claim) THEN GoTo("overflow") ELSE NextTurn(rest)
           /\ found' = (found \/ TooLarge(rest, claim))
    /\ UNCHANGED <<socket_fd, pkt_buf_sz_max, err, stream, sent, rcvd, last,
                   timer, g_running, end>>

\* In time, or not and then disconnected.
IterCheck ==
    /\ At("check")
    /\ \/ UNCHANGED vars
       \/ Disconnect
    /\ Return
    /\ UNCHANGED <<timer, g_running, found, end>>

\* ERR_ALLOC and ERR_OVERFLOW reach WndProc, which quits.
IterFailed ==
    /\ At("failed")
    /\ Quit
    /\ Return
    /\ UNCHANGED <<found, end>>

-----------------------------------------------------------------------------
\* What the program does by itself once it is to end.
Unwind ==
    /\ ~g_running
    /\ \/ CloseDialog \/ CopyToNull \/ Exit
       \/ IterConnect \/ IterConnectFails \/ IterConnected
       \/ IterFetchNothing
       \/ IterNothing \/ IterParse \/ IterRemove
       \/ IterCheck \/ IterFailed

WinNext ==
    \/ /\ end = "no"
       /\ \E p \in Packet : ServerWrite(p)
       /\ UNCHANGED winVars
    \/ Timer
    \/ UserQuits
    \/ Save
    \/ CloseDialog
    \/ CopyToNull
    \/ Exit
    \/ IterConnect
    \/ IterConnectFails
    \/ IterConnected
    \/ \E n \in 1 .. SOCKBUF_SZ : IterFetch(n)
    \/ \E n \in 1 .. SOCKBUF_SZ : IterFetchNoMemory(n)
    \/ \E n \in 1 .. SOCKBUF_SZ : IterFetchOutside(n)
    \/ IterFetchNothing
    \/ IterNothing
    \/ IterParse
    \/ IterRemove
    \/ IterCheck
    \/ IterFailed

WinSpec == WinInit /\ [][WinNext]_allVars

WinFairSpec == WinSpec /\ WF_allVars(Unwind)

-----------------------------------------------------------------------------
(* Properties.                                                             *)

\* Once the user has quit, or the program has given up, nothing that the
\* server wrote is acted on any more, although calls of minput_loop_iter that
\* wait for a dialog still have to return (osio_win.c:101-114), unless an
\* overflow was found before: then three calls inside each other are enough
\* to leave a call a size other than 0, and it parses what is in the buffer.
NoInputAfterQuit ==
    [][~g_running /\ ~found => last' = last \/ last' = NoPacket]_allVars

\* A quit ends the program whatever dialogs are open over each other
\* (osio_win.c:471-498).
QuitEnds == ~g_running ~> end # "no"

\* How many steps away the end is at most: a bound for the call that runs, by
\* the packets it may still process and the place it is at, and the same for
\* every call that waits for it.
StepsAt ==
    [top |-> 6, fetch |-> 5, process |-> 4, parse_error |-> 3,
     no_clipboard |-> 3, remove |-> 2, no_memory |-> 1, overflow |-> 1,
     check |-> 1, failed |-> 0]
StepsLeft(f) == 7 * (PKT_PROC_PER_LOOP - f.iter) + StepsAt[f.at]
ToGo ==
    IF end # "no" THEN 0
    ELSE IF frames = << >> THEN 1
    ELSE 1 + 7 * (PKT_PROC_PER_LOOP + 1) * Len(frames) + StepsLeft(Inner)

\* A quit is final, and every step the program makes after it brings it nearer
\* to its end: no call of minput_loop_iter starts over or goes round in its
\* do-while loop, however many are to return (main.c:55-73).
NearerTheEnd ==
    [][~g_running => ~g_running' /\ (ToGo' < ToGo \/ UNCHANGED winVars)]_allVars

\* Received bytes are stored outside the buffer only by a call that was let
\* in by the dialog that reports the overflow (netio.c:147, 209-213).
OutsideOnlyInOverflow ==
    end = "outside" => \E k \in DOMAIN frames : frames[k].at = "overflow"

\* "Overflow is a show-stopped! (But probably shouldn't happen?)"
\* (main.c:68): no call finds the offset too large.
NoOverflowFound ==
    \A k \in DOMAIN frames : frames[k].at # "overflow"
-----------------------------------------------------------------------------
(* The invariant that is inductive.                                        *)

\* All calls but the innermost wait for a dialog, and that one does not start
\* anything after a quit.
Nested ==
    /\ \A k \in 1 .. Len(frames) - 1 : frames[k].at \in Dialogs
    /\ ~g_running /\ frames # << >> => Inner.at \notin {"top", "fetch"}

Counted ==
    \A k \in DOMAIN frames :
        frames[k].at # "check" => frames[k].iter < PKT_PROC_PER_LOOP

OverflowShown == \E k \in DOMAIN frames : frames[k].at = "overflow"

\* The contents of the buffer are no more than was received, until an overflow
\* was found that is being shown, or has ended the program.
Accounted ==
    \/ pkt_buf_sz <= rcvd
    \/ OverflowShown
    \/ ~g_running
    \/ frames # << >> /\ Inner.at = "failed"

Trustworthy ==
    /\ rcvd <= sent
    /\ sent <= MaxSent
    /\ Accounted

\* Without an overflow nothing is left after a disconnection or a quit.
Emptied == ~found /\ (socket_fd = 0 \/ ~g_running) => pkt_buf_sz = 0

WinInv ==
    /\ WinTypeOK
    /\ Nested
    /\ Counted
    /\ Trustworthy
    /\ Emptied
    /\ OutsideOnlyInOverflow
==============================================================================
