------------------------------ MODULE Keepalive ------------------------------
(***************************************************************************)
(* The keepalive deadline on the clock the program reads: calv_deadline    *)
(* and osio_get_time are uint32_t, so both wrap, and on Unix the clock is  *)
(* the time of day, which may be set.  Of the iterations of MinputLoop     *)
(* only what reads the clock is left, and the time in between.             *)
(***************************************************************************)
EXTENDS Integers

CONSTANTS
    WORD,       \* ticks after which osio_get_time wraps
    TIMEOUT,    \* SYNPROTO_TIMEOUT_MS, in ticks
    LATE,       \* ticks from one look at the deadline to the next, at most
    CLOCK_SET   \* the clock may be set: TRUE on Unix, FALSE on Windows

ASSUME KeepaliveConstantsOK ==
    /\ WORD \in Nat
    /\ TIMEOUT \in Nat
    /\ LATE \in Nat
    /\ TIMEOUT + LATE + 1 < WORD
    /\ CLOCK_SET \in BOOLEAN

VARIABLES
    now,            \* what osio_get_time returns
    socket_fd,      \* 0: no connection; 1: a socket
    calv_deadline,
    spent,          \* ticks since the deadline of the connection was looked
                    \* at, or the connection made
    set_at,         \* now, when the deadline was set
    elapsed,        \* ticks since then, as far as the properties tell apart
    steady          \* the clock was not set since then

vars == <<now, socket_fd, calv_deadline, spent, set_at, elapsed, steady>>

TypeOK ==
    /\ now \in 0 .. WORD - 1
    /\ socket_fd \in {0, 1}
    /\ calv_deadline \in 0 .. WORD - 1
    /\ spent \in 0 .. LATE
    /\ set_at \in 0 .. WORD - 1
    /\ elapsed \in 0 .. TIMEOUT + LATE + 1
    /\ steady \in BOOLEAN

Init ==
    /\ now \in 0 .. WORD - 1
    /\ socket_fd = 0
    /\ calv_deadline = 0
    /\ spent = 0
    /\ set_at = 0
    /\ elapsed = 0
    /\ steady = FALSE

\* The sum of two uint32_t.
Plus(s, t) == IF s + t < WORD THEN s + t ELSE s + t - WORD

-----------------------------------------------------------------------------
(* The clock.                                                              *)

Longer(t) == IF t <= TIMEOUT + LATE THEN t + 1 ELSE t

\* connect() may take any time, an iteration with a connection does not.
Tick ==
    /\ socket_fd = 1 => spent < LATE
    /\ now' = Plus(now, 1)
    /\ spent' = IF socket_fd = 1 THEN spent + 1 ELSE 0
    /\ elapsed' = Longer(elapsed)
    /\ UNCHANGED <<socket_fd, calv_deadline, set_at, steady>>

SetClock ==
    /\ CLOCK_SET
    /\ now' \in 0 .. WORD - 1
    /\ steady' = FALSE
    /\ UNCHANGED <<socket_fd, calv_deadline, spent, set_at, elapsed>>

-----------------------------------------------------------------------------
(* The program.                                                            *)

\* synproto_reset_calv_deadline
Reset ==
    /\ calv_deadline' = Plus(now, TIMEOUT)
    /\ set_at' = now
    /\ elapsed' = 0
    /\ steady' = TRUE
    /\ UNCHANGED now

\* Mutant: the deadline is set before connect() is called, not after.
ConnectWithOldDeadline ==
    /\ socket_fd = 0
    /\ socket_fd' = 1
    /\ spent' = 0
    /\ UNCHANGED <<now, calv_deadline, set_at, elapsed, steady>>

\* netio_connect succeeds, and sets the deadline when it returns.
Connect ==
    /\ socket_fd = 0
    /\ socket_fd' = 1
    /\ spent' = 0
    /\ Reset

ConnectFails ==
    /\ socket_fd = 0
    /\ Reset
    /\ UNCHANGED <<socket_fd, spent>>

\* Barr or CALV.
Hear ==
    /\ socket_fd = 1
    /\ Reset
    /\ UNCHANGED <<socket_fd, spent>>

\* Mutant: a tick more is allowed.
PassedWithGrace == now > calv_deadline + 1

\* Mutant: the tick of the deadline itself is too late.
Reached == now >= calv_deadline

\* time_now > config->calv_deadline
Passed == now > calv_deadline

CheckInTime ==
    /\ socket_fd = 1
    /\ ~Passed
    /\ spent' = 0
    /\ UNCHANGED <<now, socket_fd, calv_deadline, set_at, elapsed, steady>>

\* "Too long since the last keepalive! Restart!"
CheckTimedOut ==
    /\ socket_fd = 1
    /\ Passed
    /\ socket_fd' = 0
    /\ spent' = 0
    /\ UNCHANGED <<now, calv_deadline, set_at, elapsed, steady>>

Next ==
    \/ Tick
    \/ SetClock
    \/ Connect
    \/ ConnectFails
    \/ Hear
    \/ CheckInTime
    \/ CheckTimedOut

Spec == Init /\ [][Next]_vars

-----------------------------------------------------------------------------
(* Properties.                                                             *)

\* The deadline itself has wrapped.
DeadlineWraps == set_at + TIMEOUT >= WORD

\* A connection on which a keepalive came in time is dropped only if the
\* clock was set since, or in the last TIMEOUT ticks before the clock wraps,
\* when calv_deadline is a small number already and now a large one
\* (synproto.c:367, main.c:82).
NoEarlyDrop ==
    [][socket_fd = 1 /\ socket_fd' = 0 =>
        \/ elapsed > TIMEOUT
        \/ ~steady
        \/ DeadlineWraps /\ now >= set_at]_vars

\* A connection is kept for longer than the timeout and one iteration only if
\* the clock was set, or if the deadline lies so short before the wrap that
\* no iteration looked at it in between (main.c:81-82).
HeldLate ==
    socket_fd = 1 /\ steady /\ elapsed > TIMEOUT + LATE =>
        calv_deadline >= WORD - LATE

\* The clock neither wraps nor is set before the deadline is dealt with.
Plain == socket_fd = 1 => steady /\ set_at + TIMEOUT + LATE < WORD

Promise ==
    INSTANCE Countdown WITH
        state <- IF socket_fd = 1 THEN "on" ELSE "off",
        left <- IF socket_fd = 1 THEN TIMEOUT - elapsed ELSE TIMEOUT

\* Otherwise the program keeps what Countdown promises: no connection is given
\* up before its deadline, or later than an iteration after it.
KeepsPromise == [][Plain => [Promise!Next]_Promise!vars]_vars

-----------------------------------------------------------------------------
(* The invariant that is inductive.                                        *)

\* What the clock and the deadline have to do with each other.
OnTheClock ==
    steady =>
        /\ calv_deadline = Plus(set_at, TIMEOUT)
        /\ elapsed <= TIMEOUT + LATE => now = Plus(set_at, elapsed)

\* A connection that is kept was looked at before the timeout was over, or has
\* a deadline that can be missed.
LookedAt ==
    socket_fd = 1 /\ steady =>
        elapsed <= TIMEOUT + spent \/ calv_deadline >= WORD - LATE

KeepaliveInv == TypeOK /\ OnTheClock /\ LookedAt
=============================================================================
