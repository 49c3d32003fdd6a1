--------------------------- MODULE KeepaliveProofs ---------------------------
(***************************************************************************)
(* Proofs about Keepalive, for every period of the clock, timeout and      *)
(* length of an iteration that KeepaliveConstantsOK allows.                *)
(***************************************************************************)
EXTENDS Keepalive, TLAPS

\* The sum of two times, as a uint32_t, is a time.
LEMMA PlusType ==
    ASSUME NEW s \in 0 .. WORD - 1, NEW t \in Nat, t < WORD
    PROVE  Plus(s, t) \in 0 .. WORD - 1
BY KeepaliveConstantsOK, SMT DEF Plus

\* The invariant holds when the program starts.
LEMMA InvInit == Init => KeepaliveInv
<1> SUFFICES ASSUME Init PROVE KeepaliveInv
  OBVIOUS
<1>1. steady = FALSE /\ steady \in BOOLEAN
  BY Zenon DEF Init
<1>2. OnTheClock /\ LookedAt
  BY <1>1, Zenon DEF OnTheClock, LookedAt
<1>3. TypeOK
  BY <1>1, KeepaliveConstantsOK, SMT DEF Init, TypeOK
<1>4. QED
  BY <1>2, <1>3 DEF KeepaliveInv

-----------------------------------------------------------------------------
(* One lemma per action.                                                   *)

\* A second that passes keeps it.
LEMMA TickInv == ASSUME KeepaliveInv, Tick PROVE KeepaliveInv'
<1>1. TypeOK /\ OnTheClock /\ LookedAt
  BY DEF KeepaliveInv
<1>2. /\ now' = Plus(now, 1) /\ elapsed' = Longer(elapsed)
      /\ socket_fd' = socket_fd /\ calv_deadline' = calv_deadline
      /\ set_at' = set_at /\ steady' = steady
      /\ socket_fd = 1 => spent < LATE
      /\ spent' = IF socket_fd = 1 THEN spent + 1 ELSE 0
  BY DEF Tick
<1>3. TypeOK'
  <2>1. now' \in 0 .. WORD - 1
    BY <1>1, <1>2, PlusType, KeepaliveConstantsOK, SMT DEF TypeOK
  <2>2. spent' \in 0 .. LATE /\ elapsed' \in 0 .. TIMEOUT + LATE + 1
    BY <1>1, <1>2, KeepaliveConstantsOK, SMT DEF TypeOK, Longer
  <2>3. QED
    BY <1>1, <1>2, <2>1, <2>2, Zenon DEF TypeOK
<1>4. ASSUME steady, elapsed' <= TIMEOUT + LATE
      PROVE  now' = Plus(set_at, elapsed')
  <2>1. elapsed <= TIMEOUT + LATE
    BY <1>1, <1>2, <1>4, KeepaliveConstantsOK, SMT DEF TypeOK, Longer
  <2>2. now = Plus(set_at, elapsed)
    BY <1>1, <1>4, <2>1 DEF OnTheClock
  <2>3. QED
    BY <1>1, <1>2, <2>1, <2>2, KeepaliveConstantsOK, SMT
       DEF TypeOK, Longer, Plus
<1>5. OnTheClock'
  <2>1. ASSUME steady PROVE calv_deadline' = Plus(set_at', TIMEOUT)
    BY <1>1, <1>2, <2>1 DEF OnTheClock
  <2>2. Plus(set_at', elapsed') = Plus(set_at, elapsed')
    BY <1>2 DEF Plus
  <2>3. QED
    BY <1>2, <1>4, <2>1, <2>2 DEF OnTheClock, Plus
<1>6. ASSUME socket_fd = 1, steady
      PROVE  elapsed' <= TIMEOUT + spent' \/ calv_deadline >= WORD - LATE
  <2>1. elapsed <= TIMEOUT + spent \/ calv_deadline >= WORD - LATE
    BY <1>1, <1>6 DEF LookedAt
  <2>2. QED
    BY <1>1, <1>2, <1>6, <2>1, KeepaliveConstantsOK, SMT DEF TypeOK, Longer
<1>7. LookedAt'
  BY <1>2, <1>6 DEF LookedAt
<1>8. QED
  BY <1>3, <1>5, <1>7 DEF KeepaliveInv

\* Someone setting the clock keeps it.
LEMMA SetClockInv == ASSUME KeepaliveInv, SetClock PROVE KeepaliveInv'
<1>1. ~steady' /\ steady' \in BOOLEAN
  BY Zenon DEF SetClock
<1>2. TypeOK'
  BY <1>1, Zenon DEF KeepaliveInv, TypeOK, SetClock
<1>3. QED
  BY <1>1, <1>2, Zenon DEF KeepaliveInv, OnTheClock, LookedAt

\* Setting the deadline anew keeps it.
LEMMA ResetInv ==
    ASSUME KeepaliveInv, Reset, socket_fd' \in {0, 1}, spent' \in 0 .. LATE
    PROVE  KeepaliveInv'
<1>1. TypeOK
  BY DEF KeepaliveInv
<1>2. /\ calv_deadline' = Plus(now, TIMEOUT) /\ set_at' = now
      /\ elapsed' = 0 /\ now' = now
  BY DEF Reset
<1>3. calv_deadline' \in 0 .. WORD - 1 /\ Plus(now, 0) = now
  BY <1>1, <1>2, PlusType, KeepaliveConstantsOK, SMT DEF TypeOK, Plus
<1>4. elapsed' \in 0 .. TIMEOUT + LATE + 1 /\ elapsed' <= TIMEOUT + spent'
  <2>1. \A t \in 0 .. LATE : 0 \in 0 .. TIMEOUT + LATE + 1 /\ 0 <= TIMEOUT + t
    BY KeepaliveConstantsOK, SMT
  <2>2. QED
    BY <1>2, <2>1
<1>5. steady' \in BOOLEAN
  BY Zenon DEF Reset
<1>6. TypeOK'
  BY <1>1, <1>2, <1>3, <1>4, <1>5, Zenon DEF TypeOK
<1>7. OnTheClock'
  BY <1>2, <1>3 DEF OnTheClock, Plus
<1>8. QED
  BY <1>4, <1>6, <1>7, Zenon DEF KeepaliveInv, LookedAt

\* A look at the deadline that finds the time not over: either it is not, or
\* the clock has wrapped since, and so the deadline was short before that.
LEMMA CheckInTimeInv == ASSUME KeepaliveInv, CheckInTime PROVE KeepaliveInv'
<1>1. TypeOK /\ OnTheClock /\ LookedAt
  BY DEF KeepaliveInv
<1>2. /\ now' = now /\ socket_fd' = socket_fd /\ spent' = 0
      /\ calv_deadline' = calv_deadline /\ set_at' = set_at
      /\ elapsed' = elapsed /\ steady' = steady
      /\ now <= calv_deadline
  BY <1>1, SMT DEF CheckInTime, Passed, TypeOK
<1>3. TypeOK'
  <2>1. spent' \in 0 .. LATE
    BY <1>2, KeepaliveConstantsOK, SMT
  <2>2. QED
    BY <1>1, <1>2, <2>1, Zenon DEF TypeOK
<1>4. OnTheClock'
  BY <1>1, <1>2 DEF OnTheClock, Plus
<1>5. ASSUME socket_fd = 1, steady
      PROVE  elapsed <= TIMEOUT \/ calv_deadline >= WORD - LATE
  <2>1. elapsed <= TIMEOUT + spent \/ calv_deadline >= WORD - LATE
    BY <1>1, <1>5 DEF LookedAt
  <2>2. CASE elapsed <= TIMEOUT + LATE
    <3>1. now = Plus(set_at, elapsed) /\ calv_deadline = Plus(set_at, TIMEOUT)
      BY <1>1, <1>5, <2>2 DEF OnTheClock
    <3>2. QED
      BY <1>1, <1>2, <2>2, <3>1, KeepaliveConstantsOK, SMT DEF TypeOK, Plus
  <2>3. QED
    BY <1>1, <2>1, <2>2, KeepaliveConstantsOK, SMT DEF TypeOK
<1>6. elapsed' <= TIMEOUT + spent' <=> elapsed <= TIMEOUT
  BY <1>1, <1>2, KeepaliveConstantsOK, SMT DEF TypeOK
<1>7. LookedAt'
  BY <1>2, <1>5, <1>6 DEF LookedAt
<1>8. QED
  BY <1>3, <1>4, <1>7 DEF KeepaliveInv

\* The check that finds the deadline passed keeps it.
LEMMA CheckTimedOutInv ==
    ASSUME KeepaliveInv, CheckTimedOut PROVE KeepaliveInv'
<1>1. /\ now' = now /\ socket_fd' = 0 /\ spent' = 0
      /\ calv_deadline' = calv_deadline /\ set_at' = set_at
      /\ elapsed' = elapsed /\ steady' = steady
  BY DEF CheckTimedOut
<1>2. spent' \in 0 .. LATE /\ socket_fd' # 1
  BY <1>1, KeepaliveConstantsOK, SMT
<1>3. TypeOK'
  BY <1>1, <1>2, Zenon DEF KeepaliveInv, TypeOK
<1>4. QED
  BY <1>1, <1>2, <1>3 DEF KeepaliveInv, OnTheClock, LookedAt, Plus

\* Every step keeps the invariant.
LEMMA InvStep == ASSUME KeepaliveInv, [Next]_vars PROVE KeepaliveInv'
<1>1. CASE Connect
  <2>1. socket_fd' \in {0, 1} /\ spent' \in 0 .. LATE
    BY <1>1, KeepaliveConstantsOK, SMT DEF Connect
  <2>2. QED
    BY <1>1, <2>1, ResetInv DEF Connect
<1>2. CASE ConnectFails
  BY <1>2, ResetInv DEF ConnectFails, KeepaliveInv, TypeOK
<1>3. CASE Hear
  BY <1>3, ResetInv DEF Hear, KeepaliveInv, TypeOK
<1>4. CASE UNCHANGED vars
  BY <1>4 DEF vars, KeepaliveInv, TypeOK, OnTheClock, LookedAt, Plus
<1>5. QED
  BY <1>1, <1>2, <1>3, <1>4, TickInv, SetClockInv, CheckInTimeInv,
     CheckTimedOutInv DEF Next

-----------------------------------------------------------------------------
(* The theorems.                                                           *)

\* What the clock and the deadline have to do with each other, wherever in
\* its period the clock is (synproto.c:366-370, main.c:80-92).
THEOREM Invariant == Spec => []KeepaliveInv
<1>1. Init => KeepaliveInv
  BY InvInit
<1>2. KeepaliveInv /\ [Next]_vars => KeepaliveInv'
  BY InvStep
<1>3. QED
  BY <1>1, <1>2, PTL DEF Spec

\* Only a deadline in the last LATE ticks before the wrap, or a clock that was
\* set, keeps a silent connection for longer than the timeout and an iteration.
THEOREM SeldomHeldLate == Spec => []HeldLate
<1>1. KeepaliveInv => HeldLate
  <2> SUFFICES ASSUME KeepaliveInv, socket_fd = 1, steady,
                      elapsed > TIMEOUT + LATE
               PROVE  calv_deadline >= WORD - LATE
    BY DEF HeldLate
  <2>1. elapsed <= TIMEOUT + spent \/ calv_deadline >= WORD - LATE
    BY DEF KeepaliveInv, LookedAt
  <2>2. QED
    BY <2>1, KeepaliveConstantsOK, SMT DEF KeepaliveInv, TypeOK
<1>2. QED
  BY <1>1, Invariant, PTL

\* A deadline found passed too early, by a clock that nobody set, has wrapped,
\* and the clock has not.
LEMMA WhyTimedOut ==
    ASSUME KeepaliveInv, Passed, steady, elapsed <= TIMEOUT
    PROVE  DeadlineWraps /\ now >= set_at
<1>1. now = Plus(set_at, elapsed) /\ calv_deadline = Plus(set_at, TIMEOUT)
  BY KeepaliveConstantsOK, SMT DEF KeepaliveInv, TypeOK, OnTheClock
<1>2. QED
  BY <1>1, KeepaliveConstantsOK, SMT
     DEF KeepaliveInv, TypeOK, Passed, DeadlineWraps, Plus

\* A connection is dropped too early only by a deadline that has wrapped on a
\* clock that has not, or by a clock that was set.
THEOREM SeldomDroppedEarly == Spec => NoEarlyDrop
<1>1. KeepaliveInv /\ [Next]_vars =>
        [socket_fd = 1 /\ socket_fd' = 0 =>
            \/ elapsed > TIMEOUT
            \/ ~steady
            \/ DeadlineWraps /\ now >= set_at]_vars
  <2> SUFFICES ASSUME KeepaliveInv, [Next]_vars,
                      socket_fd = 1, socket_fd' = 0,
                      ~(elapsed > TIMEOUT), steady
               PROVE  DeadlineWraps /\ now >= set_at
    BY Zenon
  <2>1. CheckTimedOut
    BY DEF Next, vars, Tick, SetClock, Connect, ConnectFails, Hear,
       CheckInTime
  <2>2. elapsed <= TIMEOUT
    BY KeepaliveConstantsOK, SMT DEF KeepaliveInv, TypeOK
  <2>3. QED
    BY <2>1, <2>2, WhyTimedOut DEF CheckTimedOut
<1>2. QED
  BY <1>1, Invariant, PTL DEF Spec, NoEarlyDrop
-----------------------------------------------------------------------------
(* Away from the wrap, Keepalive implements Countdown.                     *)

\* Away from the wrap every step is one of Countdown or leaves it as it is.
LEMMA StepImplements ==
    ASSUME KeepaliveInv, Next, Plain
    PROVE  [Promise!Next]_(Promise!vars)
<1> DEFINE On == socket_fd = 1
           Left == IF On THEN TIMEOUT - elapsed ELSE TIMEOUT
<1> USE DEF Promise!Next, Promise!vars
<1>1. CASE Tick
  <2>1. CASE socket_fd # 1
    BY <1>1, <2>1 DEF Tick
  <2>2. CASE socket_fd = 1
    <3>1. steady /\ set_at + TIMEOUT + LATE < WORD
      BY <2>2 DEF Plain
    <3>2. calv_deadline = Plus(set_at, TIMEOUT)
      BY <3>1 DEF KeepaliveInv, OnTheClock
    <3>3. calv_deadline < WORD - LATE
      BY <3>1, <3>2, KeepaliveConstantsOK, SMT DEF KeepaliveInv, TypeOK, Plus
    <3>4. elapsed <= TIMEOUT + spent
      BY <2>2, <3>1, <3>3, KeepaliveConstantsOK, SMT
         DEF KeepaliveInv, TypeOK, LookedAt
    <3>5. elapsed' = elapsed + 1 /\ elapsed < TIMEOUT + LATE
      BY <1>1, <2>2, <3>4, KeepaliveConstantsOK, SMT
         DEF KeepaliveInv, TypeOK, Tick, Longer
    <3>6. /\ TIMEOUT - elapsed > -LATE
          /\ TIMEOUT - elapsed' = (TIMEOUT - elapsed) - 1
      BY <3>5, KeepaliveConstantsOK, SMT DEF KeepaliveInv, TypeOK
    <3>7. socket_fd' = 1
      BY <1>1, <2>2 DEF Tick
    <3>8. QED
      BY <2>2, <3>6, <3>7 DEF Promise!Pass
  <2>3. QED
    BY <2>1, <2>2
<1>2. CASE SetClock
  BY <1>2 DEF SetClock
<1>3. CASE Connect
  <2>1. TIMEOUT - elapsed' = TIMEOUT
    BY <1>3, KeepaliveConstantsOK, SMT DEF Connect, Reset
  <2>2. QED
    BY <1>3, <2>1 DEF Connect, Promise!Begin
<1>4. CASE ConnectFails
  BY <1>4 DEF ConnectFails
<1>5. CASE Hear
  <2>1. TIMEOUT - elapsed' = TIMEOUT
    BY <1>5, KeepaliveConstantsOK, SMT DEF Hear, Reset
  <2>2. QED
    BY <1>5, <2>1 DEF Hear, Promise!Hear
<1>6. CASE CheckInTime
  BY <1>6 DEF CheckInTime
<1>7. CASE CheckTimedOut
  <2>1. socket_fd = 1 /\ socket_fd' = 0 /\ Passed /\ elapsed' = elapsed
    BY <1>7 DEF CheckTimedOut
  <2>2. steady /\ set_at + TIMEOUT + LATE < WORD
    BY <2>1 DEF Plain
  <2>3. ~DeadlineWraps
    BY <2>2, KeepaliveConstantsOK, SMT DEF KeepaliveInv, TypeOK, DeadlineWraps
  <2>4. ~(elapsed <= TIMEOUT)
    BY <2>1, <2>2, <2>3, WhyTimedOut
  <2>5. TIMEOUT - elapsed < 0
    BY <2>4, KeepaliveConstantsOK, SMT DEF KeepaliveInv, TypeOK
  <2>6. QED
    BY <2>1, <2>5 DEF Promise!GiveUp
<1>8. QED
  BY <1>1, <1>2, <1>3, <1>4, <1>5, <1>6, <1>7 DEF Next

\* As long as the clock neither wraps nor is set before a deadline is dealt
\* with, no connection is given up early or late.
THEOREM PromiseKept == Spec => KeepsPromise
<1>1. KeepaliveInv /\ [Next]_vars =>
        [Plain => [Promise!Next]_(Promise!vars)]_vars
  BY StepImplements
<1>2. QED
  BY <1>1, Invariant, PTL DEF Spec, KeepsPromise
=============================================================================
