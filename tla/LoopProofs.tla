----------------------------- MODULE LoopProofs -----------------------------
(***************************************************************************)
(* Proofs about MinputLoop, for every budget, timeout, backlog and set of  *)
(* kinds of packet: that a connection is kept as long as Countdown         *)
(* promises, and that every request is answered once and on its own        *)
(* connection.  What is owed is counted by Occurrences over the packets    *)
(* not looked at yet, and there are lemmas about what receiving and        *)
(* processing do to that count.                                            *)
(***************************************************************************)
EXTENDS MinputLoop, SequenceTheorems, FiniteSetTheorems, TLAPS

-----------------------------------------------------------------------------
(* The sequences of packets.                                               *)

\* Without its first packet a buffer still holds packets, and a keepalive
\* unless that was the one removed.
LEMMA TailType ==
    ASSUME NEW s \in Seq(Kind), s # << >>
    PROVE  /\ Head(s) \in Kind /\ Tail(s) \in Seq(Kind)
           /\ HasKeepalive(s) => Head(s) \in KeepsAlive \/ HasKeepalive(Tail(s))
<1>1. /\ Head(s) \in Kind /\ Tail(s) \in Seq(Kind)
      /\ Len(Tail(s)) = Len(s) - 1
      /\ \A i \in 1 .. Len(Tail(s)) : Tail(s)[i] = s[i + 1]
  BY HeadTailProperties
<1>2. /\ Len(s) \in Nat /\ DOMAIN s = 1 .. Len(s) /\ Head(s) = s[1]
      /\ DOMAIN Tail(s) = 1 .. Len(Tail(s))
  BY <1>1, LenProperties, SMT
<1>3. ASSUME NEW i \in DOMAIN s, s[i] \in KeepsAlive, Head(s) \notin KeepsAlive
      PROVE  HasKeepalive(Tail(s))
  <2>1. i - 1 \in DOMAIN Tail(s) /\ Tail(s)[i - 1] = s[i]
    BY <1>1, <1>2, <1>3, SMT
  <2>2. QED
    BY <1>3, <2>1 DEF HasKeepalive
<1>4. QED
  BY <1>1, <1>3 DEF HasKeepalive

\* What is received and what stays behind are sequences of packets.
LEMMA PrefixType ==
    ASSUME NEW s \in Seq(Kind), NEW m \in Nat, m <= Len(s)
    PROVE  /\ SubSeq(s, 1, m) \in Seq(Kind)
           /\ Len(SubSeq(s, 1, m)) = m
           /\ \A i \in 1 .. m : SubSeq(s, 1, m)[i] = s[i]
           /\ SubSeq(s, m + 1, Len(s)) \in Seq(Kind)
<1>1. Len(s) \in Nat /\ \A i \in 1 .. Len(s) : s[i] \in Kind
  BY LenProperties, ElementOfSeq
<1>2. \A i \in 1 .. m : s[i] \in Kind
  BY <1>1, SMT
<1>3. \A i \in m + 1 .. Len(s) : s[i] \in Kind
  BY <1>1, SMT
<1>4. SubSeq(s, m + 1, Len(s)) \in Seq(Kind)
  BY <1>1, <1>3, SubSeqProperties
<1>5. /\ SubSeq(s, 1, m) \in Seq(Kind)
      /\ Len(SubSeq(s, 1, m)) = IF 1 <= m THEN m - 1 + 1 ELSE 0
      /\ \A i \in 1 .. m - 1 + 1 : SubSeq(s, 1, m)[i] = s[1 + i - 1]
  BY <1>2, SubSeqProperties
<1>6. Len(SubSeq(s, 1, m)) = m
  BY <1>5, SMT
<1>7. \A i \in 1 .. m : SubSeq(s, 1, m)[i] = s[i]
  BY <1>5, SMT
<1>8. QED
  BY <1>4, <1>5, <1>6, <1>7

\* The buffer with what was received holds every keepalive that either held.
LEMMA ReceivedKeepalive ==
    ASSUME NEW b \in Seq(Kind), NEW s \in Seq(Kind), NEW m \in Nat, m <= Len(s)
    PROVE  /\ b \o SubSeq(s, 1, m) \in Seq(Kind)
           /\ HasKeepalive(b) => HasKeepalive(b \o SubSeq(s, 1, m))
           /\ (\E i \in 1 .. m : s[i] \in KeepsAlive)
                => HasKeepalive(b \o SubSeq(s, 1, m))
<1> DEFINE t == SubSeq(s, 1, m)
           u == b \o t
<1>1. /\ t \in Seq(Kind) /\ Len(t) = m
      /\ \A i \in 1 .. m : t[i] = s[i]
  BY PrefixType
<1> HIDE DEF t
<1>2. /\ u \in Seq(Kind) /\ Len(u) = Len(b) + m
      /\ \A i \in 1 .. Len(b) + m : u[i] = IF i <= Len(b) THEN b[i] ELSE t[i - Len(b)]
  BY <1>1, ConcatProperties
<1> HIDE DEF u
<1>3. /\ Len(b) \in Nat /\ DOMAIN b = 1 .. Len(b)
      /\ DOMAIN u = 1 .. Len(u)
  BY <1>2, LenProperties
<1>4. ASSUME NEW i \in DOMAIN b, b[i] \in KeepsAlive
      PROVE  HasKeepalive(u)
  <2>1. i \in DOMAIN u /\ u[i] = b[i]
    BY <1>2, <1>3, SMT
  <2>2. QED
    BY <1>4, <2>1 DEF HasKeepalive
<1>5. ASSUME NEW i \in 1 .. m, s[i] \in KeepsAlive
      PROVE  HasKeepalive(u)
  <2>1. /\ Len(b) + i \in 1 .. Len(b) + m /\ ~(Len(b) + i <= Len(b))
        /\ Len(b) + i - Len(b) = i
    BY <1>3, SMT
  <2>2. u[Len(b) + i] = s[i] /\ Len(b) + i \in DOMAIN u
    BY <1>1, <1>2, <1>3, <2>1
  <2>3. QED
    BY <1>5, <2>2 DEF HasKeepalive
<1>6. QED
  BY <1>2, <1>4, <1>5 DEF HasKeepalive, u, t

\* The empty buffer holds no keepalive.
LEMMA EmptyType == << >> \in Seq(Kind) /\ ~HasKeepalive(<< >>)
<1>1. << >> \in Seq(Kind) /\ DOMAIN << >> = {}
  BY EmptySeq, SMT
<1>2. QED
  BY <1>1 DEF HasKeepalive

-----------------------------------------------------------------------------
(* Types.                                                                  *)

\* The types are right when the program starts.
LEMMA TypeInit == Init => TypeOK
<1>1. NothingOwed \in [Requests -> Int]
  BY SMT DEF NothingOwed
<1>2. /\ 0 \in 0 .. PKT_PROC_PER_LOOP /\ 0 \in 0 .. RCVTIMEO
      /\ 0 \in 0 .. TIMEOUT + 1
      /\ -(RCVTIMEO + 1) \in -(RCVTIMEO + 1) .. TIMEOUT
  BY LoopConstantsOK, SMT
<1>3. QED
  BY <1>1, <1>2, EmptyType DEF Init, TypeOK, Steps, Links

\* Every step keeps the types.
LEMMA TypeStep ==
    ASSUME TypeOK, Budget, [Next]_vars
    PROVE  TypeOK'
<1> USE DEF TypeOK, netVars, bufVars, timeVars, Steps, Ends, Links
<1>1. ASSUME NEW k \in Kind, ServerWrite(k) PROVE TypeOK'
  <2>1. inflight' \in Seq(Kind)
    BY <1>1, AppendProperties DEF ServerWrite
  <2>2. owed' \in [Requests -> Int]
    BY <1>1, SMT DEF ServerWrite
  <2>3. QED
    BY <1>1, <2>1, <2>2 DEF ServerWrite
<1>2. CASE ServerClose
  BY <1>2 DEF ServerClose
<1>3. CASE ServerReset
  BY <1>3, EmptyType DEF ServerReset
<1>4. CASE ServerGone
  BY <1>4, EmptyType DEF ServerGone
<1>5. CASE Tick
  <2>1. /\ waited' \in 0 .. RCVTIMEO
        /\ calv_left' \in -(RCVTIMEO + 1) .. TIMEOUT
        /\ silent' \in 0 .. TIMEOUT + 1
    BY <1>5, LoopConstantsOK, SMT DEF Tick, Later
  <2>2. QED
    BY <1>5, <2>1 DEF Tick
<1> DEFINE Deadline == TIMEOUT \in -(RCVTIMEO + 1) .. TIMEOUT
<1>6. Deadline /\ 0 \in 0 .. RCVTIMEO /\ 0 \in 0 .. TIMEOUT + 1
      /\ 0 \in 0 .. PKT_PROC_PER_LOOP
  BY LoopConstantsOK, SMT
<1>7. CASE Connect \/ ConnectFails \/ StayConnected
  BY <1>6, <1>7, EmptyType
  DEF Connect, ConnectFails, StayConnected, EmptyBuffer, ResetDeadline
<1>8. ASSUME NEW m \in 0 .. MaxRecv, NEW more \in BOOLEAN,
             FetchData(m, more) \/ FetchNoMemory(m, more)
      PROVE  TypeOK'
  <2>1. m \in Nat /\ m <= Len(inflight)
    BY <1>8, LoopConstantsOK, SMT DEF FetchData, FetchNoMemory, Receive
  <2>2. inflight' \in Seq(Kind)
    BY <1>8, <2>1, PrefixType DEF FetchData, FetchNoMemory, Receive
  <2>3. CASE FetchData(m, more)
    <3>1. buffered' \in Seq(Kind)
      BY <2>1, <2>3, ReceivedKeepalive DEF FetchData
    <3>2. silent' \in 0 .. TIMEOUT + 1
      BY <1>6, <2>3 DEF FetchData
    <3>3. QED
      BY <2>2, <2>3, <3>1, <3>2 DEF FetchData
  <2>4. CASE FetchNoMemory(m, more)
    BY <2>2, <2>4 DEF FetchNoMemory
  <2>5. QED
    BY <1>8, <2>3, <2>4
<1>9. CASE FetchTimeout \/ FetchEnded \/ SendKills \/ CheckInTime
  BY <1>9 DEF FetchTimeout, FetchEnded, SendKills, CheckInTime
<1>10. CASE ProcessPacket \/ ProcessNothing
  <2>1. pkt_proc_iter + 1 \in 0 .. PKT_PROC_PER_LOOP
    BY <1>10, LoopConstantsOK, SMT DEF ProcessPacket, ProcessNothing, Budget
  <2>2. CASE ProcessPacket
    <3>1. buffered' \in Seq(Kind)
      BY <2>2, TailType DEF ProcessPacket
    <3>2. owed' \in [Requests -> Int]
      BY <2>2, SMT DEF ProcessPacket, ParseAndReply
    <3>3. calv_left' \in -(RCVTIMEO + 1) .. TIMEOUT
      BY <1>6, <2>2 DEF ProcessPacket, ParseAndReply
    <3>4. QED
      BY <2>1, <2>2, <3>1, <3>2, <3>3 DEF ProcessPacket, CountPacket
  <2>3. CASE ProcessNothing
    BY <2>1, <2>3 DEF ProcessNothing, CountPacket
  <2>4. QED
    BY <1>10, <2>2, <2>3
<1>11. CASE CheckTimedOut \/ Cleanup
  <2>1. NothingOwed \in [Requests -> Int]
    BY SMT DEF NothingOwed
  <2>2. QED
    BY <1>11, <2>1, EmptyType DEF CheckTimedOut, Cleanup, Disconnect, EmptyBuffer
<1>12. CASE UNCHANGED vars
  BY <1>12 DEF vars
<1>13. QED
  BY <1>1, <1>2, <1>3, <1>4, <1>5, <1>7, <1>8, <1>9, <1>10, <1>11, <1>12
  DEF Next
-----------------------------------------------------------------------------
(* The inductive invariant.                                                *)

\* The invariant holds when the program starts.
LEMMA InvInit == Init => LoopInv
BY TypeInit, LoopConstantsOK, SMT
DEF Init, LoopInv, Overdue, Heard, Budget

\* Every step keeps what is known of an overdue deadline.
LEMMA OverdueStep ==
    ASSUME LoopInv, [Next]_vars, TypeOK'
    PROVE  Overdue'
<1> USE DEF Overdue, DropsInTime, netVars, bufVars, timeVars
<1>1. /\ RCVTIMEO \in Nat /\ TIMEOUT \in Nat /\ 0 <= TIMEOUT
      /\ -RCVTIMEO <= TIMEOUT /\ -0 <= TIMEOUT /\ -RCVTIMEO <= 0
  BY LoopConstantsOK, SMT
<1>2. TypeOK /\ Overdue /\ calv_left \in Int /\ waited \in Nat /\ waited <= RCVTIMEO
  BY <1>1, SMT DEF LoopInv, TypeOK
<1>3. CASE Tick
  BY <1>1, <1>2, <1>3, SMT DEF Tick, Later
<1>4. CASE Connect \/ ConnectFails \/ StayConnected
  BY <1>1, <1>2, <1>4, SMT
  DEF Connect, ConnectFails, StayConnected, ResetDeadline
<1>5. ASSUME NEW m \in 0 .. MaxRecv, NEW more \in BOOLEAN,
             FetchData(m, more) \/ FetchNoMemory(m, more)
      PROVE  Overdue'
  BY <1>1, <1>2, <1>5, SMT DEF FetchData, FetchNoMemory, Receive
<1>6. CASE FetchTimeout \/ FetchEnded \/ SendKills
  BY <1>1, <1>2, <1>6, SMT DEF FetchTimeout, FetchEnded, SendKills
<1>7. CASE ProcessPacket \/ ProcessNothing
  BY <1>1, <1>2, <1>7, SMT
  DEF ProcessPacket, ProcessNothing, CountPacket, ParseAndReply
<1>8. CASE CheckInTime
  BY <1>1, <1>2, <1>8, SMT DEF CheckInTime
<1>9. CASE CheckTimedOut \/ Cleanup
  BY <1>9 DEF CheckTimedOut, Cleanup, Disconnect
<1>10. CASE \/ \E k \in Kind : ServerWrite(k)
            \/ ServerClose \/ ServerReset \/ ServerGone
            \/ UNCHANGED vars
  BY <1>2, <1>10 DEF ServerWrite, ServerClose, ServerReset, ServerGone, vars
<1>11. QED
  BY <1>3, <1>4, <1>5, <1>6, <1>7, <1>8, <1>9, <1>10 DEF Next

\* Every step keeps what is known of a keepalive on its way.
LEMMA HeardStep ==
    ASSUME LoopInv, [Next]_vars, TypeOK'
    PROVE  Heard'
<1> USE DEF Heard, netVars, bufVars, timeVars
<1>1. TIMEOUT \in Nat /\ RCVTIMEO \in Nat
  BY LoopConstantsOK
<1>2. /\ TypeOK /\ Heard /\ calv_left \in Int /\ silent \in Nat
      /\ silent' \in Nat /\ buffered \in Seq(Kind) /\ inflight \in Seq(Kind)
      /\ socket_fd = 1 => -RCVTIMEO <= calv_left
  BY <1>1, SMT DEF LoopInv, TypeOK, Overdue, DropsInTime
<1>3. CASE Tick
  BY <1>1, <1>2, <1>3, SMT DEF Tick, Later
<1>4. CASE Connect \/ ConnectFails
  BY <1>1, <1>2, <1>4, SMT DEF Connect, ConnectFails, ResetDeadline
<1>5. ASSUME NEW m \in 0 .. MaxRecv, NEW more \in BOOLEAN, FetchData(m, more)
      PROVE  Heard'
  <2>1. m \in Nat /\ m <= Len(inflight)
    BY <1>5, LoopConstantsOK, SMT DEF FetchData, Receive
  <2>2. /\ HasKeepalive(buffered) => HasKeepalive(buffered')
        /\ (\E i \in 1 .. m : inflight[i] \in KeepsAlive)
             => HasKeepalive(buffered')
    BY <1>2, <1>5, <2>1, ReceivedKeepalive DEF FetchData
  <2>3. HasKeepalive(buffered') \/ silent' = silent
    BY <1>5, <2>2 DEF FetchData
  <2>4. QED
    BY <1>2, <1>5, <2>2, <2>3 DEF FetchData
<1>6. CASE ProcessPacket
  <2>1. buffered # << >> /\ buffered' = Tail(buffered)
    BY <1>6 DEF ProcessPacket
  <2>2. CASE Head(buffered) \in KeepsAlive
    <3>1. calv_left' = TIMEOUT
      BY <1>6, <2>2 DEF ProcessPacket, ParseAndReply
    <3>2. QED
      BY <1>1, <1>2, <3>1, SMT
  <2>3. CASE Head(buffered) \notin KeepsAlive
    <3>1. HasKeepalive(buffered) => HasKeepalive(buffered')
      BY <1>2, <2>1, <2>3, TailType
    <3>2. QED
      BY <1>2, <1>6, <2>3, <3>1 DEF ProcessPacket, ParseAndReply
  <2>4. QED
    BY <2>2, <2>3
<1>7. CASE CheckTimedOut \/ Cleanup
  BY <1>7 DEF CheckTimedOut, Cleanup, Disconnect
<1>8. CASE \/ StayConnected
           \/ \E m \in 0 .. MaxRecv, more \in BOOLEAN : FetchNoMemory(m, more)
           \/ FetchTimeout \/ FetchEnded \/ SendKills \/ ProcessNothing
           \/ CheckInTime
  BY <1>2, <1>8 DEF StayConnected, FetchNoMemory, FetchTimeout, FetchEnded,
     SendKills, ProcessNothing, CheckInTime
<1>9. CASE \/ \E k \in Kind : ServerWrite(k)
           \/ ServerClose \/ ServerReset \/ ServerGone
           \/ UNCHANGED vars
  BY <1>2, <1>9 DEF ServerWrite, ServerClose, ServerReset, ServerGone, vars
<1>10. QED
  BY <1>3, <1>4, <1>5, <1>6, <1>7, <1>8, <1>9 DEF Next

\* Every step keeps the budget of packets of an iteration.
LEMMA BudgetStep ==
    ASSUME LoopInv, [Next]_vars, TypeOK'
    PROVE  Budget'
<1> USE DEF Budget, netVars, bufVars, timeVars
<1>1. PKT_PROC_PER_LOOP \in Nat \ {0}
  BY LoopConstantsOK
<1>2. Budget /\ pkt_proc_iter \in Nat /\ pkt_proc_iter <= PKT_PROC_PER_LOOP
  BY <1>1, SMT DEF LoopInv, TypeOK
<1>3. CASE Connect \/ ConnectFails \/ StayConnected
  BY <1>1, <1>3, SMT DEF Connect, ConnectFails, StayConnected
<1>4. CASE ProcessPacket \/ ProcessNothing
  <2>1. /\ pkt_proc_iter' = pkt_proc_iter + 1
        /\ pc' = IF (buffered' # << >> \/ partial)
                       /\ pkt_proc_iter' < PKT_PROC_PER_LOOP
                  THEN "process" ELSE "check"
    BY <1>4 DEF ProcessPacket, ProcessNothing, CountPacket
  <2>2. pkt_proc_iter < PKT_PROC_PER_LOOP
    BY <1>2, <1>4 DEF ProcessPacket, ProcessNothing
  <2>3. pc' \in {"process", "check"}
        /\ (pc' = "process" => pkt_proc_iter' < PKT_PROC_PER_LOOP)
        /\ (pc' = "check" /\ buffered' # << >>
             => ~(pkt_proc_iter' < PKT_PROC_PER_LOOP))
    BY <2>1, Zenon
  <2>4. QED
    BY <1>1, <1>2, <2>1, <2>2, <2>3, SMT
<1>5. ASSUME NEW m \in 0 .. MaxRecv, NEW more \in BOOLEAN,
             FetchData(m, more) \/ FetchNoMemory(m, more)
      PROVE  Budget'
  BY <1>2, <1>5 DEF FetchData, FetchNoMemory, Receive
<1>8. CASE \/ FetchTimeout \/ FetchEnded \/ SendKills
           \/ CheckInTime \/ CheckTimedOut \/ Cleanup
  BY <1>2, <1>8 DEF FetchTimeout, FetchEnded, SendKills, CheckInTime,
     CheckTimedOut, Cleanup
<1>6. CASE \/ \E k \in Kind : ServerWrite(k)
           \/ ServerClose \/ ServerReset \/ ServerGone \/ Tick
           \/ UNCHANGED vars
  BY <1>2, <1>6 DEF ServerWrite, ServerClose, ServerReset, ServerGone, Tick,
     vars
<1>7. QED
  BY <1>3, <1>4, <1>5, <1>6, <1>8 DEF Next

\* Every step keeps the invariant.
LEMMA InvStep ==
    ASSUME LoopInv, [Next]_vars
    PROVE  LoopInv'
<1>1. TypeOK'
  BY TypeStep DEF LoopInv
<1>2. QED
  BY <1>1, OverdueStep, HeardStep, BudgetStep DEF LoopInv

\* Where the loop is tells how far past its deadline a connection can be, when
\* it last heard the server, and why packets are left in the buffer.
THEOREM Invariant == Spec => []LoopInv
<1>1. Init => LoopInv
  BY InvInit
<1>2. LoopInv /\ [Next]_vars => LoopInv'
  BY InvStep
<1>3. QED
  BY <1>1, <1>2, PTL DEF Spec

\* Every variable of the loop keeps its type; in particular no iteration
\* processes more than PKT_PROC_PER_LOOP packets (main.c:73).
THEOREM TypeCorrect == Spec => []TypeOK
<1>1. LoopInv => TypeOK
  BY DEF LoopInv
<1>2. QED
  BY <1>1, Invariant, PTL

\* No connection is kept for more than one recv() timeout past the deadline,
\* with any backlog and any traffic (main.c:80-92).
THEOREM DropsInTimeAlways == Spec => []DropsInTime
<1>1. LoopInv => DropsInTime
  <2>1. ASSUME LoopInv, socket_fd = 1 PROVE calv_left >= -RCVTIMEO
    BY <2>1 DEF LoopInv, Overdue, DropsInTime
  <2>2. QED
    BY <2>1 DEF DropsInTime
<1>2. QED
  BY <1>1, Invariant, PTL

\* The reasons for which minput_loop_iter drops a connection are the ones
\* WhyDropped names, and no other.
THEOREM DropsForAReason == Spec => WhyDropped
<1>1. ASSUME LoopInv, [Next]_vars, socket_fd = 1, socket_fd' = 0
      PROVE  \/ pc = "cleanup"
             \/ silent > TIMEOUT
             \/ HasKeepalive(buffered) /\ pkt_proc_iter = PKT_PROC_PER_LOOP
  <2> USE DEF netVars, bufVars, timeVars
  <2>1. CheckTimedOut \/ Cleanup
    BY <1>1 DEF Next, vars, ServerWrite, ServerClose, ServerReset, ServerGone,
       Tick, Connect, ConnectFails, StayConnected, FetchData, FetchNoMemory,
       FetchTimeout, FetchEnded, ProcessPacket, SendKills, ProcessNothing,
       CheckInTime
  <2>2. CASE Cleanup
    BY <2>2 DEF Cleanup
  <2>3. CASE CheckTimedOut
    <3>1. pc = "check" /\ calv_left < 0 /\ calv_left \in Int
          /\ silent \in Nat /\ TIMEOUT \in Nat
      BY <1>1, <2>3, LoopConstantsOK, SMT DEF CheckTimedOut, LoopInv, TypeOK
    <3>2. CASE HasKeepalive(buffered)
      <4>1. buffered # << >>
        BY <3>2, EmptyType
      <4>2. QED
        BY <1>1, <3>1, <3>2, <4>1 DEF LoopInv, Budget
    <3>3. CASE ~HasKeepalive(buffered)
      BY <1>1, <3>1, <3>3, SMT DEF LoopInv, Heard
    <3>4. QED
      BY <3>2, <3>3
  <2>4. QED
    BY <2>1, <2>2, <2>3
<1>2. QED
  BY <1>1, Invariant, PTL DEF Spec, WhyDropped
-----------------------------------------------------------------------------
(* The loop implements Countdown.                                          *)

\* Every step is one of the abstract loop or leaves its variables as they are.
LEMMA StepImplements ==
    ASSUME LoopInv, [Next]_vars
    PROVE  [Promise!Next]_(Promise!vars)
<1> USE DEF Promise!Next, Promise!vars, Steps, Ends
<1>1. /\ TypeOK /\ Overdue /\ RCVTIMEO \in Nat /\ calv_left \in Int
      /\ waited \in Nat
  BY LoopConstantsOK, SMT DEF LoopInv, TypeOK
<1>2. CASE Tick
  <2>1. pc = "fetch" /\ socket_fd' = socket_fd /\ pc' = pc
    BY <1>2 DEF Tick
  <2>2. CASE socket_fd = 1
    <3>1. calv_left > -RCVTIMEO /\ calv_left' = calv_left - 1
      BY <1>1, <1>2, <2>2, SMT DEF Tick, Overdue, Later
    <3>2. QED
      BY <2>1, <2>2, <3>1 DEF Promise!Pass
  <2>3. QED
    BY <2>1, <2>2
<1>3. CASE Connect
  BY <1>3 DEF Connect, ResetDeadline, Promise!Begin
<1>4. CASE ConnectFails
  BY <1>4 DEF ConnectFails
<1>5. CASE ProcessPacket
  <2>1. /\ pc = "process" /\ pc' \in {"process", "check"}
        /\ socket_fd' = socket_fd
        /\ calv_left' \in {calv_left, TIMEOUT}
    BY <1>5 DEF ProcessPacket, CountPacket, ParseAndReply
  <2>2. QED
    BY <2>1 DEF Promise!Hear
<1>6. CASE SendKills
  BY <1>6 DEF SendKills, Promise!Leave
<1>7. CASE CheckTimedOut
  BY <1>7 DEF CheckTimedOut, Disconnect, Promise!GiveUp
<1>8. CASE Cleanup
  BY <1>8 DEF Cleanup, Promise!Leave
<1>9. CASE \/ StayConnected \/ FetchTimeout \/ FetchEnded \/ ProcessNothing
           \/ CheckInTime
           \/ \E m \in 0 .. MaxRecv, more \in BOOLEAN :
                FetchData(m, more) \/ FetchNoMemory(m, more)
  <2>1. /\ pc \notin Ends /\ pc' \notin Ends
        /\ socket_fd' = socket_fd /\ calv_left' = calv_left
    BY <1>9 DEF StayConnected, FetchTimeout, FetchEnded, ProcessNothing,
       CountPacket, CheckInTime, FetchData, FetchNoMemory, Receive, timeVars
  <2>2. QED
    BY <2>1
<1>10. CASE \/ \E k \in Kind : ServerWrite(k)
            \/ ServerClose \/ ServerReset \/ ServerGone
            \/ UNCHANGED vars
  BY <1>10 DEF ServerWrite, ServerClose, ServerReset, ServerGone, vars, timeVars
<1>11. QED
  BY <1>2, <1>3, <1>4, <1>5, <1>6, <1>7, <1>8, <1>9, <1>10 DEF Next

\* No connection is given up before its deadline or more than a recv() timeout
\* after it, for every timeout, budget and backlog (minput.h:84-88).
THEOREM ImplementsCountdown == Spec => PromiseSpec
<1>1. Init => Promise!Init
  BY DEF Init, Promise!Init, Ends
<1>2. LoopInv /\ [Next]_vars => [Promise!Next]_(Promise!vars)
  BY StepImplements
<1>3. QED
  BY <1>1, <1>2, Invariant, PTL DEF Spec, PromiseSpec, Promise!Spec


-----------------------------------------------------------------------------
(* Counting.                                                               *)

Places(k, s) == {i \in DOMAIN s : s[i] = k}

\* The places of a packet in a sequence are finitely many: they can be counted.
LEMMA PlacesFinite ==
    ASSUME NEW s \in Seq(Kind), NEW k
    PROVE  /\ IsFiniteSet(Places(k, s))
           /\ Occurrences(k, s) = Cardinality(Places(k, s))
           /\ Occurrences(k, s) \in Nat
<1>1. DOMAIN s = 1 .. Len(s) /\ Len(s) \in Nat
  BY LenProperties
<1>2. IsFiniteSet(1 .. Len(s))
  BY <1>1, FS_Interval, SMT
<1>3. Places(k, s) \in SUBSET (1 .. Len(s))
  BY <1>1 DEF Places
<1>4. IsFiniteSet(Places(k, s))
  BY <1>2, <1>3, FS_Subset
<1>5. Occurrences(k, s) = Cardinality(Places(k, s))
  BY DEF Occurrences, Places
<1>6. QED
  BY <1>4, <1>5, FS_CardinalityType

\* Nothing occurs in the empty sequence.
LEMMA OccurrencesEmpty ==
    ASSUME NEW k
    PROVE  Occurrences(k, << >>) = 0
<1>1. Places(k, << >>) = {}
  BY SMT DEF Places
<1>2. QED
  BY <1>1, PlacesFinite, EmptyType, FS_EmptySet

\* A packet appended is one occurrence more of it, and of nothing else.
LEMMA OccurrencesAppend ==
    ASSUME NEW s \in Seq(Kind), NEW x \in Kind, NEW k
    PROVE  Occurrences(k, Append(s, x))
               = Occurrences(k, s) + (IF x = k THEN 1 ELSE 0)
<1> DEFINE t == Append(s, x)
<1>1. /\ t \in Seq(Kind) /\ Len(t) = Len(s) + 1 /\ Len(s) \in Nat
      /\ \A i \in 1 .. Len(s) : t[i] = s[i]
      /\ t[Len(s) + 1] = x
  BY AppendProperties, LenProperties
<1>2. DOMAIN s = 1 .. Len(s) /\ DOMAIN t = 1 .. Len(s) + 1
  BY <1>1, LenProperties
<1> HIDE DEF t
<1>3. 1 .. Len(s) + 1 = 1 .. Len(s) \cup {Len(s) + 1}
      /\ Len(s) + 1 \notin 1 .. Len(s)
  BY <1>1, SMT
<1>4. CASE x = k
  <2>1. Places(k, t) = Places(k, s) \cup {Len(s) + 1}
        /\ Len(s) + 1 \notin Places(k, s)
    BY <1>1, <1>2, <1>3, <1>4 DEF Places
  <2>2. Cardinality(Places(k, t)) = Cardinality(Places(k, s)) + 1
    BY <2>1, PlacesFinite, FS_AddElement
  <2>3. QED
    BY <1>1, <1>4, <2>2, PlacesFinite DEF t
<1>5. CASE x # k
  <2>1. Places(k, t) = Places(k, s)
    BY <1>1, <1>2, <1>3, <1>5 DEF Places
  <2>2. Occurrences(k, t) = Occurrences(k, s) /\ Occurrences(k, s) \in Nat
    BY <1>1, <2>1, PlacesFinite
  <2>3. QED
    BY <1>5, <2>2, SMT DEF t
<1>6. QED
  BY <1>4, <1>5

\* A packet taken from the front is one occurrence less: the others move up by
\* one place.
LEMMA OccurrencesTail ==
    ASSUME NEW s \in Seq(Kind), s # << >>, NEW k
    PROVE  Occurrences(k, s)
               = Occurrences(k, Tail(s)) + (IF Head(s) = k THEN 1 ELSE 0)
<1> DEFINE t == Tail(s)
           rest == Places(k, s) \ {1}
           up == [i \in rest |-> i - 1]
<1>1. /\ t \in Seq(Kind) /\ Len(t) = Len(s) - 1 /\ Len(s) \in Nat
      /\ \A i \in 1 .. Len(t) : t[i] = s[i + 1]
  BY HeadTailProperties, LenProperties
<1>2. /\ DOMAIN s = 1 .. Len(s) /\ DOMAIN t = 1 .. Len(t) /\ Head(s) = s[1]
      /\ Len(s) # 0
  BY <1>1, LenProperties, EmptySeq, SMT
<1> HIDE DEF t
<1>3. IsFiniteSet(rest) /\ Cardinality(rest) = Cardinality(Places(k, t))
  <2>1. \A i \in rest : i \in Int /\ i - 1 \in Places(k, t)
    BY <1>1, <1>2, SMT DEF Places
  <2>2. \A j \in Places(k, t) : j \in Int /\ j + 1 \in rest /\ j + 1 - 1 = j
    BY <1>1, <1>2, SMT DEF Places
  <2>3. IsFiniteSet(rest)
    BY PlacesFinite, FS_RemoveElement
  <2> HIDE DEF rest
  <2>4. up \in [rest -> Places(k, t)]
    BY <2>1
  <2>5. \A i, j \in rest : up[i] = up[j] => i = j
    BY <2>1, SMT
  <2>6. \A j \in Places(k, t) : \E i \in rest : up[i] = j
    BY <2>2
  <2>7. up \in Bijection(rest, Places(k, t))
    BY <2>4, <2>5, <2>6 DEF Bijection, Injection, Surjection, IsInjective
  <2>8. QED
    BY <2>3, <2>7, FS_Bijection DEF ExistsBijection
<1>4. Cardinality(rest) =
        IF 1 \in Places(k, s) THEN Cardinality(Places(k, s)) - 1
                              ELSE Cardinality(Places(k, s))
  BY PlacesFinite, FS_RemoveElement
<1>5. 1 \in Places(k, s) <=> Head(s) = k
  BY <1>1, <1>2, SMT DEF Places
<1> HIDE DEF rest
<1>6. Occurrences(k, s) = Cardinality(Places(k, s)) /\ Occurrences(k, s) \in Nat
  BY PlacesFinite
<1>7. Occurrences(k, t) = Cardinality(Places(k, t))
  BY <1>1, PlacesFinite
<1>8. QED
  BY <1>3, <1>4, <1>5, <1>6, <1>7, SMT DEF t

-----------------------------------------------------------------------------
(* What the steps do to the packets not looked at.                         *)

Waiting == buffered \o inflight

\* What the server writes comes last of all that is on its way.
LEMMA WrittenLast ==
    ASSUME NEW b \in Seq(Kind), NEW s \in Seq(Kind), NEW x \in Kind
    PROVE  b \o Append(s, x) = Append(b \o s, x)
<1>1. b \o s \in Seq(Kind) /\ <<x>> \in Seq(Kind)
  BY ConcatProperties, SMT
<1>2. Append(s, x) = s \o <<x>> /\ Append(b \o s, x) = (b \o s) \o <<x>>
  BY <1>1, AppendIsConcat
<1>3. QED
  BY <1>1, <1>2, ConcatAssociative

\* netio_fetch_packets leaves what is on its way as it is: it only moves from
\* the socket to the buffer.
LEMMA ReceivedStays ==
    ASSUME NEW b \in Seq(Kind), NEW s \in Seq(Kind), NEW m \in Nat, m <= Len(s)
    PROVE  (b \o SubSeq(s, 1, m)) \o SubSeq(s, m + 1, Len(s)) = b \o s
<1> DEFINE p == SubSeq(s, 1, m)
           q == SubSeq(s, m + 1, Len(s))
<1>1. p \in Seq(Kind) /\ q \in Seq(Kind)
  BY PrefixType
<1>2. /\ 1 \in 1 .. Len(s) + 1 /\ m \in 1 - 1 .. Len(s)
      /\ Len(s) \in m .. Len(s)
  BY LenProperties, SMT
<1>3. p \o q = s
  BY <1>2, ConcatAdjacentSubSeq, SubSeqFull
<1> HIDE DEF p, q
<1>4. (b \o p) \o q = b \o (p \o q)
  BY <1>1, ConcatAssociative
<1>5. QED
  BY <1>3, <1>4 DEF p, q

\* The packet that is processed is the first of all that is on its way.
LEMMA ProcessedFirst ==
    ASSUME NEW b \in Seq(Kind), NEW s \in Seq(Kind), b # << >>
    PROVE  /\ b \o s \in Seq(Kind) /\ b \o s # << >>
           /\ Head(b \o s) = Head(b)
           /\ Tail(b \o s) = Tail(b) \o s
<1> DEFINE u == b \o s
           v == Tail(b) \o s
<1>1. /\ u \in Seq(Kind) /\ Len(u) = Len(b) + Len(s)
      /\ \A i \in 1 .. Len(b) + Len(s) :
           u[i] = IF i <= Len(b) THEN b[i] ELSE s[i - Len(b)]
  BY ConcatProperties
<1>2. /\ Tail(b) \in Seq(Kind) /\ Len(Tail(b)) = Len(b) - 1
      /\ \A i \in 1 .. Len(Tail(b)) : Tail(b)[i] = b[i + 1]
  BY HeadTailProperties
<1>3. /\ v \in Seq(Kind) /\ Len(v) = Len(b) - 1 + Len(s)
      /\ \A i \in 1 .. Len(b) - 1 + Len(s) :
           v[i] = IF i <= Len(b) - 1 THEN Tail(b)[i] ELSE s[i - (Len(b) - 1)]
  BY <1>2, ConcatProperties
<1>4. Len(b) \in Nat /\ Len(b) # 0 /\ Len(s) \in Nat
  BY LenProperties, EmptySeq
<1> HIDE DEF u, v
<1>5. u # << >> /\ Head(u) = u[1] /\ Head(b) = b[1] /\ u[1] = b[1]
  BY <1>1, <1>4, EmptySeq, SMT
<1>6. /\ Tail(u) \in Seq(Kind) /\ Len(Tail(u)) = Len(u) - 1
      /\ \A i \in 1 .. Len(Tail(u)) : Tail(u)[i] = u[i + 1]
  BY <1>1, <1>5, HeadTailProperties
<1>7. Len(Tail(u)) = Len(v)
  BY <1>1, <1>3, <1>4, <1>6, SMT
<1>8. ASSUME NEW i \in 1 .. Len(Tail(u)) PROVE Tail(u)[i] = v[i]
  <2>1. CASE i <= Len(b) - 1
    <3>1. Tail(u)[i] = b[i + 1]
      BY <1>1, <1>4, <1>6, <2>1, SMT
    <3>2. v[i] = b[i + 1]
      BY <1>1, <1>2, <1>3, <1>4, <1>6, <2>1, SMT
    <3>3. QED
      BY <3>1, <3>2
  <2>2. CASE ~(i <= Len(b) - 1)
    <3>1. i \in Int /\ i - (Len(b) - 1) = i + 1 - Len(b)
      BY <1>4, SMT
    <3>2. Tail(u)[i] = s[i + 1 - Len(b)]
      BY <1>1, <1>4, <1>6, <2>2, SMT
    <3>3. i \in 1 .. Len(b) - 1 + Len(s)
      BY <1>3, <1>7
    <3>4. v[i] = s[i - (Len(b) - 1)]
      BY <1>3, <2>2, <3>3
    <3>5. QED
      BY <3>1, <3>2, <3>4
  <2>3. QED
    BY <2>1, <2>2
<1>9. Tail(u) = v
  BY <1>3, <1>6, <1>7, <1>8, SeqEqual
<1>10. QED
  BY <1>1, <1>5, <1>9 DEF u, v

-----------------------------------------------------------------------------
(* The invariant.                                                          *)

\* Without a connection nothing is on its way and nothing is owed.
NothingLeft ==
    socket_fd = 0 =>
        /\ link = "none" /\ inflight = << >> /\ owed = NothingOwed
        /\ pc \notin {"fetch", "process"}

OwedInv == NothingLeft /\ OwedIsOnItsWay

\* The account is balanced when the program starts.
LEMMA OwedInit == Init => OwedInv
BY DEF Init, OwedInv, NothingLeft, OwedIsOnItsWay

\* Every step keeps that nothing is on its way without a connection.
LEMMA NothingLeftStep ==
    ASSUME TypeOK, NothingLeft, [Next]_vars
    PROVE  NothingLeft'
<1> USE DEF NothingLeft, netVars, bufVars, timeVars
<1>1. ASSUME NEW k \in Kind, ServerWrite(k) PROVE NothingLeft'
  BY <1>1 DEF ServerWrite
<1>2. CASE ServerClose \/ ServerReset \/ ServerGone
  BY <1>2 DEF ServerClose, ServerReset, ServerGone
<1>3. CASE Tick
  BY <1>3 DEF Tick
<1>4. CASE Connect \/ ConnectFails \/ StayConnected
  BY <1>4 DEF Connect, ConnectFails, StayConnected
<1>5. ASSUME NEW m \in 0 .. MaxRecv, NEW more \in BOOLEAN,
             FetchData(m, more) \/ FetchNoMemory(m, more)
      PROVE  NothingLeft'
  BY <1>5 DEF FetchData, FetchNoMemory, Receive
<1>6. CASE FetchTimeout \/ FetchEnded \/ SendKills
  BY <1>6 DEF FetchTimeout, FetchEnded, SendKills
<1>7. CASE ProcessPacket \/ ProcessNothing
  BY <1>7 DEF ProcessPacket, ProcessNothing
<1>8. CASE CheckInTime \/ CheckTimedOut \/ Cleanup
  BY <1>8 DEF CheckInTime, CheckTimedOut, Cleanup, Disconnect
<1>9. CASE UNCHANGED vars
  BY <1>9 DEF vars
<1>10. QED
  BY <1>1, <1>2, <1>3, <1>4, <1>5, <1>6, <1>7, <1>8, <1>9 DEF Next

\* Every step leaves what is owed equal to what is on its way.
LEMMA OwedStep ==
    ASSUME TypeOK, OwedInv, [Next]_vars
    PROVE  OwedIsOnItsWay'
<1> USE DEF netVars, bufVars, timeVars
<1> SUFFICES ASSUME link' = "open", pc' # "cleanup"
             PROVE  \A k \in Requests : owed'[k] = Occurrences(k, Waiting')
  BY DEF OwedIsOnItsWay, Waiting
<1> DEFINE Goal == \A k \in Requests : owed'[k] = Occurrences(k, Waiting')
<1>a. /\ buffered \in Seq(Kind) /\ inflight \in Seq(Kind)
      /\ owed \in [Requests -> Int]
      /\ Waiting \in Seq(Kind)
  BY ConcatProperties DEF TypeOK, Waiting
<1>b. ASSUME link = "open", pc # "cleanup"
      PROVE  \A k \in Requests : owed[k] = Occurrences(k, Waiting)
  BY <1>b DEF OwedInv, OwedIsOnItsWay, Waiting
<1>c. ASSUME UNCHANGED <<link, owed, buffered, inflight>>,
             pc # "cleanup"
      PROVE  Goal
  BY <1>b, <1>c DEF Waiting
<1>1. ASSUME NEW x \in Kind, ServerWrite(x) PROVE Goal
  <2>1. link = "open" /\ pc # "cleanup" /\ Waiting' = Append(Waiting, x)
    BY <1>1, <1>a, WrittenLast DEF ServerWrite, Waiting
  <2>2. ASSUME NEW k \in Requests
        PROVE  owed'[k] = owed[k] + (IF x = k THEN 1 ELSE 0)
    BY <1>1, <1>a, SMT DEF ServerWrite
  <2>3. QED
    BY <1>a, <1>b, <2>1, <2>2, OccurrencesAppend
<1>2. CASE ServerClose \/ ServerReset \/ ServerGone
  BY <1>2 DEF ServerClose, ServerReset, ServerGone
<1>3. CASE Tick
  BY <1>3, <1>c DEF Tick
<1>4. CASE Connect
  <2>1. Waiting' = << >> /\ owed' = NothingOwed
    BY <1>4, EmptyType, ConcatEmptySeq
    DEF Connect, EmptyBuffer, OwedInv, NothingLeft, Waiting
  <2>2. QED
    BY <2>1, OccurrencesEmpty DEF NothingOwed
<1>5. CASE ConnectFails
  BY <1>5 DEF ConnectFails, OwedInv, NothingLeft
<1>6. CASE StayConnected
  BY <1>6, <1>c DEF StayConnected
<1>7. ASSUME NEW m \in 0 .. MaxRecv, NEW more \in BOOLEAN,
             FetchData(m, more)
      PROVE  Goal
  <2>1. m \in Nat /\ m <= Len(inflight)
    BY <1>7, LoopConstantsOK, SMT DEF FetchData, Receive
  <2>2. Waiting' = Waiting
    BY <1>7, <1>a, <2>1, ReceivedStays DEF FetchData, Receive, Waiting
  <2>3. QED
    BY <1>7, <1>b, <2>2 DEF FetchData, Receive
<1>8. ASSUME NEW m \in 0 .. MaxRecv, NEW more \in BOOLEAN,
             FetchNoMemory(m, more)
      PROVE  Goal
  BY <1>8 DEF FetchNoMemory
<1>9. CASE FetchTimeout \/ FetchEnded \/ SendKills \/ CheckInTime
  BY <1>9, <1>c DEF FetchTimeout, FetchEnded, SendKills, CheckInTime
<1>10. CASE ProcessPacket
  <2> DEFINE x == Head(buffered)
  <2>1. buffered # << >> /\ link = "open" /\ pc = "process"
    BY <1>10 DEF ProcessPacket
  <2>2. /\ Waiting # << >> /\ Head(Waiting) = x
        /\ Waiting' = Tail(Waiting)
    BY <1>10, <1>a, <2>1, ProcessedFirst DEF ProcessPacket, Waiting
  <2>3. ASSUME NEW k \in Requests
        PROVE  owed'[k] = owed[k] - (IF x = k THEN 1 ELSE 0)
    BY <1>10, <1>a, <2>1, SMT DEF ProcessPacket, ParseAndReply
  <2>4. ASSUME NEW k \in Requests
        PROVE  owed'[k] = Occurrences(k, Waiting')
    <3>1. Occurrences(k, Waiting)
            = Occurrences(k, Tail(Waiting)) + (IF x = k THEN 1 ELSE 0)
      BY <1>a, <2>2, OccurrencesTail
    <3>2. Tail(Waiting) \in Seq(Kind)
      BY <1>a, <2>2, HeadTailProperties
    <3>3. Occurrences(k, Tail(Waiting)) \in Nat
      BY <3>2, PlacesFinite
    <3>4. owed[k] = Occurrences(k, Waiting)
      BY <1>b, <2>1
    <3>5. QED
      BY <2>2, <2>3, <3>1, <3>3, <3>4, SMT
  <2>5. QED
    BY <2>4
<1>11. CASE ProcessNothing
  BY <1>11, <1>c DEF ProcessNothing
<1>12. CASE CheckTimedOut \/ Cleanup
  BY <1>12 DEF CheckTimedOut, Cleanup, Disconnect
<1>13. CASE UNCHANGED vars
  BY <1>13, <1>c DEF vars
<1>14. QED
  BY <1>1, <1>2, <1>3, <1>4, <1>5, <1>6, <1>7, <1>8, <1>9, <1>10, <1>11,
     <1>12, <1>13 DEF Next

-----------------------------------------------------------------------------
\* Nothing is answered twice, and no request of an earlier connection is
\* answered on a later one, whatever the budget and the backlog (main.c:55-73,
\* netio.c:229-238).
THEOREM AnsweredOnce == Spec => []OwedIsOnItsWay
<1>1. LoopInv => TypeOK
  BY DEF LoopInv
<1>2. TypeOK /\ OwedInv /\ [Next]_vars => OwedInv'
  BY NothingLeftStep, OwedStep DEF OwedInv
<1>3. OwedInv => OwedIsOnItsWay
  BY DEF OwedInv
<1>4. QED
  BY <1>1, <1>2, <1>3, OwedInit, Invariant, PTL DEF Spec
=============================================================================
