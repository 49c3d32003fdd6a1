---------------------------- MODULE StartupProofs ----------------------------
(***************************************************************************)
(* Proofs about Startup: what is left when the program ends, and what an   *)
(* iteration that a dialog lets run can reach, for every set of platforms, *)
(* arguments and error numbers.                                            *)
(***************************************************************************)
EXTENDS Startup, TLAPS

\* The buffer is allocated before anything can be connected, and is there
\* until cleaning up is over.
BufferByPhase ==
    /\ pc \in {"args", "buffer"} => pkt_buf = "none"
    /\ pc \in {"ui", "network", "network_dialog", "loop"} => pkt_buf = "live"

\* A connection is made in the loop, and is there until cleaning up is over; so
\* is the buffer.
ConnectedByPhase ==
    connected => pc \in {"loop", "cleanup"} /\ pkt_buf = "live"

\* On Windows sockets can be opened only from netio_setup on.
WinsockByPhase ==
    wsa /\ platform = "windows" =>
        pc \in {"loop", "cleanup", "last_dialog", "done"}

\* Until osio_loop is left, g_running falls only with WM_QUIT; unless the result
\* is 0, WM_QUIT is pending still in WinMain's dialog.
QuitByPhase ==
    /\ pc \notin {"cleanup", "last_dialog", "done"} /\ ~g_running => quit
    /\ /\ platform = "windows" /\ wsa
       /\ \/ pc = "last_dialog"
          \/ pc = "cleanup" /\ retval # 0
       => quit

CleanedUp ==
    pc \in {"last_dialog", "done"} => ~connected /\ pkt_buf # "live" /\ ~icon

FailureInResult ==
    pc \in {"cleanup", "last_dialog", "done"} /\ failed /\ controls =>
        retval # 0

StartupInv ==
    /\ TypeOK
    /\ BufferByPhase
    /\ ConnectedByPhase
    /\ WinsockByPhase
    /\ QuitByPhase
    /\ CleanedUp
    /\ FailureInResult

\* No error of the program is 0, which stands for success.
LEMMA ErrorsAreFailures ==
    /\ {ERR_OS, ERR_ARGS, ERR_ALLOC, ERR_OVERFLOW} \subseteq Errors
    /\ ERR_OS # 0 /\ ERR_ARGS # 0 /\ ERR_ALLOC # 0 /\ ERR_OVERFLOW # 0
    /\ \A error \in Errors : error # 0
BY StartupConstantsOK, SMT DEF Errors

\* The two halves of TypeOK.
Flags ==
    /\ timer \in BOOLEAN /\ icon \in BOOLEAN
    /\ wsa \in BOOLEAN /\ connected \in BOOLEAN
    /\ quit \in BOOLEAN /\ g_running \in BOOLEAN
    /\ controls \in BOOLEAN /\ failed \in BOOLEAN

Values ==
    /\ platform \in Platform
    /\ pc \in {"args", "buffer", "ui", "network", "network_dialog", "loop",
               "cleanup", "last_dialog", "done"}
    /\ server_port \in {0, 24800} \cup AddressNumber
    /\ pkt_buf \in {"none", "live", "freed"}
    /\ retval \in {0, 1} \cup Errors

\* The types fall into two halves that are proved apart.
LEMMA Halves == (TypeOK <=> Values /\ Flags) /\ (TypeOK' <=> Values' /\ Flags')
BY SMT DEF TypeOK, Flags, Values

\* A state of Init satisfies it.
LEMMA StartupInit == Init => StartupInv
<1> SUFFICES ASSUME Init PROVE StartupInv
  OBVIOUS
<1>1. TypeOK
  <2>1. Flags
    <3>1. wsa \in BOOLEAN
      BY Zenon DEF Init
    <3>2. QED
      BY <3>1, Zenon DEF Init, Flags
  <2>2. Values
    BY SMT DEF Init, Values
  <2>3. QED
    BY <2>1, <2>2, Halves
<1>2. BufferByPhase /\ ConnectedByPhase /\ CleanedUp /\ FailureInResult
  BY SMT DEF Init, BufferByPhase, ConnectedByPhase, CleanedUp, FailureInResult
<1>3. WinsockByPhase
  <2>1. wsa => platform = "unix"
    BY Zenon DEF Init
  <2>2. "unix" # "windows"
    OBVIOUS
  <2>3. QED
    BY <2>1, <2>2, Zenon DEF WinsockByPhase
<1>4. QuitByPhase
  BY SMT DEF Init, QuitByPhase
<1>5. QED
  BY <1>1, <1>2, <1>3, <1>4 DEF StartupInv


\* Every action leaves flags as flags.
LEMMA FlagsStep ==
    ASSUME Flags, [Next]_vars
    PROVE  Flags'
<1> USE DEF Flags, GiveUp, Quit, uiVars, netVars
<1>1. CASE ReadArgs
  <2>1. failed' = failed \/ failed' = TRUE
    BY <1>1, SMT DEF ReadArgs
  <2>2. UNCHANGED <<uiVars, netVars>>
    BY <1>1, SMT DEF ReadArgs
  <2>3. QED
    BY <2>1, <2>2, Zenon
<1>2. CASE AllocateBuffer
  BY <1>2, Zenon DEF AllocateBuffer
<1>3. CASE BufferFails
  BY <1>3, Zenon DEF BufferFails
<1>4. CASE SetupUi
  BY <1>4, Zenon DEF SetupUi
<1>5. CASE UiFails
  BY <1>5, Zenon DEF UiFails
<1>6. CASE ControlsFail
  BY <1>6, Zenon DEF ControlsFail
<1>7. CASE SetupNetwork
  BY <1>7, Zenon DEF SetupNetwork
<1>8. CASE NetworkFails
  BY <1>8, Zenon DEF NetworkFails
<1>9. CASE CloseNetworkDialog
  BY <1>9, Zenon DEF CloseNetworkDialog
<1>10. CASE IterConnects
  BY <1>10, Zenon DEF IterConnects
<1>11. CASE IterDisconnects
  BY <1>11, Zenon DEF IterDisconnects
<1>12. CASE IterFails
  BY <1>12, Zenon DEF IterFails
<1>13. CASE UserQuits
  BY <1>13, Zenon DEF UserQuits
<1>14. CASE LeaveLoop
  BY <1>14, Zenon DEF LeaveLoop
<1>15. CASE Cleanup
  BY <1>15, Zenon DEF Cleanup
<1>16. CASE CloseLastDialog
  BY <1>16, Zenon DEF CloseLastDialog
<1>17. CASE UNCHANGED vars
  BY <1>17, Zenon DEF vars
<1>18. QED
  BY <1>1, <1>2, <1>3, <1>4, <1>5, <1>6, <1>7, <1>8, <1>9, <1>10, <1>11, <1>12,
     <1>13, <1>14, <1>15, <1>16, <1>17 DEF Next

\* Every action leaves the other variables in their sets.
LEMMA ValuesStep ==
    ASSUME Values, [Next]_vars
    PROVE  Values'
<1> USE DEF Values, GiveUp, Quit, uiVars, netVars
<1>1. CASE ReadArgs
  BY <1>1, ErrorsAreFailures, SMT DEF ReadArgs
<1>2. CASE AllocateBuffer
  BY <1>2, SMT DEF AllocateBuffer
<1>3. CASE BufferFails
  BY <1>3, ErrorsAreFailures, SMT DEF BufferFails
<1>4. CASE SetupUi
  BY <1>4, SMT DEF SetupUi
<1>5. CASE UiFails
  BY <1>5, ErrorsAreFailures, SMT DEF UiFails
<1>6. CASE ControlsFail
  BY <1>6, SMT DEF ControlsFail
<1>7. CASE SetupNetwork
  BY <1>7, SMT DEF SetupNetwork
<1>8. CASE NetworkFails
  BY <1>8, SMT DEF NetworkFails
<1>9. CASE CloseNetworkDialog
  BY <1>9, ErrorsAreFailures, SMT DEF CloseNetworkDialog
<1>10. CASE IterConnects
  BY <1>10, SMT DEF IterConnects
<1>11. CASE IterDisconnects
  BY <1>11, SMT DEF IterDisconnects
<1>12. CASE IterFails
  <2>1. CASE platform = "unix"
    BY <1>12, <2>1, ErrorsAreFailures, SMT DEF IterFails
  <2>2. CASE platform # "unix"
    BY <1>12, <2>2, ErrorsAreFailures, SMT DEF IterFails
  <2>3. QED
    BY <2>1, <2>2
<1>13. CASE UserQuits
  BY <1>13, SMT DEF UserQuits
<1>14. CASE LeaveLoop
  BY <1>14, SMT DEF LeaveLoop
<1>15. CASE Cleanup
  BY <1>15, SMT DEF Cleanup
<1>16. CASE CloseLastDialog
  BY <1>16, SMT DEF CloseLastDialog
<1>17. CASE UNCHANGED vars
  BY <1>17, SMT DEF vars
<1>18. QED
  BY <1>1, <1>2, <1>3, <1>4, <1>5, <1>6, <1>7, <1>8, <1>9, <1>10, <1>11, <1>12,
     <1>13, <1>14, <1>15, <1>16, <1>17 DEF Next

\* Every step keeps the types.
LEMMA StartupTypeStep ==
    ASSUME TypeOK, [Next]_vars
    PROVE  TypeOK'
BY Halves, FlagsStep, ValuesStep

\* An iteration that can reach the server is one of osio_loop: the network is
\* not up in the dialog of netio_setup, and in WinMain's dialog WM_QUIT is
\* pending.
LEMMA IterationInLoop ==
    ASSUME StartupInv, Iterating, wsa \/ connected
    PROVE  pc = "loop"
<1>1. /\ connected => pc \in {"loop", "cleanup"}
      /\ platform = "windows" /\ wsa => pc # "network_dialog"
      /\ platform = "windows" /\ wsa /\ pc = "last_dialog" => quit
  BY SMT DEF StartupInv, ConnectedByPhase, WinsockByPhase, QuitByPhase
<1>2. QED
  BY <1>1, SMT DEF Iterating

\* Every action leaves buffer, connection and Winsock as its phase has them.
LEMMA PhaseStep ==
    ASSUME StartupInv, [Next]_vars
    PROVE  (BufferByPhase /\ ConnectedByPhase /\ WinsockByPhase)'
<1> USE DEF StartupInv, BufferByPhase, ConnectedByPhase, WinsockByPhase,
           TypeOK, GiveUp, Quit, uiVars, netVars
<1>1. CASE ReadArgs
  BY <1>1, SMT DEF ReadArgs
<1>2. CASE AllocateBuffer
  BY <1>2, SMT DEF AllocateBuffer
<1>3. CASE BufferFails
  BY <1>3, SMT DEF BufferFails
<1>4. CASE SetupUi
  BY <1>4, SMT DEF SetupUi
<1>5. CASE UiFails
  BY <1>5, SMT DEF UiFails
<1>6. CASE ControlsFail
  BY <1>6, SMT DEF ControlsFail
<1>7. CASE SetupNetwork
  BY <1>7, SMT DEF SetupNetwork
<1>8. CASE NetworkFails
  BY <1>8, SMT DEF NetworkFails
<1>9. CASE CloseNetworkDialog
  BY <1>9, SMT DEF CloseNetworkDialog
<1>10. CASE IterConnects
  BY <1>10, IterationInLoop, SMT DEF IterConnects
<1>11. CASE IterDisconnects
  BY <1>11, SMT DEF IterDisconnects
<1>12. CASE IterFails
  <2>1. CASE platform = "unix"
    BY <1>12, <2>1, IterationInLoop, SMT DEF IterFails
  <2>2. CASE platform # "unix"
    BY <1>12, <2>2, IterationInLoop, SMT DEF IterFails
  <2>3. QED
    BY <2>1, <2>2
<1>13. CASE UserQuits
  BY <1>13, SMT DEF UserQuits
<1>14. CASE LeaveLoop
  BY <1>14, SMT DEF LeaveLoop
<1>15. CASE Cleanup
  BY <1>15, SMT DEF Cleanup
<1>16. CASE CloseLastDialog
  BY <1>16, SMT DEF CloseLastDialog
<1>17. CASE UNCHANGED vars
  BY <1>17, SMT DEF vars
<1>18. QED
  BY <1>1, <1>2, <1>3, <1>4, <1>5, <1>6, <1>7, <1>8, <1>9, <1>10, <1>11, <1>12,
     <1>13, <1>14, <1>15, <1>16, <1>17 DEF Next

\* osio_loop returns 0 or 1.
LEMMA LoopResult ==
    ASSUME LeaveLoop
    PROVE  retval' = 1 \/ retval' = 0
BY SMT DEF LeaveLoop

\* Every action leaves the wish to quit, what is cleaned up and the result as
\* they have to be.
LEMMA OutcomeStep ==
    ASSUME StartupInv, [Next]_vars
    PROVE  (QuitByPhase /\ CleanedUp /\ FailureInResult)'
<1> USE DEF StartupInv, QuitByPhase, CleanedUp, FailureInResult, BufferByPhase,
           ConnectedByPhase, WinsockByPhase, TypeOK, GiveUp, Quit, uiVars,
           netVars
<1>1. CASE ReadArgs
  BY <1>1, ErrorsAreFailures, SMT DEF ReadArgs
<1>2. CASE AllocateBuffer
  BY <1>2, SMT DEF AllocateBuffer
<1>3. CASE BufferFails
  BY <1>3, ErrorsAreFailures, SMT DEF BufferFails
<1>4. CASE SetupUi
  BY <1>4, SMT DEF SetupUi
<1>5. CASE UiFails
  BY <1>5, ErrorsAreFailures, SMT DEF UiFails
<1>6. CASE ControlsFail
  BY <1>6, SMT DEF ControlsFail
<1>7. CASE SetupNetwork
  BY <1>7, SMT DEF SetupNetwork
<1>8. CASE NetworkFails
  BY <1>8, SMT DEF NetworkFails
<1>9. CASE CloseNetworkDialog
  BY <1>9, ErrorsAreFailures, SMT DEF CloseNetworkDialog
<1>10. CASE IterConnects
  BY <1>10, IterationInLoop, SMT DEF IterConnects
<1>11. CASE IterDisconnects
  BY <1>11, SMT DEF IterDisconnects
<1>12. CASE IterFails
  <2>1. CASE platform = "unix"
    BY <1>12, <2>1, IterationInLoop, ErrorsAreFailures, SMT DEF IterFails
  <2>2. CASE platform # "unix"
    BY <1>12, <2>2, IterationInLoop, ErrorsAreFailures, SMT DEF IterFails
  <2>3. QED
    BY <2>1, <2>2
<1>13. CASE UserQuits
  BY <1>13, SMT DEF UserQuits
<1>14. CASE LeaveLoop
  <2>1. retval' = 1 \/ retval' = 0
    BY <1>14, LoopResult
  <2>2. CASE retval' = 1
    <3>1. quit' = quit
      BY <1>14, <2>2, SMT DEF LeaveLoop
    <3>2. QED
      BY <1>14, <2>2, <3>1, SMT DEF LeaveLoop
  <2>3. CASE retval' = 0
    <3>1. ~controls
      BY <1>14, <2>3, SMT DEF LeaveLoop
    <3>2. QED
      BY <1>14, <2>3, <3>1, SMT DEF LeaveLoop
  <2>4. QED
    BY <2>1, <2>2, <2>3, SMT
<1>15. CASE Cleanup
  BY <1>15, SMT DEF Cleanup
<1>16. CASE CloseLastDialog
  BY <1>16, SMT DEF CloseLastDialog
<1>17. CASE UNCHANGED vars
  BY <1>17, SMT DEF vars
<1>18. QED
  BY <1>1, <1>2, <1>3, <1>4, <1>5, <1>6, <1>7, <1>8, <1>9, <1>10, <1>11, <1>12,
     <1>13, <1>14, <1>15, <1>16, <1>17 DEF Next
-----------------------------------------------------------------------------
\* The invariant holds in every state.
THEOREM StartupInvariant == Spec => []StartupInv
<1>1. ASSUME StartupInv, [Next]_vars PROVE StartupInv'
  <2>1. TypeOK'
    BY <1>1, StartupTypeStep DEF StartupInv
  <2>2. QED
    BY <1>1, <2>1, PhaseStep, OutcomeStep DEF StartupInv
<1>2. QED
  BY <1>1, StartupInit, PTL DEF Spec

\* Every variable stays in its type.
THEOREM StartupTypeCorrect == Spec => []TypeOK
<1>1. StartupInv => TypeOK
  BY DEF StartupInv
<1>2. QED
  BY <1>1, StartupInvariant, PTL

\* No iteration, however it comes to be called, has a connection without a
\* buffer to receive into (main.c:150-181).
THEOREM BufferIsAlwaysLive == Spec => []BufferIsLive
<1>1. StartupInv => BufferIsLive
  BY SMT DEF StartupInv, ConnectedByPhase, BufferIsLive
<1>2. QED
  BY <1>1, StartupInvariant, PTL

\* Wherever setting up has failed, the buffer, the connection and the icon are
\* gone when the program ends (main.c:168-186); Winsock and the timer, which
\* the code does not release in every case, are not part of the statement.
THEOREM AlwaysReleased == Spec => []Released
<1>1. StartupInv => Released
  BY SMT DEF StartupInv, CleanedUp, Released
<1>2. QED
  BY <1>1, StartupInvariant, PTL

\* A failure shows in the exit status, but for a window without its controls
\* (osio_win.c:471-498, main.c:139-186).
THEOREM StatusAlwaysTellsFailure == Spec => []StatusTellsFailure
<1>1. StartupInv => StatusTellsFailure
  BY SMT DEF StartupInv, FailureInResult, StatusTellsFailure
<1>2. QED
  BY <1>1, StartupInvariant, PTL
=============================================================================
