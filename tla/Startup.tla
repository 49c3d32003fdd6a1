------------------------------- MODULE Startup -------------------------------
(***************************************************************************)
(* minput_main from the arguments to the exit status, on Unix and on       *)
(* Windows: what is set up in which order, what can fail, and what is left *)
(* when the program ends.                                                  *)
(*                                                                         *)
(* On Windows the timer is set before the network is, and an error is a    *)
(* dialog that dispatches messages: minput_loop_iter may run during the    *)
(* dialogs of netio_setup and of WinMain, before osio_loop was called and  *)
(* after minput_main has cleaned up.  A dialog that finds WM_QUIT pending  *)
(* returns at once and leaves it pending.  GetMessage is taken never to    *)
(* fail: it is called with a valid MSG and no window.  Dialogs that open   *)
(* while the timer is not set change nothing and are left out.             *)
(***************************************************************************)
EXTENDS Integers

CONSTANTS
    Platform,       \* the builds: "unix", "windows"
    Argc,           \* how many arguments there can be
    AddressNumber,  \* what atoi() can make of a server address
    ERR_OS,         \* MINHOP_ERR_OS and so on
    ERR_ARGS,
    ERR_ALLOC,
    ERR_OVERFLOW

Errors == {ERR_OS, ERR_ARGS, ERR_ALLOC, ERR_OVERFLOW}

ASSUME StartupConstantsOK ==
    /\ Platform \subseteq {"unix", "windows"}
    /\ Argc \subseteq Nat
    /\ AddressNumber \subseteq Nat
    /\ Errors \subseteq Nat \ {0, 1}

VARIABLES
    platform,
    pc,           \* what minput_main, or WinMain after it, is about to do
    server_port,
    pkt_buf,      \* "none", "live" or "freed"
    timer,        \* ID_TIMER_LOOP is set
    icon,         \* the notification area shows the icon
    wsa,          \* sockets can be opened
    connected,    \* socket_fd is a connected socket
    quit,         \* WM_QUIT is pending
    g_running,
    controls,     \* the window has all its controls
    retval,       \* of minput_main
    failed        \* something went wrong that ends the program

vars == <<platform, pc, server_port, pkt_buf, timer, icon, wsa, connected,
          quit, g_running, controls, retval, failed>>

uiVars == <<timer, icon, quit, g_running, controls>>
netVars == <<wsa, connected>>

TypeOK ==
    /\ platform \in Platform
    /\ pc \in {"args", "buffer", "ui", "network", "network_dialog", "loop",
               "cleanup", "last_dialog", "done"}
    /\ server_port \in {0, 24800} \cup AddressNumber
    /\ pkt_buf \in {"none", "live", "freed"}
    /\ timer \in BOOLEAN /\ icon \in BOOLEAN
    /\ wsa \in BOOLEAN /\ connected \in BOOLEAN
    /\ quit \in BOOLEAN /\ g_running \in BOOLEAN
    /\ controls \in BOOLEAN /\ failed \in BOOLEAN
    /\ retval \in {0, 1} \cup Errors

Init ==
    /\ platform \in Platform
    /\ pc = "args"
    /\ server_port = 0
    /\ pkt_buf = "none"
    /\ timer = FALSE
    /\ icon = FALSE
    /\ wsa = (platform = "unix")
    /\ connected = FALSE
    /\ quit = FALSE
    /\ g_running = TRUE
    /\ controls = TRUE
    /\ retval = 0
    /\ failed = FALSE

-----------------------------------------------------------------------------
(* Setting up.                                                             *)

GiveUp(error) ==
    /\ pc' = "cleanup"
    /\ retval' = error
    /\ failed' = TRUE

\* osio_parse_args and the check of minput_main.  The port is read from the
\* argument that holds the address.
ReadArgs ==
    /\ pc = "args"
    /\ \E argc \in Argc, n \in AddressNumber :
        /\ server_port' = IF argc >= 4 THEN n ELSE 24800
        /\ IF argc >= 3 /\ server_port' # 0
             THEN pc' = "buffer" /\ UNCHANGED <<retval, failed>>
             ELSE GiveUp(ERR_ARGS)
    /\ UNCHANGED <<platform, pkt_buf, uiVars, netVars>>

AllocateBuffer ==
    /\ pc = "buffer"
    /\ pkt_buf' = "live"
    /\ pc' = "ui"
    /\ UNCHANGED <<platform, server_port, uiVars, netVars, retval, failed>>

BufferFails ==
    /\ pc = "buffer"
    /\ GiveUp(ERR_ALLOC)
    /\ UNCHANGED <<platform, server_port, pkt_buf, uiVars, netVars>>

SetupUi ==
    /\ pc = "ui"
    /\ timer' = (platform = "windows")
    /\ icon' = (platform = "windows")
    /\ pc' = "network"
    /\ UNCHANGED <<platform, server_port, pkt_buf, netVars, quit, g_running,
                   controls, retval, failed>>

\* No window class, no window or no timer.
UiFails ==
    /\ pc = "ui"
    /\ platform = "windows"
    /\ GiveUp(ERR_OS)
    /\ UNCHANGED <<platform, server_port, pkt_buf, uiVars, netVars>>

\* A field of the window could not be made: WM_CREATE calls osio_win_quit,
\* but osio_ui_setup does not hear of it, goes on and sets the timer.
ControlsFail ==
    /\ pc = "ui"
    /\ platform = "windows"
    /\ quit' = TRUE
    /\ g_running' = FALSE
    /\ controls' = FALSE
    /\ timer' = TRUE
    /\ icon' = TRUE
    /\ failed' = TRUE
    /\ pc' = "network"
    /\ UNCHANGED <<platform, server_port, pkt_buf, netVars, retval>>

SetupNetwork ==
    /\ pc = "network"
    /\ wsa' = TRUE
    /\ pc' = "loop"
    /\ UNCHANGED <<platform, server_port, pkt_buf, uiVars, connected, retval,
                   failed>>

\* Mutant: Winsock is up when netio_setup fails.
NetworkFailsLate ==
    /\ pc = "network"
    /\ platform = "windows"
    /\ wsa' = TRUE
    /\ pc' = "network_dialog"
    /\ UNCHANGED <<platform, server_port, pkt_buf, uiVars, connected, retval,
                   failed>>

\* WSAStartup fails.
NetworkFails ==
    /\ pc = "network"
    /\ platform = "windows"
    /\ pc' = "network_dialog"
    /\ UNCHANGED <<platform, server_port, pkt_buf, uiVars, netVars, retval,
                   failed>>

\* The error is some number of Winsock's own.
CloseNetworkDialog ==
    /\ pc = "network_dialog"
    /\ \E error \in Errors : GiveUp(error)
    /\ UNCHANGED <<platform, server_port, pkt_buf, uiVars, netVars>>

-----------------------------------------------------------------------------
(* Running.                                                                *)

\* minput_loop_iter is called: by osio_loop on Unix, by WM_TIMER on Windows.
Iterating ==
    \/ platform = "unix" /\ pc = "loop"
    \/ /\ platform = "windows"
       /\ pc \in {"loop", "network_dialog", "last_dialog"}
       /\ timer
       /\ ~quit

\* Without Winsock, socket() fails and the iteration is over.
IterConnects ==
    /\ Iterating
    /\ wsa
    /\ ~connected
    /\ connected' = TRUE
    /\ UNCHANGED <<platform, pc, server_port, pkt_buf, uiVars, wsa, retval,
                   failed>>

IterDisconnects ==
    /\ Iterating
    /\ connected
    /\ connected' = FALSE
    /\ UNCHANGED <<platform, pc, server_port, pkt_buf, uiVars, wsa, retval,
                   failed>>

\* osio_win_quit: it has no use for the error it is told.
Quit ==
    /\ timer' = FALSE
    /\ connected' = FALSE
    /\ quit' = TRUE
    /\ g_running' = FALSE

\* ERR_ALLOC, ERR_OVERFLOW.
IterFails ==
    /\ Iterating
    /\ connected
    /\ IF platform = "unix"
         THEN /\ GiveUp(ERR_ALLOC) \/ GiveUp(ERR_OVERFLOW)
              /\ UNCHANGED <<timer, connected, quit, g_running>>
         ELSE /\ Quit
              /\ failed' = TRUE
              /\ UNCHANGED <<pc, retval>>
    /\ UNCHANGED <<platform, server_port, pkt_buf, icon, controls, wsa>>

\* From the menu of the window, or of the icon.
UserQuits ==
    /\ platform = "windows"
    /\ pc \in {"loop", "network_dialog"}
    /\ ~quit
    /\ Quit
    /\ UNCHANGED <<platform, pc, server_port, pkt_buf, icon, controls, wsa,
                   retval, failed>>

\* Mutant: the result of an orderly end is -1.
LeaveLoopOrderly ==
    /\ platform = "windows"
    /\ pc = "loop"
    /\ ~g_running
    /\ retval' = -1
    /\ pc' = "cleanup"
    /\ UNCHANGED <<platform, server_port, pkt_buf, uiVars, netVars, failed>>

\* Mutant: what GetMessage returned last is not the result.
LeaveLoopWithoutResult ==
    /\ platform = "windows"
    /\ pc = "loop"
    /\ ~g_running
    /\ retval' = 0
    /\ pc' = "cleanup"
    /\ UNCHANGED <<platform, server_port, pkt_buf, uiVars, netVars, failed>>

\* The message after which g_running is found 0 was another than WM_QUIT, and
\* GetMessage has returned 1, unless osio_loop was entered with it.
LeaveLoop ==
    /\ platform = "windows"
    /\ pc = "loop"
    /\ ~g_running
    /\ \/ retval' = 1 /\ quit' = quit
       \/ ~controls /\ retval' = 0 /\ quit' = FALSE
    /\ pc' = "cleanup"
    /\ UNCHANGED <<platform, server_port, pkt_buf, timer, icon, g_running,
                   controls, netVars, failed>>

-----------------------------------------------------------------------------
(* The end.                                                                *)

\* Mutant: only what an orderly quit has left is released.
CleanupAfterQuit ==
    /\ pc = "cleanup"
    /\ pkt_buf' = IF pkt_buf = "live" THEN "freed" ELSE pkt_buf
    /\ icon' = FALSE
    /\ pc' = IF platform = "windows" /\ retval # 0 THEN "last_dialog" ELSE "done"
    /\ UNCHANGED <<platform, server_port, timer, netVars, quit, g_running,
                   controls, retval, failed>>

\* g_wsastart_success is never set: WSACleanup is not called.
Cleanup ==
    /\ pc = "cleanup"
    /\ connected' = FALSE
    /\ pkt_buf' = IF pkt_buf = "live" THEN "freed" ELSE pkt_buf
    /\ icon' = FALSE
    /\ pc' = IF platform = "windows" /\ retval # 0 THEN "last_dialog" ELSE "done"
    /\ UNCHANGED <<platform, server_port, timer, wsa, quit, g_running,
                   controls, retval, failed>>

\* "quitting: %d"
CloseLastDialog ==
    /\ pc = "last_dialog"
    /\ pc' = "done"
    /\ UNCHANGED <<platform, server_port, pkt_buf, uiVars, netVars, retval,
                   failed>>

Next ==
    \/ ReadArgs
    \/ AllocateBuffer
    \/ BufferFails
    \/ SetupUi
    \/ UiFails
    \/ ControlsFail
    \/ SetupNetwork
    \/ NetworkFails
    \/ CloseNetworkDialog
    \/ IterConnects
    \/ IterDisconnects
    \/ IterFails
    \/ UserQuits
    \/ LeaveLoop
    \/ Cleanup
    \/ CloseLastDialog

Spec == Init /\ [][Next]_vars

-----------------------------------------------------------------------------
(* Properties.                                                             *)

\* There is a connection only while there is a packet buffer to receive into:
\* an iteration that a dialog lets run before the network is set up, or after
\* the buffer was freed, gets no further than netio_connect
\* (osio_win.c:429-436, 901; main.c:150-181; netio.c:65-75).
BufferIsLive == connected => pkt_buf = "live"

\* The connection, the packet buffer and the icon are gone when the program
\* ends, wherever setting up has failed (main.c:168-186, osio_win.c:465-469).
\* Winsock is not among them, it stays started (netio.c:35, 241-246), nor is
\* the timer, which the code leaves to the system.
Released == pc = "done" => ~connected /\ pkt_buf # "live" /\ ~icon

\* A failure shows in the exit status, of minput_main as of WinMain: but for a
\* window without its controls, whose error osio_win_quit is told and drops
\* (osio_win.c:101-114, 175-181, 471-498).  The other way round does not hold:
\* on Windows a quit of the user ends with 1, too.
StatusTellsFailure ==
    pc = "done" /\ failed /\ controls => retval # 0
==============================================================================
