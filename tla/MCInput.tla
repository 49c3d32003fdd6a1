------------------------------- MODULE MCInput -------------------------------
(***************************************************************************)
(* A US keyboard and a mouse.  A key is named by the ID it has by itself.  *)
(* IDs are those of Synergy's protocol, and osio_win.c translates some.    *)
(***************************************************************************)
EXTENDS WinInput

\* Without and with Shift.
Shifts ==
    { <<\h60, \h7e>>, <<\h31, \h21>>, <<\h32, \h40>>, <<\h33, \h23>>,
      <<\h34, \h24>>, <<\h35, \h25>>, <<\h36, \h5e>>, <<\h37, \h26>>,
      <<\h38, \h2a>>, <<\h39, \h28>>, <<\h30, \h29>>, <<\h2d, \h5f>>,
      <<\h3d, \h2b>>, <<\h5b, \h7b>>, <<\h5d, \h7d>>, <<\h5c, \h7c>>,
      <<\h3b, \h3a>>, <<\h27, \h22>>, <<\h2c, \h3c>>, <<\h2e, \h3e>>,
      <<\h2f, \h3f>> }
        \cup {<<c, c - 32>> : c \in {\h61, \h7a}}

Tab == \hef09
Space == \h20
Pause == \hef13
PrintScreen == \hef61
Menu == \hef67
KP_7 == \hefb7
KP_Add == \hefab

\* Keys that are another with Shift (Tab), Control (Pause is Break), Alt
\* (Print Screen is SysReq) or without Num Lock (0, 7, 9 and the point of the
\* keypad), and that the table does not know as such.
Others ==
    { <<Tab, \hee20>>, <<Pause, \hef6b>>, <<PrintScreen, \hef15>>,
      <<\hefb0, \hef9e>>, <<KP_7, \hef95>>, <<\hefb9, \hef9a>>,
      <<\hefae, \hef9f>> }

\* Control and the like, Backspace, Return and Escape, a Windows key,
\* cursor and function keys, locks, and the rest of the keypad.
OneId ==
    {Space, Menu, KP_Add, \hef08, \hef0d, \hef14, \hef1b, \hef50, \hef51,
     \hef52, \hef53, \hef54, \hef55, \hef56, \hef57, \hef63, \hef7f, \hef8d,
     \hefaa, \hefad, \hefaf, \hefbe, \hefc9, \hefe1, \hefe2, \hefe3, \hefe4,
     \hefe5, \hefe9, \hefea, \hefeb, \hefff}

MCKey == {s[1] : s \in Shifts \cup Others} \cup OneId

MCKeyIds ==
    [k \in MCKey |->
        {k} \cup {s[2] : s \in {s \in Shifts \cup Others : s[1] = k}}]

\* Left, middle, right: not numbers that are IDs of keys.
MCButton == {-1, -2, -3}
MCButtonId == [b \in MCButton |-> -b]

\* What is not in the table is cut to a BYTE, which for the second ID of each
\* of these keys is a virtual key other than that of the first.
MCSplit == {s[1] : s \in Others}

\* The table has the Shift and the Control keys as one, and the client knows
\* two buttons.  The others meet by accident: Shift and Tab is Space, Menu is
\* VK_NUMPAD7, Break is VK_ADD.
MCTwins ==
    {{\hefe1, \hefe2}, {\hefe3, \hefe4}, {-2, -3},
     {Tab, Space}, {Menu, KP_7}, {Pause, KP_Add}}
=============================================================================
