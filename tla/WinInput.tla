------------------------------ MODULE WinInput ------------------------------
(***************************************************************************)
(* The keys and mouse buttons of the server, as the Windows client presses *)
(* and releases them: DKDN, DKUP, DKRP, DMDN and DMUP, the translation of  *)
(* key IDs to virtual keys, and connections that end while something is    *)
(* held down.                                                              *)
(*                                                                         *)
(* The server names a key by the character it stands for, and that depends *)
(* on Shift and Num Lock at the moment: a key that was pressed as one ID   *)
(* may be released as another.                                             *)
(***************************************************************************)
EXTENDS Integers, FiniteSets

CONSTANTS
    Key,        \* the keys of the server's keyboard
    KeyIds,     \* KeyIds[k]: the IDs key k is sent with
    Button,     \* the buttons of the server's mouse
    ButtonId,   \* ButtonId[b]: the number button b is sent with
    Twins,      \* sets of keys or buttons that can be one to the client, as
                \* both Shift keys, or middle and right button
    Split,      \* keys that are more than one to the client, as Tab, which
                \* is Space under Shift
    MaxPressed, \* bound: keys and buttons pressed at a time
    MaxHeld,    \* bound: virtual keys and buttons that are down
    MaxLost     \* bound: those that are down when a connection ends

ASSUME InputConstantsOK ==
    /\ KeyIds \in [Key -> SUBSET (0 .. 65535)]
    /\ \A k \in Key : KeyIds[k] # {}
    /\ ButtonId \in [Button -> 0 .. 255]
    /\ Twins \subseteq SUBSET (Key \cup Button)
    /\ Key \cap Button = {}
    /\ Split \subseteq Key
    /\ MaxPressed \in Nat
    /\ MaxHeld \in Nat
    /\ MaxLost \in Nat

VARIABLES
    connected,  \* packets of the server reach the client
    pressed,    \* keys and buttons that are down at the server
    here,       \* which of them were pressed on this connection, and as what
    held,       \* virtual keys and buttons that are down at the client
    lost,       \* those that were when a connection ended, and still are
    torn        \* keys let go as another virtual key than they were pressed
                \* as, with the one that is still down

vars == <<connected, pressed, here, held, lost, torn>>

-----------------------------------------------------------------------------
(* osio_win_key.                                                           *)

\* Mutant: the function keys begin one virtual key too low.
RunsFromF0 ==
    { <<\h61, \h7a, \h41>>, <<\h30, \h39, \h30>>, <<\hefb0, \hefb9, \h60>>,
      <<\hefbe, \hefc9, \h6f>> }

\* The IDs of the keys that are alike on every keyboard, first to last, and
\* the virtual key of the first.
Runs ==
    { <<\h61, \h7a, \h41>>,        \* a to z: the virtual key is A to Z
      <<\h30, \h39, \h30>>,        \* 0 to 9
      <<\hefb0, \hefb9, \h60>>,    \* VK_NUMPAD0 to VK_NUMPAD9
      <<\hefbe, \hefc9, \h70>> }   \* VK_F1 to VK_F12

\* The IDs that stand for a virtual key of a US keyboard.
Singles ==
    { <<{\h60, \h7e}, \hc0>>, <<{\h21}, \h31>>, <<{\h40}, \h32>>,
      <<{\h23}, \h33>>, <<{\h24}, \h34>>, <<{\h25}, \h35>>, <<{\h5e}, \h36>>,
      <<{\h26}, \h37>>, <<{\h2a}, \h38>>, <<{\h28}, \h39>>, <<{\h29}, \h30>>,
      <<{\h2d, \h5f}, \hbd>>, <<{\h2b, \h3d}, \hbb>>, <<{\h2c, \h3c}, \hbc>>,
      <<{\h2e, \h3e}, \hbe>>, <<{\h2f, \h3f}, \hbf>>, <<{\h3a, \h3b}, \hba>>,
      <<{\h22, \h27}, \hde>>, <<{\h5b, \h7b}, \hdb>>, <<{\h5d, \h7d}, \hdd>>,
      <<{\h5c, \h7c}, \hdc>>,
      <<{\hef08}, \h08>>, <<{\hef09}, \h09>>, <<{\hef0d}, \h0d>>,
      <<{\hefe1, \hefe2}, \h10>>, <<{\hefe3, \hefe4}, \h11>>,
      <<{\hefe9}, \h12>>, <<{\hef13}, \h13>>, <<{\hef1b}, \h1b>>,
      <<{\h20}, \h20>>, <<{\hef55}, \h21>>, <<{\hef56}, \h22>>,
      <<{\hef57}, \h23>>, <<{\hef50}, \h24>>, <<{\hef51}, \h25>>,
      <<{\hef52}, \h26>>, <<{\hef53}, \h27>>, <<{\hef54}, \h28>>,
      <<{\hef61}, \h2c>>, <<{\hef63}, \h2d>>, <<{\hefff}, \h2e>>,
      <<{\hefaa}, \h6a>>, <<{\hefab}, \h6b>>, <<{\hefad}, \h6d>>,
      <<{\hefae}, \h6e>>, <<{\hefaf}, \h6f>>, <<{\hef7f}, \h90>> }

RunIds == UNION {r[1] .. r[2] : r \in Runs}
SingleIds == UNION {s[1] : s \in Singles}

\* Mutant: the shifted characters of the digit row are forgotten.
TranslatedPlain ==
    [id \in RunIds \cup SingleIds |->
        IF id \in RunIds
          THEN LET r == CHOOSE r \in Runs : id \in r[1] .. r[2]
               IN  r[3] + (id - r[1])
        ELSE IF id \in \h21 .. \h2a THEN id
        ELSE (CHOOSE s \in Singles : id \in s[1])[2]]

Translated ==
    [id \in RunIds \cup SingleIds |->
        IF id \in RunIds
          THEN LET r == CHOOSE r \in Runs : id \in r[1] .. r[2]
               IN  r[3] + (id - r[1])
          ELSE (CHOOSE s \in Singles : id \in s[1])[2]]

\* What is not translated is passed on; keybd_event takes a BYTE.
VirtualKey(id) == (IF id \in DOMAIN Translated THEN Translated[id] ELSE id) % 256

\* osio_mouse_down, osio_mouse_up: OSIO_MOUSE_LEFT is 1.
MouseButton(n) == IF n = 1 THEN "left" ELSE "right"

-----------------------------------------------------------------------------
Inputs == Key \cup Button

\* What the client may press or release for k.
Effects(k) ==
    IF k \in Button THEN {<<"mouse", MouseButton(ButtonId[k])>>}
                    ELSE {<<"key", VirtualKey(id)>> : id \in KeyIds[k]}

AllEffects == UNION {Effects(k) : k \in Inputs}

\* A key or button together with what it is pressed as.
Marks == {m \in Inputs \X AllEffects : m[2] \in Effects(m[1])}

TypeOK ==
    /\ connected \in BOOLEAN
    /\ pressed \subseteq Inputs
    /\ here \subseteq Marks /\ \A m \in here : m[1] \in pressed
    /\ held \subseteq AllEffects
    /\ lost \subseteq held
    /\ torn \subseteq Marks /\ \A m \in torn : m[2] \in held

Init ==
    /\ connected = FALSE
    /\ pressed = {}
    /\ here = {}
    /\ held = {}
    /\ lost = {}
    /\ torn = {}

\* DKDN, DMDN.
Press(k) ==
    /\ k \notin pressed
    /\ Cardinality(pressed) < MaxPressed
    /\ pressed' = pressed \cup {k}
    /\ IF connected
         THEN \E e \in Effects(k) :
                /\ here' = here \cup {<<k, e>>}
                /\ held' = held \cup {e}
                /\ Cardinality(held') <= MaxHeld
                /\ lost' = lost \ {e}
         ELSE UNCHANGED <<here, held, lost>>
    /\ UNCHANGED <<connected, torn>>

\* Mutant: what a lost connection left behind is still counted as such.
ReleaseKeepsLost(k) ==
    /\ k \in pressed
    /\ pressed' = pressed \ {k}
    /\ here' = {m \in here : m[1] # k}
    /\ held' \in IF connected THEN {held \ {e} : e \in Effects(k)} ELSE {held}
    /\ torn' = {m \in torn \cup (here \ here') : m[2] \in held'}
    /\ UNCHANGED <<connected, lost>>

\* DKUP, DMUP: also of what was pressed while there was no connection.
Release(k) ==
    /\ k \in pressed
    /\ pressed' = pressed \ {k}
    /\ here' = {m \in here : m[1] # k}
    /\ IF connected
         THEN \E e \in Effects(k) :
                /\ held' = held \ {e}
                /\ lost' = lost \ {e}
         ELSE UNCHANGED <<held, lost>>
    /\ torn' = {m \in torn \cup (here \ here') : m[2] \in held'}
    /\ UNCHANGED connected

Connect ==
    /\ ~connected
    /\ connected' = TRUE
    /\ UNCHANGED <<pressed, here, held, lost, torn>>

\* netio_disconnect releases nothing.
Disconnect ==
    /\ connected
    /\ Cardinality(held) <= MaxLost
    /\ connected' = FALSE
    /\ here' = {}
    /\ lost' = held
    /\ torn' = {}
    /\ UNCHANGED <<pressed, held>>

\* DKRP changes nothing: osio_key_rpt is empty.
Next ==
    \/ \E k \in Inputs : Press(k)
    \/ \E k \in pressed : Release(k)
    \/ Connect
    \/ Disconnect

Spec == Init /\ [][Next]_vars

-----------------------------------------------------------------------------
(* Properties.                                                             *)

\* What is down at the client was pressed on this connection and is down at
\* the server.  Two things can be left over: what a lost connection did not
\* release (netio.c:222-239), and a key in Split, which was let go as another
\* virtual key than it was pressed as.  No other key is stuck because it was
\* released under another ID (osio_win.c:599-757), no button because it was
\* let go as another (osio_win.c:560-579).
NothingStuck ==
    \A x \in held \ lost :
        \/ \E m \in here : m[2] = x
        \/ \E m \in torn : m[2] = x /\ m[1] \in Split

\* A key that is held down at the server stays down at the client until it is
\* released, whatever other keys do: only its twin can release it, so no two
\* other keys share a virtual key, whether the table has them or the BYTE of
\* keybd_event makes it (osio_win.c:599-757).
StaysDown ==
    [][\A m \in here \cap here' :
        \/ m[2] \in held => m[2] \in held'
        \/ \E t \in Twins : m[1] \in t /\ t \cap (pressed \ pressed') # {}]_vars
=============================================================================
