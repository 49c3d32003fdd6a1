----------------------------- MODULE InputProofs -----------------------------
(***************************************************************************)
(* Proofs about WinInput: what is down at the client, and what is left     *)
(* over, for every keyboard, every way its keys may share virtual keys or  *)
(* be several, and any number of keys down.                                *)
(***************************************************************************)
EXTENDS WinInput, TLAPS

\* A key that is more than one to the client.
Splits(k) == \E e, f \in Effects(k) : e # f

\* What is down and not left behind by a connection was pressed as that, or
\* was let go as something else by a key that is more than one.
Explained ==
    \A x \in held \ lost :
        \/ \E m \in here : m[2] = x
        \/ \E m \in torn : m[2] = x /\ Splits(m[1])

\* Without a connection nothing counts as pressed on it.
HereByConnection == ~connected => here = {}

InputInv ==
    /\ TypeOK
    /\ HereByConnection
    /\ Explained

\* A key or button and what it may be pressed as.
LEMMA MarkType ==
    ASSUME NEW k \in Inputs, NEW e \in Effects(k)
    PROVE  /\ e \in AllEffects
           /\ <<k, e>> \in Marks
           /\ <<k, e>>[1] = k /\ <<k, e>>[2] = e
<1>1. e \in AllEffects
  BY DEF AllEffects
<1>2. <<k, e>> \in Inputs \X AllEffects
  BY <1>1
<1>3. QED
  BY <1>1, <1>2 DEF Marks

\* The invariant holds before the first message: nothing is held down.
LEMMA InputInit == Init => InputInv
<1> SUFFICES ASSUME Init PROVE InputInv
  OBVIOUS
<1>1. connected \in BOOLEAN
  BY Zenon DEF Init
<1>2. QED
  BY <1>1 DEF Init, InputInv, TypeOK, HereByConnection, Explained

\* A key or button goes down.
LEMMA PressStep ==
    ASSUME InputInv, NEW k \in Inputs, Press(k)
    PROVE  InputInv'
<1> USE DEF InputInv
<1>1. /\ pressed' = pressed \cup {k}
      /\ torn' = torn
  BY DEF Press
<1>2. connected' = connected /\ connected' \in BOOLEAN
  BY Zenon DEF Press, TypeOK
<1>3. CASE connected
  <2>1. PICK e \in Effects(k) :
          /\ here' = here \cup {<<k, e>>}
          /\ held' = held \cup {e}
          /\ lost' = lost \ {e}
    BY <1>3 DEF Press
  <2>2. e \in AllEffects /\ <<k, e>> \in Marks
    BY MarkType
  <2>3. here' \subseteq Marks /\ \A m \in here' : m[1] \in pressed'
    BY <1>1, <2>1, <2>2, MarkType DEF TypeOK
  <2>4. TypeOK'
    BY <1>1, <1>2, <2>1, <2>2, <2>3 DEF TypeOK
  <2>5. Explained'
    <3> SUFFICES ASSUME NEW x \in held', x \notin lost'
                 PROVE  \/ \E m \in here' : m[2] = x
                        \/ \E m \in torn' : m[2] = x /\ Splits(m[1])
      BY DEF Explained, Splits, Effects
    <3>1. CASE x = e
      BY <2>1, <3>1, MarkType
    <3>2. CASE x # e
      BY <1>1, <2>1, <3>2 DEF Explained
    <3>3. QED
      BY <3>1, <3>2
  <2>6. HereByConnection'
    BY <1>2, <1>3 DEF HereByConnection
  <2>7. QED
    BY <2>4, <2>5, <2>6
<1>4. CASE ~connected
  <2>1. UNCHANGED <<here, held, lost>>
    BY <1>4 DEF Press
  <2>2. TypeOK'
    BY <1>1, <1>2, <2>1 DEF TypeOK
  <2>3. Explained' /\ HereByConnection'
    BY <1>1, <1>2, <2>1 DEF Explained, HereByConnection, Splits, Effects
  <2>4. QED
    BY <2>2, <2>3
<1>5. QED
  BY <1>3, <1>4

\* A key or button comes up.  If it leaves what it was pressed as, that is
\* because it is more than one to the client.
LEMMA ReleaseStep ==
    ASSUME InputInv, NEW k \in Inputs, Release(k)
    PROVE  InputInv'
<1> USE DEF InputInv
<1>1. /\ pressed' = pressed \ {k}
      /\ here' = {m \in here : m[1] # k}
      /\ torn' = {m \in torn \cup (here \ here') : m[2] \in held'}
  BY DEF Release
<1>2. connected' = connected /\ connected' \in BOOLEAN
  BY Zenon DEF Release, TypeOK
<1>3. held' \subseteq held /\ lost' \subseteq held' /\ held' \ lost' \subseteq held \ lost
  <2>1. CASE connected
    BY <2>1 DEF Release, TypeOK
  <2>2. CASE ~connected
    BY <2>2 DEF Release, TypeOK
  <2>3. QED
    BY <2>1, <2>2
<1>4. TypeOK'
  BY <1>1, <1>2, <1>3 DEF TypeOK
<1>5. HereByConnection'
  BY <1>1, <1>2 DEF HereByConnection
<1>6. Explained'
  <2> SUFFICES ASSUME NEW x \in held', x \notin lost'
               PROVE  \/ \E m \in here' : m[2] = x
                      \/ \E m \in torn' : m[2] = x /\ Splits(m[1])
    BY DEF Explained, Splits, Effects
  <2>1. x \in held /\ x \notin lost
    BY <1>3
  <2>2. CASE \E m \in torn : m[2] = x /\ Splits(m[1])
    BY <1>1, <2>2
  <2>3. ASSUME NEW m \in here, m[2] = x, m[1] = k
        PROVE  m \in torn' /\ Splits(m[1])
    <3>1. m \in torn'
      BY <1>1, <2>3
    <3>2. x \in Effects(k)
      BY <2>3 DEF TypeOK, Marks
    <3>3. connected
      BY <2>3 DEF HereByConnection
    <3>4. PICK e \in Effects(k) : held' = held \ {e}
      BY <3>3 DEF Release
    <3>5. x # e
      BY <3>4
    <3>6. QED
      BY <2>3, <3>1, <3>2, <3>4, <3>5 DEF Splits
  <2>4. CASE \E m \in here : m[2] = x
    BY <1>1, <2>3, <2>4
  <2>5. QED
    BY <2>1, <2>2, <2>4 DEF Explained
<1>7. QED
  BY <1>4, <1>5, <1>6

\* A connection begins or ends.
LEMMA ConnectionStep ==
    ASSUME InputInv, Connect \/ Disconnect
    PROVE  InputInv'
<1> USE DEF InputInv
<1>1. connected' \in BOOLEAN
  BY Zenon DEF Connect, Disconnect
<1>2. CASE Connect
  <2>1. connected' /\ UNCHANGED <<pressed, here, held, lost, torn>>
    BY <1>2, Zenon DEF Connect
  <2>2. TypeOK'
    BY <1>1, <2>1 DEF TypeOK
  <2>3. Explained' /\ HereByConnection'
    BY <2>1 DEF Explained, HereByConnection, Splits, Effects
  <2>4. QED
    BY <2>2, <2>3
<1>3. CASE Disconnect
  <2>1. /\ here' = {} /\ lost' = held /\ torn' = {}
        /\ UNCHANGED <<pressed, held>>
    BY <1>3 DEF Disconnect
  <2>2. TypeOK'
    BY <1>1, <2>1 DEF TypeOK
  <2>3. Explained' /\ HereByConnection'
    BY <2>1 DEF Explained, HereByConnection
  <2>4. QED
    BY <2>2, <2>3
<1>4. QED
  BY <1>2, <1>3

-----------------------------------------------------------------------------
\* The invariant holds in every state.
THEOREM InputInvariant == Spec => []InputInv
<1>1. ASSUME InputInv, UNCHANGED vars PROVE InputInv'
  <2>1. connected' \in BOOLEAN /\ connected' = connected
    BY <1>1, Zenon DEF vars, InputInv, TypeOK
  <2>2. UNCHANGED <<pressed, here, held, lost, torn>>
    BY <1>1 DEF vars
  <2>3. QED
    BY <1>1, <2>1, <2>2 DEF InputInv, TypeOK, HereByConnection, Explained,
       Splits, Effects
<1>2. ASSUME InputInv, NEW k \in pressed, Release(k) PROVE InputInv'
  <2>1. k \in Inputs
    BY <1>2 DEF InputInv, TypeOK
  <2>2. QED
    BY <1>2, <2>1, ReleaseStep
<1>3. ASSUME InputInv, [Next]_vars PROVE InputInv'
  BY <1>1, <1>2, <1>3, PressStep, ConnectionStep DEF Next
<1>4. QED
  BY <1>3, InputInit, PTL DEF Spec

\* What is down at the client is always what some key or button of the server
\* stands for, and what is lost is down, on every keyboard
\* (osio_win.c:560-579, 742-757).
THEOREM InputTypeCorrect == Spec => []TypeOK
<1>1. InputInv => TypeOK
  BY DEF InputInv
<1>2. QED
  BY <1>1, InputInvariant, PTL

\* A key or button can be stuck on a live connection in one way only: a key
\* that is more than one to the client was let go as another than it was
\* pressed as.  This is so on every keyboard, however keys share virtual keys
\* and however many of them are down (osio_win.c:560-579, 742-757).
THEOREM StuckOnlyIfTorn == Spec => []Explained
<1>1. InputInv => Explained
  BY DEF InputInv
<1>2. QED
  BY <1>1, InputInvariant, PTL

\* If Split names the keys that are more than one to the client, then nothing
\* else is stuck (osio_win.c:599-757).
THEOREM NeverStuck ==
    ASSUME \A k \in Inputs \ Split : ~Splits(k)
    PROVE  Spec => []NothingStuck
<1>1. InputInv => NothingStuck
  <2> SUFFICES ASSUME InputInv, NEW x \in held \ lost
               PROVE  \/ \E m \in here : m[2] = x
                      \/ \E m \in torn : m[2] = x /\ m[1] \in Split
    BY DEF NothingStuck
  <2>1. ASSUME NEW m \in torn, Splits(m[1]) PROVE m[1] \in Split
    <3>1. m[1] \in Inputs
      BY DEF InputInv, TypeOK, Marks
    <3>2. QED
      BY <2>1, <3>1
  <2>2. QED
    BY <2>1 DEF InputInv, Explained
<1>2. QED
  BY <1>1, InputInvariant, PTL
=============================================================================
