\* The keys of a US keyboard and the buttons of a mouse, two at a time.
SPECIFICATION Spec
CONSTANTS
    Key <- MCKey
    KeyIds <- MCKeyIds
    Button <- MCButton
    ButtonId <- MCButtonId
    Twins <- MCTwins
    Split <- MCSplit
    MaxPressed = 2
    MaxHeld = 2
    MaxLost = 1
INVARIANTS
    TypeOK
    NothingStuck
PROPERTY
    StaysDown
