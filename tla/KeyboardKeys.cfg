SPECIFICATION Spec
CONSTANTS
    Keys <- AllKeys
    ChordKeys <- SomeKeys
    DeafKeys <- FewKeys
    MAX_HELD = 3
INVARIANTS InStep OnlyTwoCodesAreFatal TableShowsHeld TypedIsPressed
PROPERTIES OverrunDeafens
