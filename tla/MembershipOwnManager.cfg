\* Character.h:88 against a move to a channel visited earlier in the frame.
CONSTANTS
    a = a
    b = b
    c3 = c3
    Chars <- TwoChars
    MapCount = 2
    MaxChan = 3
    MaxMoves = 2
    Cap = 1
    IdleLimit = 3
    Patient = TRUE
    Leaving = FALSE
    Escaping = FALSE
    Aging = FALSE
SPECIFICATION Spec
VIEW NotKnown
SYMMETRY Symmetry
INVARIANTS
    OwnManager
