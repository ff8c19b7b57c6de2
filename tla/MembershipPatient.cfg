\* Two patient clients that move, ask to escape and disconnect, two maps.
CONSTANTS
    a = a
    b = b
    c3 = c3
    Chars <- TwoChars
    MapCount = 2
    MaxChan = 3
    MaxMoves = 2
    Cap = 1
    IdleLimit = 3
    Patient = TRUE
    Leaving = TRUE
    Escaping = TRUE
    Aging = FALSE
SPECIFICATION Spec
VIEW NotKnown
SYMMETRY Symmetry
INVARIANTS
    OnlyResidents
PROPERTIES
    EscapeInOwnChannel
    ImplementsAbs
