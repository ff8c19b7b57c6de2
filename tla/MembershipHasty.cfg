\* Two clients that move without waiting and disconnect; channels age; fair threads.
CONSTANTS
    a = a
    b = b
    c3 = c3
    Chars <- TwoChars
    MapCount = 1
    MaxChan = 1
    MaxMoves = 2
    Cap = 1
    IdleLimit = 3
    Patient = FALSE
    Leaving = TRUE
    Escaping = FALSE
    Aging = TRUE
SPECIFICATION FairSpec
INVARIANTS
    OneChannelViews
    DestroyedIsDeserted
    NoLostAdmission
    NumberHolds
PROPERTIES
    AdmissionSettles
