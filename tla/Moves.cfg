\* Two characters in a town and a dungeon with one monster, packets of two.
CONSTANTS
    town = town
    den = den
    Characters = {c1, c2}
    Monsters = {m1}
    Order <- TownFirst
    Den = den
    None = None
    Slice = 2
    FlushTime = 1
    MaxAsked = 1
    MaxMoves = 1
SPECIFICATION FairSpec
CHECK_DEADLOCK FALSE
INVARIANTS
    PositionsSettle
    WalksAsAsked
PROPERTIES
    PositionsArrive
