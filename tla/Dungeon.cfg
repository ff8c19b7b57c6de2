\* Two characters and a monster; two changes of channel, so that one may come back.
CONSTANTS
    town = town
    den = den
    Characters = {c1, c2}
    Monsters = {m1}
    Order <- TownFirst
    Den = den
    None = None
    MaxHp = 2
    Blows = {1, 2}
    Exp = 2
    Saved <- SavedNear
    Table <- ShortTable
    Garbage = {0}
    IdleTime = 0
    RespawnTime = 0
    CoolTime = 0
    Zones = {"away"}
    MaxPoints = 0
    MaxHits = 2
    MaxTargets = 2
    MaxMoves = 2
SPECIFICATION Spec
INVARIANTS
    ExpAccounts
    HealthSettles
    LevelsSettle
PROPERTIES
    ImplementsAbs
SYMMETRY Symmetry
