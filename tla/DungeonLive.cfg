\* One character, the dungeon only, paths of two points: monsters come back and stroll on.
CONSTANTS
    town = town
    den = den
    Characters = {c1}
    Monsters = {m1}
    Order <- DenOnly
    Den = den
    None = None
    MaxHp = 2
    Blows = {0, 1, 2}
    Exp = 2
    Saved <- SavedNew
    Table <- LongTable
    Garbage = {0}
    IdleTime = 1
    RespawnTime = 1
    CoolTime = 1
    Zones = {"reach", "sight", "away"}
    MaxPoints = 2
    MaxHits = 3
    MaxTargets = 2
    MaxMoves = 0
SPECIFICATION FairSpec
INVARIANTS
    TreeDecides
    LevelKeepsUp
PROPERTIES
    AttacksMembers
    StaysDead
    ComesBack
    StrollsOn
