------------------------------ MODULE MCDungeon -----------------------------
(* Small instances of Dungeon: a dungeon and a town, or the dungeon alone. *)
EXTENDS MonsterAI

CONSTANTS town, den

TownFirst == <<town, den>>
DenOnly == <<den>>

\* With kills worth 2: the first brings exactly the level, the next one more.
ShortTable == <<3, 1>>
SavedNear == [c \in Characters |-> [level |-> 1, exp |-> 1]]

\* With kills worth 2: none, exactly a level, and one that leaves enough for more.
LongTable == <<4, 1, 1>>
SavedNew == [c \in Characters |-> [level |-> 1, exp |-> 0]]

Symmetry == Permutations(Characters)
=============================================================================
