---------------------------- MODULE DungeonProofs ---------------------------
(***************************************************************************)
(* Proofs about Dungeon, for any characters, monsters, channels, tables    *)
(* and times: types, StaysDead and AttacksMembers from IInv; HealthSettles, *)
(* ExpAccounts and LevelsSettle from IInv and an invariant for each about  *)
(* what is under way; LevelKeepsUp from IInv and itself.                   *)
(***************************************************************************)
EXTENDS Dungeon, FiniteSetTheorems, WellFoundedInduction, TLAPS

\* A monster in HOLD has at most one path before it; one that is alive does not
\* count respawnTime, and a dead one has been dead for what it has counted.
SoundMonster(x) ==
    /\ x \in MonsterType
    /\ x.idle = "HOLD" => x.points <= MaxPoints
    /\ x.alive => x.respawn = 0
    /\ ~x.alive => x.respawn <= x.dead

\* No level is taken away, and up to the end of the table, a level requires what
\* its row says and is paid with experience that is there.
Rows ==
    \A c \in Characters :
        /\ level[c] >= Saved[c].level
        /\ level[c] \in DOMAIN Table => req[c] = Table[level[c]] /\ 0 <= exp[c]

IInv ==
    /\ TypeOK
    /\ \A m \in Monsters : SoundMonster(mon[m])
    /\ Rows

\* The times and bounds of the behaviour tree are numbers, and what the tree
\* sets a field to is in the range of the field.
LEMMA Times ==
    /\ IdleTime \in Nat /\ RespawnTime \in Nat /\ CoolTime \in Nat
    /\ MaxPoints \in Nat /\ MaxHp \in Nat \ {0}
    /\ 0 \in 0 .. CoolTime /\ 0 \in 0 .. IdleTime + 1
    /\ 0 \in 0 .. RespawnTime + 1 /\ 0 \in 0 .. 2 * MaxPoints
    /\ MaxHp \in 0 .. MaxHp
<1>1. /\ IdleTime \in Nat /\ RespawnTime \in Nat /\ CoolTime \in Nat
      /\ MaxPoints \in Nat /\ MaxHp \in Nat \ {0}
    BY DungeonAssumption DEF DungeonAssumption
<1> QED BY <1>1

-----------------------------------------------------------------------------
(* The behaviour tree. *)

\* What a look at the members can find.
Looks == [c : Characters \cup {None}, zone : {"reach", "sight", "away"}]

LEMMA NearestType ==
    ASSUME TypeOK, NEW near \in Nearest(Den)
    PROVE  near \in Looks
<1>1. members[Den] \subseteq Characters
    BY DungeonAssumption DEF DungeonAssumption, TypeOK
<1>2. Zones \subseteq {"reach", "sight", "away"}
    BY DungeonAssumption DEF DungeonAssumption
<1>3. CASE near \in [c : members[Den], zone : Zones]
    BY <1>1, <1>2, <1>3 DEF Looks
<1>4. CASE near = [c |-> None, zone |-> "away"]
    BY <1>4 DEF Looks
<1> QED BY <1>3, <1>4 DEF Nearest

\* A frame goes by (attackCoolTime, and how long x is dead).
LEMMA PassSound ==
    ASSUME NEW x, SoundMonster(x)
    PROVE  /\ SoundMonster(Pass(x))
           /\ Pass(x).alive = x.alive
           /\ Pass(x).respawn = x.respawn
           /\ Pass(x).attacking = x.attacking
           /\ Pass(x).hp = x.hp
           /\ ~x.alive => x.respawn < Pass(x).dead \/ RespawnTime < Pass(x).dead
<1> DEFINE cool == IF x.cool < CoolTime THEN x.cool + 1 ELSE x.cool
           dead == IF ~x.alive /\ x.dead <= RespawnTime THEN x.dead + 1 ELSE x.dead
<1>1. x \in MonsterType
    BY DEF SoundMonster
<1>2. /\ cool \in 0 .. CoolTime /\ dead \in 0 .. RespawnTime + 1
      /\ ~x.alive => x.respawn <= dead
      /\ ~x.alive => x.respawn < dead \/ RespawnTime < dead
    BY Times DEF SoundMonster, MonsterType
<1>3. Pass(x) = [x EXCEPT !.cool = cool, !.dead = dead]
    BY <1>1 DEF Pass, MonsterType
<1> HIDE DEF cool, dead
<1>4. Pass(x) \in MonsterType
    BY <1>1, <1>2, <1>3 DEF MonsterType
<1>5. /\ Pass(x).alive = x.alive /\ Pass(x).respawn = x.respawn
      /\ Pass(x).attacking = x.attacking /\ Pass(x).dead = dead
      /\ Pass(x).hp = x.hp
      /\ Pass(x).idle = x.idle /\ Pass(x).points = x.points
    BY <1>1, <1>3 DEF MonsterType
<1> QED BY <1>2, <1>4, <1>5 DEF SoundMonster

LEMMA WalkSound ==
    ASSUME NEW x, SoundMonster(x)
    PROVE  /\ SoundMonster(Walk(x))
           /\ Walk(x).alive = x.alive
           /\ Walk(x).attacking = x.attacking
           /\ Walk(x).hp = x.hp
<1> DEFINE u == [x EXCEPT !.points = x.points - 1, !.gap = 1]
           Sound(z) == /\ SoundMonster(z)
                       /\ z.alive = x.alive /\ z.attacking = x.attacking
                       /\ z.hp = x.hp
<1>1. ASSUME x.points > 0
      PROVE  Sound(u)
    <2>1. x \in MonsterType /\ x.points - 1 \in 0 .. 2 * MaxPoints
        BY <1>1, Times DEF SoundMonster, MonsterType
    <2>2. u \in MonsterType
        BY <2>1 DEF MonsterType
    <2>3. /\ u.alive = x.alive /\ u.respawn = x.respawn
          /\ u.attacking = x.attacking /\ u.dead = x.dead
          /\ u.idle = x.idle /\ u.points = x.points - 1 /\ u.hp = x.hp
        BY <2>1 DEF MonsterType
    <2> HIDE DEF u
    <2>4. u.idle = "HOLD" => u.points <= MaxPoints
        BY <2>1, <2>3, Times DEF SoundMonster, MonsterType
    <2> QED BY <2>2, <2>3, <2>4 DEF SoundMonster
<1>2. ASSUME NEW y, Sound(y)
      PROVE  Sound([y EXCEPT !.gap = 0])
    BY <1>2, Times DEF SoundMonster, MonsterType
<1>3. \/ Walk(x) \in {x, [x EXCEPT !.gap = 0]}
      \/ x.points > 0 /\ Walk(x) \in {u, [u EXCEPT !.gap = 0]}
    BY DEF Walk
<1> HIDE DEF u
<1>4. Sound(x)
    OBVIOUS
<1> HIDE DEF Sound
<1>5. Sound(Walk(x))
    BY <1>1, <1>2, <1>3, <1>4
<1> QED BY <1>5 DEF Sound

\* The two decorators: what UpdateIdle leaves is in bounds, and in HOLD it can
\* still be counted.
LEMMA IdleSound ==
    ASSUME NEW x, SoundMonster(x), NEW n \in 0 .. MaxPoints
    PROVE  /\ SoundMonster(Idle(x, n))
           /\ Idle(x, n).alive = x.alive
           /\ Idle(x, n).attacking = x.attacking
           /\ Idle(x, n).hp = x.hp
<1> DEFINE y == UpdateIdle(x, n)
<1>0. x \in MonsterType
    BY DEF SoundMonster
<1>1. /\ SoundMonster(y)
      /\ y.idle = "HOLD" => y.idling <= IdleTime
      /\ y.alive = x.alive
      /\ y.attacking = x.attacking
      /\ y.hp = x.hp
    <2>1. CASE x.idle = "PATROL" /\ x.points = 0
        <3>1. y = [x EXCEPT !.idle = "HOLD", !.idling = 0, !.move = TRUE]
            BY <2>1 DEF UpdateIdle
        <3> HIDE DEF y
        <3>2. y \in MonsterType
            BY <1>0, <3>1, Times DEF MonsterType
        <3>3. /\ y.alive = x.alive /\ y.respawn = x.respawn
              /\ y.attacking = x.attacking /\ y.dead = x.dead
              /\ y.idling = 0 /\ y.points = x.points /\ y.hp = x.hp
            BY <1>0, <3>1 DEF MonsterType
        <3> QED BY <2>1, <3>2, <3>3, Times DEF SoundMonster
    <2>2. CASE x.idle = "PATROL" /\ x.points # 0
        BY <2>2, Times DEF SoundMonster, MonsterType, UpdateIdle
    <2>3. CASE x.idle = "HOLD" /\ IdleTime > x.idling
        BY <2>3, Times DEF SoundMonster, MonsterType, UpdateIdle
    <2>4. CASE x.idle = "HOLD" /\ ~(IdleTime > x.idling)
        <3>1. y = [[x EXCEPT !.idle = "PATROL", !.move = TRUE]
                      EXCEPT !.points = x.points + n]
            BY <2>4 DEF SoundMonster, MonsterType, UpdateIdle, FindPath
        <3>2. x.points + n \in 0 .. 2 * MaxPoints
            BY <2>4, Times DEF SoundMonster, MonsterType
        <3> HIDE DEF y
        <3>3. y \in MonsterType
            BY <1>0, <3>1, <3>2 DEF MonsterType
        <3>4. /\ y.alive = x.alive /\ y.respawn = x.respawn
              /\ y.attacking = x.attacking /\ y.dead = x.dead
              /\ y.idle = "PATROL" /\ y.hp = x.hp
            BY <1>0, <3>1 DEF MonsterType
        <3> QED BY <3>3, <3>4 DEF SoundMonster
    <2> QED BY <2>1, <2>2, <2>3, <2>4 DEF SoundMonster, MonsterType
<1>2. CASE y.idle = "PATROL"
    BY <1>1, <1>2, WalkSound DEF Idle
<1>3. CASE y.idle = "HOLD"
    BY <1>1, <1>3, Times DEF Idle, Hold, SoundMonster, MonsterType
<1> QED BY <1>1, <1>2, <1>3 DEF SoundMonster, MonsterType

\* What UpdateState decides: a dead monster is dead or comes back when its time
\* has passed, and an attack is decided on only with a character in reach.
LEMMA UpdateStateSound ==
    ASSUME NEW x, SoundMonster(x), NEW near \in Looks, NEW n \in 0 .. MaxPoints
    PROVE  LET y == UpdateState(x, near, n)
           IN  /\ SoundMonster(y)
               /\ y.state = "DIE" => ~y.alive /\ y.respawn <= RespawnTime
               /\ y.alive /\ ~x.alive => x.respawn > RespawnTime
               /\ x.alive => y.alive
               /\ ~y.alive => ~x.alive /\ y.dead = x.dead /\ y.respawn = x.respawn
               /\ y.state = "ATTACK" => near.zone = "reach" /\ y.target = near.c
               /\ y.state # "ATTACK" /\ ~x.attacking => ~y.attacking
               /\ IF x.alive \/ ~y.alive THEN y.hp = x.hp ELSE y.hp = MaxHp
<1> DEFINE y == UpdateState(x, near, n)
<1>0. x \in MonsterType
    BY DEF SoundMonster
<1>1. CASE ~x.alive /\ Due(x)
    <2> DEFINE gap == IF x.points > 0 THEN 1 ELSE 0
    <2>1. y = [x EXCEPT !.alive = TRUE, !.hp = MaxHp, !.state = "IDLE",
                        !.attacking = FALSE, !.respawn = 0, !.gap = gap]
        BY <1>1 DEF UpdateState, Respawn
    <2>2. gap \in {0, 1} /\ x.respawn > RespawnTime
        BY <1>1 DEF Due
    <2> HIDE DEF gap, y
    <2>3. y \in MonsterType
        BY <1>0, <2>1, <2>2, Times DEF MonsterType
    <2>4. /\ y.alive = TRUE /\ y.respawn = 0 /\ y.attacking = FALSE
          /\ y.state = "IDLE" /\ y.idle = x.idle /\ y.points = x.points
          /\ y.hp = MaxHp
        BY <1>0, <2>1 DEF MonsterType
    <2> USE DEF y
    <2> QED BY <2>2, <2>3, <2>4, <1>1 DEF SoundMonster
<1>2. CASE ~x.alive /\ ~Due(x)
    BY <1>2, Times DEF UpdateState, Due, SoundMonster, MonsterType
<1>3. CASE x.alive /\ near.zone = "sight"
    <2> DEFINE u == [x EXCEPT !.move = @ /\ ~x.attacking]
               v == [u EXCEPT !.state = "CHASE", !.move = TRUE,
                              !.target = near.c, !.points = 0, !.gap = 0]
    <2>1. u \in MonsterType /\ u.alive = x.alive /\ u.respawn = x.respawn
          /\ u.attacking = x.attacking /\ u.hp = x.hp
        BY <1>0 DEF MonsterType
    <2> HIDE DEF u
    <2>2. near.c \in Characters \cup {None}
        BY DEF Looks
    <2>3. v \in MonsterType
        BY <2>1, <2>2, Times DEF MonsterType
    <2>4. /\ v.alive = x.alive /\ v.state = "CHASE" /\ v.respawn = x.respawn
          /\ v.attacking = x.attacking /\ v.points = 0 /\ v.hp = x.hp
        BY <2>1 DEF MonsterType
    <2>5. y = [v EXCEPT !.points = v.points + n]
        BY <1>3 DEF UpdateState, FindPath, u
    <2> HIDE DEF v, y
    <2>6. y = [v EXCEPT !.points = n] /\ n \in 0 .. 2 * MaxPoints
        BY <2>4, <2>5, Times
    <2>7. y \in MonsterType
        BY <2>3, <2>6 DEF MonsterType
    <2>8. /\ y.alive = x.alive /\ y.state = "CHASE" /\ y.respawn = x.respawn
          /\ y.attacking = x.attacking /\ y.points = n /\ y.hp = x.hp
        BY <2>3, <2>4, <2>6 DEF MonsterType
    <2> USE DEF y
    <2> QED BY <2>7, <2>8, <1>3, Times DEF SoundMonster
<1>4. CASE x.alive /\ near.zone = "reach"
    BY <1>4, Times DEF UpdateState, Looks, SoundMonster, MonsterType
<1>5. CASE x.alive /\ near.zone = "away"
    BY <1>5, Times DEF UpdateState, Lose, SoundMonster, MonsterType
<1> QED BY <1>1, <1>2, <1>3, <1>4, <1>5 DEF Looks

\* The whole tree, after a frame has gone by.
LEMMA TreeSound ==
    ASSUME NEW x, SoundMonster(x), NEW near \in Looks, NEW n \in 0 .. MaxPoints
    PROVE  LET z == Tree(Pass(x), near, n)
           IN  /\ SoundMonster(z)
               /\ ~x.alive /\ z.alive => x.respawn > RespawnTime
               /\ ~x.attacking /\ z.attacking
                      => near.zone = "reach" /\ z.target = near.c
               /\ x.alive => z.alive
               /\ IF x.alive \/ ~z.alive THEN z.hp = x.hp ELSE z.hp = MaxHp
<1> DEFINE w == Pass(x)
           y == UpdateState(w, near, n)
           z == Tree(w, near, n)
<1>1. /\ SoundMonster(w) /\ w.alive = x.alive
      /\ w.respawn = x.respawn /\ w.attacking = x.attacking
      /\ w.hp = x.hp
      /\ ~x.alive => x.respawn < w.dead \/ RespawnTime < w.dead
    BY PassSound
<1>2. /\ SoundMonster(y)
      /\ y.state = "DIE" => ~y.alive /\ y.respawn <= RespawnTime
      /\ y.alive /\ ~w.alive => w.respawn > RespawnTime
      /\ w.alive => y.alive
      /\ ~y.alive => ~w.alive /\ y.dead = w.dead /\ y.respawn = w.respawn
      /\ y.state = "ATTACK" => near.zone = "reach" /\ y.target = near.c
      /\ y.state # "ATTACK" /\ ~w.attacking => ~y.attacking
      /\ IF w.alive \/ ~y.alive THEN y.hp = w.hp ELSE y.hp = MaxHp
    BY <1>1, UpdateStateSound
<1>3. CASE y.state = "IDLE"
    <2>1. z = Idle(y, n)
        BY <1>3 DEF Tree
    <2> QED BY <2>1, <1>1, <1>2, <1>3, IdleSound
<1>4. CASE y.state = "CHASE"
    <2>1. z = Walk(y)
        BY <1>4 DEF Tree
    <2> QED BY <2>1, <1>1, <1>2, <1>4, WalkSound
<1>5. CASE y.state = "ATTACK"
    <2>1. z = Attack(y)
        BY <1>5 DEF Tree
    <2>2. SoundMonster(z) /\ z.target = y.target /\ z.alive = y.alive
          /\ z.hp = y.hp
        <3>1. z \in {y, [y EXCEPT !.attacking = TRUE, !.cool = 0],
                         [y EXCEPT !.attacking = FALSE]}
            BY <2>1 DEF Attack
        <3>2. y \in MonsterType
            BY <1>2 DEF SoundMonster
        <3> HIDE DEF y, z
        <3>3. z \in MonsterType
            <4>1. [y EXCEPT !.attacking = TRUE, !.cool = 0] \in MonsterType
                BY <3>2, Times DEF MonsterType
            <4>2. [y EXCEPT !.attacking = FALSE] \in MonsterType
                BY <3>2 DEF MonsterType
            <4> QED BY <3>1, <3>2, <4>1, <4>2
        <3>4. /\ z.target = y.target /\ z.alive = y.alive /\ z.dead = y.dead
              /\ z.hp = y.hp
              /\ z.respawn = y.respawn /\ z.idle = y.idle /\ z.points = y.points
            BY <3>1, <3>2 DEF MonsterType
        <3> QED BY <3>3, <3>4, <1>2 DEF SoundMonster
    <2> QED BY <2>2, <1>1, <1>2, <1>5
<1>6. CASE y.state = "DIE"
    <2>1. z = Die(y)
        BY <1>6 DEF Tree
    <2>2. /\ SoundMonster(z) /\ z.attacking = y.attacking /\ z.alive = y.alive
          /\ z.hp = y.hp
        <3>1. y.respawn < y.dead \/ RespawnTime < y.dead
            BY <1>1, <1>2, <1>6
        <3> QED BY <3>1, <2>1, <1>2, <1>6, Times DEF Die, SoundMonster, MonsterType
    <2> QED BY <2>2, <1>1, <1>2, <1>6
<1> QED BY <1>2, <1>3, <1>4, <1>5, <1>6, Times DEF SoundMonster, MonsterType

-----------------------------------------------------------------------------
(* The initial states. *)

LEMMA TableType ==
    /\ Table \in Seq(Nat) /\ Exp \in Nat /\ Garbage \subseteq Int
    /\ \A l \in DOMAIN Table : l \in Nat \ {0} /\ Table[l] \in Nat
    /\ \A c \in Characters : Saved[c].level \in DOMAIN Table /\ Saved[c].exp \in Nat
BY DungeonAssumption DEF DungeonAssumption

LEMMA SpawnedSound == SoundMonster(Spawned)
BY Times DEF Spawned, SoundMonster, MonsterType

LEMMA InitIInv == Init => IInv
<1> SUFFICES ASSUME Init
             PROVE  IInv
    OBVIOUS
<1>1. sends \in [Managers -> Seq(Messages)]
    <2>1. PICK s \in SetToSeqs(Monsters) :
              sends = [g \in Managers |-> IF g # Den THEN <<>>
                         ELSE [i \in DOMAIN s |-> [kind |-> "respawn", monster |-> s[i]]]]
        BY DEF Init
    <2>2. PICK n \in Nat : s \in [1 .. n -> Monsters]
        BY DungeonAssumption, FS_CardinalityType DEF DungeonAssumption, SetToSeqs
    <2>3. [i \in DOMAIN s |-> [kind |-> "respawn", monster |-> s[i]]] \in [1 .. n -> Messages]
        BY <2>2 DEF Messages
    <2> QED BY <2>1, <2>3
<1>2. /\ level \in [Characters -> Nat \ {0}] /\ exp \in [Characters -> Int]
      /\ req \in [Characters -> Int]
      /\ Rows
    <2>1. \A c \in Characters : Saved[c].level \in DOMAIN Table /\ Saved[c].exp \in Nat
        BY TableType
    <2>2. /\ level = [c \in Characters |-> Saved[c].level]
          /\ exp = [c \in Characters |-> Saved[c].exp]
          /\ req = [c \in Characters |-> Table[level[c]]]
        BY DEF Init
    <2> QED BY <2>1, <2>2, TableType DEF Rows
<1>3. mon = [m \in Monsters |-> Spawned] /\ \A m \in Monsters : SoundMonster(mon[m])
    BY SpawnedSound DEF Init
<1>4. game \in [at : {"channel", "manager", "functions", "damage", "monsters"},
                turn : DOMAIN Order, todo : SUBSET Monsters]
    <2>1. 1 \in DOMAIN Order
        BY DungeonAssumption DEF DungeonAssumption
    <2> QED BY <2>1 DEF Init
<1>5. TypeOK
    <2>1. mon \in [Monsters -> MonsterType]
        BY <1>3 DEF SoundMonster
    <2>2. asked \in 0 .. MaxHits /\ moves \in 0 .. MaxMoves
        BY DungeonAssumption DEF DungeonAssumption, Init
    <2> QED BY <1>1, <1>2, <1>4, <2>1, <2>2 DEF Init, TypeOK
<1> QED BY <1>2, <1>3, <1>5 DEF IInv

-----------------------------------------------------------------------------
(* The steps. *)

\* A step that leaves monsters and levels alone.
Elsewhere == UNCHANGED <<mon, expVars>>

LEMMA ElsewhereIInv ==
    ASSUME IInv, Elsewhere, TypeOK'
    PROVE  IInv'
BY DEF IInv, Elsewhere, expVars, Rows

LEMMA PostType ==
    ASSUME TypeOK, NEW g \in Managers, NEW msg \in Messages, Post(g, msg)
    PROVE  sends' \in [Managers -> Seq(Messages)]
BY DEF TypeOK, Post

LEMMA GiveType ==
    ASSUME TypeOK, NEW g, NEW f \in Functions,
           funcs' = [funcs EXCEPT ![g] = Append(@, f)]
    PROVE  funcs' \in [Managers -> Seq(Functions)]
<1>1. funcs \in [Managers -> Seq(Functions)]
    BY DEF TypeOK
<1>2. \A h \in Managers : Append(funcs[h], f) \in Seq(Functions)
    BY <1>1
<1> QED BY <1>1, <1>2

LEMMA HereType == TypeOK => Here \in Managers
BY DungeonAssumption DEF DungeonAssumption, TypeOK, Here

\* What the clients' threads do.
LEMMA ClientType ==
    ASSUME TypeOK, Client
    PROVE  TypeOK' /\ Elsewhere
<1>1. ASSUME NEW c \in Characters, NEW n \in 1 .. MaxTargets, PostDamage(c, n)
      PROVE  TypeOK' /\ Elsewhere
    <2>1. [by |-> c, n |-> n, hit |-> {}] \in Requests /\ MaxHits \in Nat
        BY DungeonAssumption DEF DungeonAssumption, Requests
    <2> QED BY <1>1, <2>1 DEF TypeOK, PostDamage, Elsewhere, moveVars, memberVars, killVars,
                               expVars
<1>2. ASSUME NEW c \in Characters, NEW g \in Managers, Enter(c, g)
      PROVE  TypeOK' /\ Elsewhere
    <2>1. MaxMoves \in Nat
        BY DungeonAssumption DEF DungeonAssumption
    <2>2. moves' \in 0 .. MaxMoves
        BY <1>2, <2>1 DEF TypeOK, Enter
    <2>3. /\ at' \in [Characters -> Managers \cup {None}]
          /\ entering' \subseteq Characters
          /\ erases' \in [Managers -> SUBSET Characters]
        BY <1>2 DEF TypeOK, Enter
    <2> QED BY <1>2, <2>2, <2>3 DEF TypeOK, Enter, Elsewhere, memberVars, killVars, hitVars, expVars
<1>3. ASSUME NEW c \in Characters, Ask(c)
      PROVE  TypeOK' /\ Elsewhere
    BY <1>3 DEF TypeOK, Ask, Elsewhere, memberVars, killVars, hitVars, expVars
<1>4. ASSUME NEW c \in Characters, Leave(c)
      PROVE  TypeOK' /\ Elsewhere
    BY <1>4 DEF TypeOK, Leave, Admitted, Elsewhere, memberVars, killVars, hitVars, expVars
<1> QED BY <1>1, <1>2, <1>3, <1>4 DEF Client

LEMMA DrainChannelType ==
    ASSUME TypeOK, DrainChannel
    PROVE  TypeOK' /\ Elsewhere
<1>1. game' = [game EXCEPT !.at = "manager"] /\ game.at = "channel"
    BY DEF DrainChannel, Goto
<1>2. members' \in [Managers -> SUBSET Characters]
    BY HereType DEF DrainChannel, Drained, TypeOK
<1>3. cm' \in [Characters -> Managers \cup {None}]
    BY HereType DEF DrainChannel, TypeOK
<1>4. erases' \in [Managers -> SUBSET Characters]
      /\ inserts' \in [Managers -> SUBSET Characters]
    BY DEF DrainChannel, TypeOK
<1>5. overtaken' \subseteq Characters
    BY HereType DEF DrainChannel, TypeOK
<1> QED BY <1>1, <1>2, <1>3, <1>4, <1>5 DEF DrainChannel, TypeOK, Elsewhere, hitVars,
                                            expVars, killVars

LEMMA DrainManagerType ==
    ASSUME TypeOK, DrainManager
    PROVE  TypeOK' /\ Elsewhere
<1>1. /\ game' = [game EXCEPT !.at = "functions"] /\ game.at = "manager"
      /\ copy' = funcs[Here]
      /\ sends' = [sends EXCEPT ![Here] = <<>>]
      /\ funcs' = [funcs EXCEPT ![Here] = <<>>]
      /\ UNCHANGED <<moveVars, memberVars, hitVars, mon, expVars, killVars>>
    BY DEF DrainManager, Goto
<1>2. /\ sends' \in [Managers -> Seq(Messages)]
      /\ funcs' \in [Managers -> Seq(Functions)]
    <2>1. sends \in [Managers -> Seq(Messages)] /\ <<>> \in Seq(Messages)
        BY DEF TypeOK
    <2>2. funcs \in [Managers -> Seq(Functions)] /\ <<>> \in Seq(Functions)
        BY DEF TypeOK
    <2> QED BY <1>1, <2>1, <2>2
<1>3. copy' \in Seq(Functions)
    BY <1>1, HereType DEF TypeOK
<1>4. /\ game' \in [at : {"channel", "manager", "functions", "damage", "monsters"},
                    turn : DOMAIN Order, todo : SUBSET Monsters]
      /\ game'.at = "functions"
    BY <1>1 DEF TypeOK
<1> QED BY <1>1, <1>2, <1>3, <1>4 DEF TypeOK, Elsewhere, moveVars, memberVars, killVars, hitVars,
                                       expVars

\* Next channel: the copy is that of no mailbox.
LEMMA NextChannelType ==
    ASSUME TypeOK, NextChannel
    PROVE  game' \in [at : {"channel"}, turn : DOMAIN Order, todo : SUBSET Monsters]
<1>1. game.turn \in DOMAIN Order /\ Order \in Seq(Managers) /\ Order # <<>>
    BY DungeonAssumption DEF DungeonAssumption, TypeOK
<1>2. (game.turn % Len(Order)) + 1 \in DOMAIN Order
    BY <1>1
<1> QED BY <1>2 DEF NextChannel

LEMMA TellLevelType ==
    ASSUME TypeOK, TellLevel
    PROVE  TypeOK' /\ Elsewhere
<1>1. copy \in Seq(Functions) /\ copy # <<>> /\ game.at = "functions"
    BY DEF TypeOK, TellLevel
<1>2. Head(copy).c \in Characters /\ Tail(copy) \in Seq(Functions)
    <2>1. Head(copy) \in Functions /\ Tail(copy) \in Seq(Functions)
        BY <1>1
    <2> QED BY <2>1 DEF Functions
<1>3. sends' \in [Managers -> Seq(Messages)]
    <2>1. level[Head(copy).c] \in Nat
        BY <1>2 DEF TypeOK
    <2>2. [kind |-> "level", who |-> Head(copy).c, level |-> level[Head(copy).c]]
              \in Messages
        BY <1>2, <2>1 DEF Messages
    <2> QED BY <2>2, HereType, PostType DEF TellLevel, LevelTold
<1> QED BY <1>1, <1>2, <1>3 DEF TellLevel, TypeOK, Elsewhere, moveVars, memberVars, killVars,
                                 hitVars, expVars

LEMMA LeaveManagerType ==
    ASSUME TypeOK, LeaveManager
    PROVE  TypeOK' /\ Elsewhere
<1>1. CASE Here = Den
    <2>1. /\ game' = [game EXCEPT !.at = "damage"] /\ copy' = hits /\ hits' = <<>>
          /\ UNCHANGED <<moveVars, memberVars, killVars, sends, funcs, asked, mon, expVars>>
        BY <1>1 DEF LeaveManager, Goto
    <2>2. game'.at = "damage" /\ copy' \in Seq(Requests) /\ hits' \in Seq(Requests)
        BY <2>1 DEF TypeOK
    <2> QED BY <2>1, <2>2 DEF TypeOK, Elsewhere, moveVars, memberVars, killVars, expVars
<1>2. CASE Here # Den
    BY <1>2, NextChannelType DEF LeaveManager, TypeOK, Elsewhere, moveVars, memberVars, killVars,
                                  expVars
<1> QED BY <1>1, <1>2

LEMMA EndDamageType ==
    ASSUME TypeOK, EndDamage
    PROVE  TypeOK' /\ Elsewhere
<1>1. copy \in Seq(Requests) /\ copy # <<>> /\ game.at = "damage"
    BY DEF TypeOK, EndDamage
<1>2. Head(copy).hit \subseteq Monsters /\ Tail(copy) \in Seq(Requests)
    <2>1. Head(copy) \in Requests /\ Tail(copy) \in Seq(Requests)
        BY <1>1
    <2> QED BY <2>1 DEF Requests
<1>3. sends' \in [Managers -> Seq(Messages)]
    <2> DEFINE hit == Head(copy).hit
               news == [m \in hit |-> mon[m].hp]
    <2>1. news \in [hit -> 0 .. MaxHp]
        BY <1>2 DEF TypeOK, MonsterType
    <2>2. [kind |-> "damage", hp |-> news] \in [kind : {"damage"}, hp : [hit -> 0 .. MaxHp]]
        BY <2>1
    <2>3. [kind |-> "damage", hp |-> news] \in Messages
        BY <1>2, <2>2 DEF Messages
    <2>4. Den \in Managers
        BY DungeonAssumption DEF DungeonAssumption
    <2> QED BY <2>3, <2>4, PostType DEF EndDamage, TypeOK
<1> QED BY <1>1, <1>2, <1>3 DEF EndDamage, TypeOK, Elsewhere, moveVars, memberVars, killVars,
                                 hitVars, expVars

LEMMA MonstersType ==
    ASSUME TypeOK, StartMonsters \/ EndMonsters
    PROVE  TypeOK' /\ Elsewhere
<1>1. CASE StartMonsters
    <2>1. /\ game' = [game EXCEPT !.at = "monsters", !.todo = Monsters]
          /\ copy' = <<>>
          /\ UNCHANGED <<moveVars, memberVars, killVars, sends, funcs, hitVars, mon, expVars>>
        BY <1>1 DEF StartMonsters
    <2>2. /\ game' \in [at : {"channel", "manager", "functions", "damage", "monsters"},
                        turn : DOMAIN Order, todo : SUBSET Monsters]
          /\ game'.at = "monsters"
        BY <2>1 DEF TypeOK
    <2>3. copy' \in Seq(Functions)
        BY <2>1
    <2> QED BY <2>1, <2>2, <2>3 DEF TypeOK, Elsewhere, moveVars, memberVars, killVars, hitVars, expVars
<1>2. CASE EndMonsters
    BY <1>2, NextChannelType DEF EndMonsters, TypeOK, Elsewhere, moveVars, memberVars, killVars,
                                  hitVars, expVars
<1> QED BY <1>1, <1>2

\* Up to the end of the table, a level is given for experience that is there.
LEMMA AddCurrentExpIInv ==
    ASSUME IInv, AddCurrentExp
    PROVE  IInv'
<1> DEFINE c == Head(copy).c
<1>0. Exp \in Nat
    BY TableType
<1>1. copy \in Seq(Functions) /\ copy # <<>> /\ game.at = "functions"
    BY DEF IInv, TypeOK, AddCurrentExp
<1>2. c \in Characters /\ Tail(copy) \in Seq(Functions)
    <2>1. Head(copy) \in Functions /\ Tail(copy) \in Seq(Functions)
        BY <1>1
    <2> QED BY <2>1 DEF Functions
<1>3. /\ level[c] \in Nat \ {0} /\ exp[c] \in Int /\ req[c] \in Int
      /\ level \in [Characters -> Nat \ {0}] /\ exp \in [Characters -> Int]
      /\ req \in [Characters -> Int]
    BY <1>2 DEF IInv, TypeOK
<1>4. /\ level[c] >= Saved[c].level /\ Saved[c].level \in Nat
      /\ level[c] \in DOMAIN Table => req[c] = Table[level[c]] /\ 0 <= exp[c]
    BY <1>2, TableType DEF IInv, Rows
<1> HIDE DEF c
<1>5. /\ level' \in [Characters -> Nat \ {0}] /\ exp' \in [Characters -> Int]
      /\ req' \in [Characters -> Int]
      /\ funcs' \in [Managers -> Seq(Functions)]
      /\ Rows'
    <2>1. CASE Enough(c)
        <3>1. PICK r \in Required(level[c] + 1) :
                  /\ exp' = [exp EXCEPT ![c] = @ + Exp - req[c]]
                  /\ level' = [level EXCEPT ![c] = @ + 1]
                  /\ req' = [req EXCEPT ![c] = r]
                  /\ funcs' = IF cm[c] = None THEN funcs
                              ELSE [funcs EXCEPT ![cm[c]] =
                                       Append(@, [op |-> "news", c |-> c])]
            BY <2>1 DEF AddCurrentExp, LevelUp, c
        <3>2. r \in Int
            <4>1. CASE level[c] + 1 \in DOMAIN Table
                BY <4>1, <3>1, TableType DEF Required
            <4>2. CASE level[c] + 1 \notin DOMAIN Table
                <5>1. r \in Garbage
                    BY <4>2, <3>1 DEF Required
                <5> QED BY <5>1, TableType
            <4> QED BY <4>1, <4>2
        <3>3. [op |-> "news", c |-> c] \in Functions
            BY <1>2 DEF Functions, c
        <3>4. funcs' \in [Managers -> Seq(Functions)]
            <4>1. CASE cm[c] = None
                BY <4>1, <3>1 DEF IInv, TypeOK
            <4>2. CASE cm[c] # None
                BY <4>2, <3>1, <3>3, GiveType DEF IInv
            <4> QED BY <4>1, <4>2
        <3>5. level[c] + 1 \in DOMAIN Table
                  => r = Table[level[c] + 1] /\ 0 <= exp[c] + Exp - req[c]
            <4>1. level[c] + 1 \in DOMAIN Table => r = Table[level[c] + 1]
                BY <3>1 DEF Required
            <4> QED BY <1>0, <1>3, <2>1, <4>1 DEF Enough
        <3>6. /\ level' \in [Characters -> Nat \ {0}] /\ exp' \in [Characters -> Int]
              /\ req' \in [Characters -> Int]
            <4>1. exp[c] + Exp - req[c] \in Int /\ level[c] + 1 \in Nat \ {0}
                BY <1>0, <1>3
            <4> QED BY <1>3, <3>1, <3>2, <4>1
        <3>7. Rows'
            <4> SUFFICES ASSUME NEW d \in Characters
                         PROVE  /\ level'[d] >= Saved[d].level
                                /\ level'[d] \in DOMAIN Table =>
                                       req'[d] = Table[level'[d]] /\ 0 <= exp'[d]
                BY DEF Rows
            <4>1. CASE d = c
                BY <4>1, <1>3, <1>4, <3>1, <3>5
            <4>2. CASE d # c
                BY <4>2, <1>3, <3>1 DEF IInv, Rows
            <4> QED BY <4>1, <4>2
        <3> QED BY <3>4, <3>6, <3>7
    <2>2. CASE ~Enough(c)
        <3>1. exp' = [exp EXCEPT ![c] = @ + Exp] /\ UNCHANGED <<level, req, funcs>>
            BY <2>2 DEF AddCurrentExp, c
        <3>3. exp' \in [Characters -> Int]
            <4>1. exp[c] + Exp \in Int
                BY <1>0, <1>3
            <4> QED BY <1>3, <3>1, <4>1
        <3>4. Rows'
            BY <1>0, <1>3, <3>1 DEF IInv, Rows
        <3> QED BY <1>3, <3>1, <3>3, <3>4 DEF IInv, TypeOK
    <2> QED BY <2>1, <2>2
<1>6. quiet' \subseteq Characters
    <2>1. quiet' = quiet \/ quiet' = quiet \cup {c}
        BY DEF AddCurrentExp, LevelUp, c
    <2> QED BY <1>2, <2>1 DEF IInv, TypeOK, c
<1>7. TypeOK'
    BY <1>1, <1>2, <1>5, <1>6 DEF IInv, TypeOK, AddCurrentExp, moveVars, memberVars, killVars,
                                   hitVars
<1> QED BY <1>5, <1>7 DEF IInv, AddCurrentExp

\* Damage takes health, and a kill begins to count afresh how long it is.
LEMMA HurtSound ==
    ASSUME NEW x, SoundMonster(x), x.alive, NEW hp \in 0 .. MaxHp
    PROVE  /\ SoundMonster([x EXCEPT !.hp = hp])
           /\ SoundMonster([x EXCEPT !.hp = 0, !.alive = FALSE, !.dead = 0])
<1> DEFINE y == [x EXCEPT !.hp = 0, !.alive = FALSE, !.dead = 0]
<1>1. x \in MonsterType /\ 0 \in 0 .. MaxHp
    BY Times DEF SoundMonster
<1>2. SoundMonster([x EXCEPT !.hp = hp])
    BY DEF SoundMonster, MonsterType
<1>3. y \in MonsterType
    BY <1>1, Times DEF MonsterType
<1>4. /\ y.alive = FALSE /\ y.respawn = x.respawn /\ y.dead = 0
      /\ y.idle = x.idle /\ y.points = x.points
    BY <1>1 DEF MonsterType
<1> HIDE DEF y
<1>5. SoundMonster(y)
    BY <1>3, <1>4 DEF SoundMonster
<1> QED BY <1>2, <1>5 DEF y

LEMMA HitIInv ==
    ASSUME IInv, NEW m \in Monsters, NEW d \in Blows, Hit(m, d)
    PROVE  IInv'
<1> DEFINE r == Head(copy)
           hp == IF mon[m].hp > d THEN mon[m].hp - d ELSE 0
<1>1. copy \in Seq(Requests) /\ copy # <<>> /\ game.at = "damage"
    BY DEF IInv, TypeOK, Hit
<1>2. r \in Requests /\ Tail(copy) \in Seq(Requests) /\ r.n > 0
    BY <1>1 DEF Hit
<1>3. copy' \in Seq(Requests)
    <2>1. PICK k \in {r.hit, r.hit \cup {m}} :
              copy' = <<[r EXCEPT !.n = r.n - 1, !.hit = k]>> \o Tail(copy)
        BY DEF Hit
    <2>2. r.n - 1 \in 0 .. MaxTargets /\ k \subseteq Monsters
        <3>1. MaxTargets \in Nat
            BY DungeonAssumption DEF DungeonAssumption
        <3> QED BY <1>2, <2>1, <3>1 DEF Requests
    <2> HIDE DEF r
    <2>3. [r EXCEPT !.n = r.n - 1, !.hit = k] \in Requests
        BY <1>2, <2>2 DEF Requests
    <2> QED BY <1>2, <2>1, <2>3
<1>4. r.by \in Characters
    BY <1>2 DEF Requests
<1> HIDE DEF r
<1>5. CASE Strikes(m, d)
    <2>1. Hurt(m, r.by, d) /\ mon[m].alive /\ SoundMonster(mon[m])
        BY <1>5 DEF Hit, Strikes, r, IInv
    <2>2. hp \in 0 .. MaxHp
        <3>1. mon[m].hp \in 0 .. MaxHp
            BY <2>1 DEF SoundMonster, MonsterType
        <3>2. d \in Nat
            BY DungeonAssumption DEF DungeonAssumption
        <3> QED BY <3>1, <3>2, Times
    <2>3. /\ \/ /\ mon' = [mon EXCEPT ![m].hp = hp]
             /\ UNCHANGED <<sends, funcs>>
          \/ /\ mon' = [mon EXCEPT ![m].hp = 0, ![m].alive = FALSE, ![m].dead = 0]
             /\ Post(Den, [kind |-> "die", monster |-> m])
             /\ \/ UNCHANGED funcs
                \/ funcs' = [funcs EXCEPT ![cm[r.by]] =
                                 Append(@, [op |-> "exp", c |-> r.by])]
        BY <2>1 DEF Hurt
    <2>a. excused' \in [Characters -> Nat]
        <3>1. excused \in [Characters -> Nat]
            BY DEF IInv, TypeOK
        <3>2. excused' = excused \/ excused' = [excused EXCEPT ![r.by] = @ + 1]
            BY <2>1 DEF Hurt, CountKill, killVars
        <3> QED BY <3>1, <3>2
    <2> HIDE DEF hp
    <2>4. mon' \in [Monsters -> MonsterType] /\ \A o \in Monsters : SoundMonster(mon'[o])
        <3>1. mon' \in {[mon EXCEPT ![m] = [@ EXCEPT !.hp = hp]],
                        [mon EXCEPT ![m] = [@ EXCEPT !.hp = 0, !.alive = FALSE, !.dead = 0]]}
            BY <2>3
        <3>2. /\ SoundMonster([mon[m] EXCEPT !.hp = hp])
              /\ SoundMonster([mon[m] EXCEPT !.hp = 0, !.alive = FALSE, !.dead = 0])
            BY <2>1, <2>2, HurtSound
        <3>3. PICK y : SoundMonster(y) /\ mon' = [mon EXCEPT ![m] = y]
            BY <3>1, <3>2
        <3>4. \A o \in Monsters : SoundMonster(mon'[o])
            BY <3>3 DEF IInv, TypeOK
        <3> QED BY <3>3, <3>4 DEF IInv, TypeOK, SoundMonster
    <2>5. sends' \in [Managers -> Seq(Messages)]
        <3>1. [kind |-> "die", monster |-> m] \in Messages /\ Den \in Managers
            BY DungeonAssumption DEF DungeonAssumption, Messages
        <3> QED BY <2>3, <3>1, PostType DEF IInv, TypeOK
    <2>6. funcs' \in [Managers -> Seq(Functions)]
        <3>1. [op |-> "exp", c |-> r.by] \in Functions
            BY <1>4 DEF Functions
        <3>2. CASE UNCHANGED funcs
            BY <3>2 DEF IInv, TypeOK
        <3>3. CASE funcs' = [funcs EXCEPT ![cm[r.by]] =
                                Append(@, [op |-> "exp", c |-> r.by])]
            BY <3>1, <3>3, GiveType DEF IInv
        <3> QED BY <2>3, <3>2, <3>3
    <2>7. TypeOK'
        BY <1>1, <1>3, <2>4, <2>5, <2>6, <2>a DEF Hit, IInv, TypeOK, moveVars, memberVars, killVars,
                                             hitVars, expVars
    <2> QED BY <2>4, <2>7 DEF Hit, IInv, Rows, expVars
<1>6. CASE ~Strikes(m, d)
    <2>1. TypeOK'
        BY <1>1, <1>3, <1>6 DEF Hit, IInv, TypeOK, moveVars, memberVars, killVars, hitVars, expVars
    <2> QED BY <1>6, <2>1 DEF Hit, IInv, Rows, expVars
<1> QED BY <1>5, <1>6

LEMMA TickIInv ==
    ASSUME IInv, NEW m \in Monsters, NEW near \in Nearest(Den), NEW n \in 0 .. MaxPoints,
           Tick(m, near, n)
    PROVE  IInv'
<1> DEFINE z == Tree(Pass(mon[m]), near, n)
<1>1. SoundMonster(z)
    BY NearestType, TreeSound DEF IInv
<1>2. mon' = [mon EXCEPT ![m] = z]
    BY DEF Tick
<1> HIDE DEF z
<1>3. \A o \in Monsters : SoundMonster(mon'[o])
    BY <1>1, <1>2 DEF IInv, TypeOK
<1>4. mon' \in [Monsters -> MonsterType]
    BY <1>1, <1>2 DEF IInv, TypeOK, SoundMonster
<1>5. sends' \in [Managers -> Seq(Messages)]
    <2>1. [kind |-> "respawn", monster |-> m] \in Messages /\ Den \in Managers
        BY DungeonAssumption DEF DungeonAssumption, Messages
    <2> QED BY <2>1, PostType DEF Tick, IInv, TypeOK
<1>6. TypeOK'
    <2>1. game' = [game EXCEPT !.todo = game.todo \ {m}] /\ game.at = "monsters"
        BY DEF Tick
    <2>2. /\ game' \in [at : {"channel", "manager", "functions", "damage", "monsters"},
                        turn : DOMAIN Order, todo : SUBSET Monsters]
          /\ game'.at = "monsters"
        BY <2>1 DEF IInv, TypeOK
    <2> QED BY <1>4, <1>5, <2>1, <2>2 DEF Tick, IInv, TypeOK, moveVars, memberVars, killVars,
                                           hitVars, expVars
<1> QED BY <1>3, <1>6 DEF Tick, IInv, Rows, expVars

-----------------------------------------------------------------------------
(* The theorems. *)

LEMMA NextIInv ==
    ASSUME IInv, [Next]_vars
    PROVE  IInv'
<1>1. CASE Client
    BY <1>1, ClientType, ElsewhereIInv DEF IInv
<1>2. CASE DrainChannel
    BY <1>2, DrainChannelType, ElsewhereIInv DEF IInv
<1>3. CASE DrainManager
    BY <1>3, DrainManagerType, ElsewhereIInv DEF IInv
<1>4. CASE AddCurrentExp
    BY <1>4, AddCurrentExpIInv
<1>5. CASE TellLevel
    BY <1>5, TellLevelType, ElsewhereIInv DEF IInv
<1>6. CASE LeaveManager
    BY <1>6, LeaveManagerType, ElsewhereIInv DEF IInv
<1>7. CASE \E m \in Monsters, d \in Blows : Hit(m, d)
    BY <1>7, HitIInv
<1>8. CASE EndDamage
    BY <1>8, EndDamageType, ElsewhereIInv DEF IInv
<1>9. CASE StartMonsters \/ EndMonsters
    BY <1>9, MonstersType, ElsewhereIInv DEF IInv
<1>10. CASE \E m \in Monsters, near \in Nearest(Den), n \in 0 .. MaxPoints :
                Tick(m, near, n)
    BY <1>10, TickIInv
<1>11. CASE UNCHANGED vars
    BY <1>11 DEF vars, moveVars, memberVars, killVars, hitVars, expVars, IInv, TypeOK,
                  Rows
<1> QED BY <1>1, <1>2, <1>3, <1>4, <1>5, <1>6, <1>7, <1>8, <1>9, <1>10, <1>11
        DEF Next, GameStep

\* The strengthened invariant holds in every reachable state.
THEOREM DungeonInvariance == Spec => []IInv
<1>1. IInv /\ [Next]_vars => IInv'
    BY NextIInv
<1> QED BY <1>1, InitIInv, PTL DEF Spec

\* The variables keep their types; the points of a path, the times and the turn
\* of the game thread stay in their bounds.
THEOREM DungeonTypeCorrect == Spec => []TypeOK
<1>1. IInv => TypeOK
    BY DEF IInv
<1> QED BY <1>1, DungeonInvariance, PTL

\* Only the behaviour tree brings a monster back, and only when it has been dead
\* for longer than respawnTime (Die, UpdateState, Respawn).
THEOREM DeadStayDead == Spec => StaysDead
<1> DEFINE Late(m) == ~mon[m].alive /\ mon'[m].alive => mon[m].dead > RespawnTime
<1>1. ASSUME IInv, [Next]_vars, NEW m \in Monsters
      PROVE  Late(m)
    <2>1. CASE UNCHANGED mon
        BY <2>1
    <2>2. ASSUME NEW o \in Monsters, NEW d \in Blows, Hit(o, d)
          PROVE  Late(m)
        <3>1. mon \in [Monsters -> MonsterType]
            BY <1>1 DEF IInv, TypeOK
        <3>2. CASE Strikes(o, d)
            BY <2>2, <3>1, <3>2 DEF Hit, Hurt, Strikes, MonsterType
        <3>3. CASE ~Strikes(o, d)
            BY <2>2, <3>3 DEF Hit
        <3> QED BY <3>2, <3>3
    <2>3. ASSUME NEW o \in Monsters, NEW near \in Nearest(Den), NEW n \in 0 .. MaxPoints,
                 Tick(o, near, n)
          PROVE  Late(m)
        <3> DEFINE z == Tree(Pass(mon[o]), near, n)
        <3>1. /\ mon \in [Monsters -> MonsterType]
              /\ SoundMonster(mon[o]) /\ near \in Looks
            BY <1>1, NearestType DEF IInv, TypeOK
        <3>2. ~mon[o].alive /\ z.alive => mon[o].respawn > RespawnTime
            BY <3>1, TreeSound
        <3>3. mon' = [mon EXCEPT ![o] = z]
            BY <2>3 DEF Tick
        <3> HIDE DEF z
        <3>4. ~mon[o].alive => /\ mon[o].respawn <= mon[o].dead
                              /\ mon[o].respawn \in Int /\ mon[o].dead \in Int
            BY <3>1 DEF SoundMonster, MonsterType
        <3> QED BY <3>1, <3>2, <3>3, <3>4, Times
    <2> QED BY <1>1, <2>1, <2>2, <2>3 DEF Next, Client, GameStep, PostDamage, Enter, Ask,
                Leave, DrainChannel, DrainManager, AddCurrentExp, TellLevel, LeaveManager,
                EndDamage, StartMonsters, EndMonsters, vars
<1>2. IInv /\ [Next]_vars => [\A m \in Monsters : Late(m)]_vars
    BY <1>1
<1> QED BY <1>2, DungeonInvariance, PTL DEF Spec, StaysDead

\* Whatever was seen of the members before, the decision to attack (UpdateState)
\* and its announcement (Attack) are about one who is there.
THEOREM AttacksAreOfMembers == Spec => AttacksMembers
<1> DEFINE Aims(m) == ~mon[m].attacking /\ mon'[m].attacking =>
                          mon'[m].target \in members[Den]
<1>1. ASSUME IInv, [Next]_vars, NEW m \in Monsters
      PROVE  Aims(m)
    <2>1. CASE UNCHANGED mon
        BY <2>1
    <2>2. ASSUME NEW o \in Monsters, NEW d \in Blows, Hit(o, d)
          PROVE  Aims(m)
        <3>1. mon \in [Monsters -> MonsterType]
            BY <1>1 DEF IInv, TypeOK
        <3>2. CASE Strikes(o, d)
            <4>1. \/ \E hp : mon' = [mon EXCEPT ![o].hp = hp]
                  \/ mon' = [mon EXCEPT ![o].hp = 0, ![o].alive = FALSE, ![o].dead = 0]
                BY <2>2, <3>2 DEF Hit, Hurt
            <4>2. mon'[m].attacking = mon[m].attacking
                BY <3>1, <4>1 DEF MonsterType
            <4> QED BY <4>2
        <3>3. CASE ~Strikes(o, d)
            BY <2>2, <3>3 DEF Hit
        <3> QED BY <3>2, <3>3
    <2>3. ASSUME NEW o \in Monsters, NEW near \in Nearest(Den), NEW n \in 0 .. MaxPoints,
                 Tick(o, near, n)
          PROVE  Aims(m)
        <3> DEFINE z == Tree(Pass(mon[o]), near, n)
        <3>1. /\ mon \in [Monsters -> MonsterType]
              /\ SoundMonster(mon[o]) /\ near \in Looks
            BY <1>1, NearestType DEF IInv, TypeOK
        <3>2. ~mon[o].attacking /\ z.attacking => near.zone = "reach" /\ z.target = near.c
            BY <3>1, TreeSound
        <3>3. mon' = [mon EXCEPT ![o] = z]
            BY <2>3 DEF Tick
        <3> HIDE DEF z
        <3>4. near.zone = "reach" => near.c \in members[Den]
            BY DEF Nearest
        <3> QED BY <3>1, <3>2, <3>3, <3>4
    <2> QED BY <1>1, <2>1, <2>2, <2>3 DEF Next, Client, GameStep, PostDamage, Enter, Ask,
                Leave, DrainChannel, DrainManager, AddCurrentExp, TellLevel, LeaveManager,
                EndDamage, StartMonsters, EndMonsters, vars
<1>2. IInv /\ [Next]_vars => [\A m \in Monsters : Aims(m)]_vars
    BY <1>1
<1> QED BY <1>2, DungeonInvariance, PTL DEF Spec, AttacksMembers

-----------------------------------------------------------------------------
(* What clients know of the monsters' health. *)

\* Set of indices, and the last.
LEMMA LastIndex ==
    ASSUME NEW n \in Nat, NEW I \in SUBSET (1 .. n), I # {}
    PROVE  Max(I) \in I /\ \A i \in I : i <= Max(I)
<1> DEFINE T == {j \in Nat : \E i \in I : i + j = n}
<1>1. T \subseteq Nat /\ T # {}
    <2>1. PICK i \in I : i \in 1 .. n
        OBVIOUS
    <2>2. n - i \in Nat /\ i + (n - i) = n
        BY <2>1
    <2>3. n - i \in T
        BY <2>2
    <2> QED BY <2>3
<1>2. PICK j \in T : \A l \in T : ~ (<<l, j>> \in OpToRel(<, Nat))
    <2> HIDE DEF T
    <2> QED BY <1>1, NatLessThanWellFounded, WFMin
<1>3. \A l \in T : ~ (l < j)
    BY <1>2 DEF OpToRel
<1>4. PICK k \in I : k + j = n /\ j \in Nat /\ k \in 1 .. n
    OBVIOUS
<1>5. ASSUME NEW i \in I PROVE k >= i
    <2>1. i \in 1 .. n /\ n - i \in Nat /\ i + (n - i) = n
        OBVIOUS
    <2>2. n - i \in T
        BY <2>1
    <2>3. ~ (n - i < j)
        BY <1>3, <2>2
    <2> QED BY <1>4, <2>1, <2>3
<1>6. \E x \in I : \A y \in I : x >= y
    BY <1>5
<1>7. Max(I) \in I /\ \A i \in I : Max(I) >= i
    BY <1>6 DEF Max
<1>8. \A i \in I : i \in Int
    OBVIOUS
<1> QED BY <1>7, <1>8

\* The last word on the health of m; none when s is silent about it.
Silent(s, m) == OfMonster(s, m) = {}
LastWord(s, m) == Health(s[Max(OfMonster(s, m))], m)

LEMMA ToldHealth ==
    ASSUME NEW v, NEW s, NEW m \in Monsters
    PROVE  Told(v, s).hp[m] = IF Silent(s, m) THEN v.hp[m] ELSE LastWord(s, m)
BY DEF Told, Silent, LastWord

LEMMA NothingSaid ==
    ASSUME NEW m
    PROVE  Silent(<<>>, m)
BY DEF Silent, OfMonster

\* One more message.
LEMMA SaidLast ==
    ASSUME NEW s \in Seq(Messages), NEW msg \in Messages, NEW m, OfHealth(msg, m)
    PROVE  /\ ~Silent(Append(s, msg), m)
           /\ LastWord(Append(s, msg), m) = Health(msg, m)
<1> DEFINE t == Append(s, msg)
<1>1. PICK n \in Nat : n = Len(s)
    OBVIOUS
<1>2. Len(t) = n + 1 /\ t[n + 1] = msg
    BY <1>1
<1> HIDE DEF t
<1>3. n + 1 \in OfMonster(t, m) /\ OfMonster(t, m) \subseteq 1 .. n + 1
    BY <1>2 DEF OfMonster
<1>4. /\ Max(OfMonster(t, m)) \in OfMonster(t, m)
      /\ \A i \in OfMonster(t, m) : i <= Max(OfMonster(t, m))
    <2>1. n + 1 \in Nat /\ OfMonster(t, m) # {}
        BY <1>3
    <2> QED BY <1>3, <2>1, LastIndex
<1>5. Max(OfMonster(t, m)) \in 1 .. n + 1 /\ n + 1 <= Max(OfMonster(t, m))
    BY <1>3, <1>4
<1>6. Max(OfMonster(t, m)) = n + 1
    BY <1>5
<1> QED BY <1>2, <1>3, <1>6 DEF Silent, LastWord, t

LEMMA SaidNothing ==
    ASSUME NEW s \in Seq(Messages), NEW msg \in Messages, NEW m, ~OfHealth(msg, m)
    PROVE  /\ Silent(Append(s, msg), m) <=> Silent(s, m)
           /\ ~Silent(s, m) => LastWord(Append(s, msg), m) = LastWord(s, m)
<1> DEFINE t == Append(s, msg)
<1>1. PICK n \in Nat : n = Len(s)
    OBVIOUS
<1>2. Len(t) = n + 1 /\ t[n + 1] = msg /\ \A i \in 1 .. n : t[i] = s[i]
    BY <1>1
<1> HIDE DEF t
<1>3. OfMonster(t, m) = OfMonster(s, m) /\ OfMonster(s, m) \subseteq 1 .. n
    BY <1>1, <1>2 DEF OfMonster
<1>4. ASSUME ~Silent(s, m) PROVE t[Max(OfMonster(s, m))] = s[Max(OfMonster(s, m))]
    <2>1. Max(OfMonster(s, m)) \in OfMonster(s, m)
        BY <1>3, <1>4, LastIndex DEF Silent
    <2> QED BY <1>2, <1>3, <2>1
<1> QED BY <1>3, <1>4 DEF Silent, LastWord, t

\* What waits in the mailbox of the dungeon's manager corrects whoever was told
\* otherwise, and where it is silent the members know; but for the monsters hit
\* by a request that is not yet worked off.
Unsettled(m) == game.at = "damage" /\ copy # <<>> /\ m \in Head(copy).hit
MailSettles ==
    \A m \in Monsters :
        Unsettled(m) \/ IF Silent(sends[Den], m)
                        THEN \A c \in Reached(Den) : seen[c].hp[m] = mon[m].hp
                        ELSE LastWord(sends[Den], m) = mon[m].hp
OthersSilent == \A g \in Managers \ {Den}, m \in Monsters : Silent(sends[g], m)
AliveHasHealth == \A m \in Monsters : mon[m].alive = (mon[m].hp > 0)
HealthInv == MailSettles /\ OthersSilent /\ AliveHasHealth

LEMMA HealthSettled ==
    ASSUME HealthInv
    PROVE  HealthSettles
<1> SUFFICES ASSUME NEW c \in Reached(Den), NEW m \in Monsters, ~Unsettled(m)
             PROVE  Coming(c, Den).hp[m] = mon[m].hp
    BY DEF HealthSettles, HealthInv, AliveHasHealth, Unsettled
<1>1. Coming(c, Den).hp[m] = IF Silent(sends[Den], m) THEN seen[c].hp[m]
                             ELSE LastWord(sends[Den], m)
    BY ToldHealth DEF Coming
<1> QED BY <1>1 DEF HealthInv, MailSettles

LEMMA Said ==
    ASSUME TypeOK, NEW g \in Managers, NEW msg \in Messages, Post(g, msg), NEW m
    PROVE  /\ \A h \in Managers : h # g => sends'[h] = sends[h]
           /\ ~OfHealth(msg, m)
                  => /\ Silent(sends'[g], m) <=> Silent(sends[g], m)
                     /\ ~Silent(sends[g], m)
                            => LastWord(sends'[g], m) = LastWord(sends[g], m)
           /\ OfHealth(msg, m)
                  => /\ ~Silent(sends'[g], m)
                     /\ LastWord(sends'[g], m) = Health(msg, m)
<1>1. sends \in [Managers -> Seq(Messages)] /\ sends[g] \in Seq(Messages)
    BY DEF TypeOK
<1>2. /\ \A h \in Managers : h # g => sends'[h] = sends[h]
      /\ sends'[g] = Append(sends[g], msg)
    BY <1>1 DEF Post
<1> QED BY <1>1, <1>2, SaidLast, SaidNothing

\* Nothing happens to a monster, and nothing is said of one.
LEMMA HealthKept ==
    ASSUME TypeOK, HealthInv, UNCHANGED <<mon, seen>>,
           \A m \in Monsters : Unsettled(m) => Unsettled(m)',
           Reached(Den)' \subseteq Reached(Den),
           \/ sends' = sends
           \/ \E g \in Managers, msg \in Messages :
                  Post(g, msg) /\ \A m \in Monsters : ~OfHealth(msg, m)
    PROVE  HealthInv'
<1>0. Den \in Managers
    BY DungeonAssumption DEF DungeonAssumption
<1>1. ASSUME NEW g \in Managers, NEW m \in Monsters
      PROVE  /\ Silent(sends'[g], m) <=> Silent(sends[g], m)
             /\ ~Silent(sends[g], m) => LastWord(sends'[g], m) = LastWord(sends[g], m)
    <2>1. ASSUME NEW h \in Managers, NEW msg \in Messages, Post(h, msg),
                 ~OfHealth(msg, m)
          PROVE  /\ Silent(sends'[g], m) <=> Silent(sends[g], m)
                 /\ ~Silent(sends[g], m) => LastWord(sends'[g], m) = LastWord(sends[g], m)
        BY <2>1, Said
    <2> QED BY <2>1
<1>2. MailSettles'
    BY <1>0, <1>1 DEF HealthInv, MailSettles
<1>3. OthersSilent'
    BY <1>1 DEF HealthInv, OthersSilent
<1>4. AliveHasHealth'
    BY DEF HealthInv, AliveHasHealth
<1> QED BY <1>2, <1>3, <1>4 DEF HealthInv

LEMMA HealthClient ==
    ASSUME TypeOK, HealthInv, Client
    PROVE  HealthInv'
<1>1. UNCHANGED <<mon, seen, sends, game, copy, members>>
    BY DEF Client, PostDamage, Enter, Ask, Leave, memberVars
<1>2. \A c \in Characters : at'[c] # None => at[c] # None
    BY DEF Client, PostDamage, Enter, Ask, Leave, Admitted, moveVars, TypeOK
<1>3. members[Den] \subseteq Characters
    BY DungeonAssumption DEF TypeOK, DungeonAssumption
<1>4. Reached(Den)' \subseteq Reached(Den)
    BY <1>1, <1>2, <1>3 DEF Reached
<1>5. \A m \in Monsters : Unsettled(m) => Unsettled(m)'
    BY <1>1 DEF Unsettled
<1> QED BY <1>1, <1>4, <1>5, HealthKept

LEMMA HealthDrainChannel ==
    ASSUME TypeOK, HealthInv, DrainChannel
    PROVE  HealthInv'
<1> DEFINE left == members[Here] \cap erases[Here]
           new == inserts[Here] \ (members[Here] \ left)
           all == (members[Here] \ left) \cup new
<1>0. Drained(Here) = all
    BY DEF Drained
<1>1. /\ UNCHANGED <<mon, sends, at>> /\ game.at = "channel"
      /\ members' = [members EXCEPT ![Here] = all]
      /\ \A c \in Characters : c \in new /\ at[c] # None /\ Here = Den
              => seen'[c].hp = [m \in Monsters |-> mon[m].hp]
      /\ \A c \in Characters : ~(c \in new /\ at[c] # None /\ Here = Den)
              => seen'[c].hp = seen[c].hp
    BY <1>0 DEF DrainChannel, Snapshot
<1>2. /\ members \in [Managers -> SUBSET Characters] /\ Den \in Managers
      /\ inserts[Here] \subseteq Characters /\ members[Here] \subseteq Characters
      /\ new \subseteq inserts[Here] /\ members[Here] \ left \subseteq members[Here]
    BY HereType, DungeonAssumption DEF TypeOK, DungeonAssumption
<1> HIDE DEF new, left
<1>3. ASSUME NEW c \in Reached(Den)', NEW m \in Monsters
      PROVE  \/ c \in Reached(Den) /\ seen'[c].hp[m] = seen[c].hp[m]
             \/ seen'[c].hp[m] = mon[m].hp
    <2>1. c \in members'[Den] /\ at[c] # None
        BY <1>1 DEF Reached
    <2>2. CASE Here # Den
        <3>1. c \in members[Den] /\ c \in Characters
            BY <1>1, <1>2, <2>1, <2>2
        <3>2. seen'[c].hp = seen[c].hp
            BY <1>1, <2>2, <3>1
        <3> QED BY <2>1, <3>1, <3>2 DEF Reached
    <2>3. CASE Here = Den /\ c \in new
        <3>1. c \in Characters
            BY <1>2, <2>3
        <3>2. seen'[c].hp = [o \in Monsters |-> mon[o].hp]
            BY <1>1, <2>1, <2>3, <3>1
        <3> QED BY <3>2
    <2>4. CASE Here = Den /\ c \notin new
        <3>1. c \in members[Den] /\ c \in Characters
            BY <1>1, <1>2, <2>1, <2>4
        <3>2. seen'[c].hp = seen[c].hp
            BY <1>1, <2>1, <2>4, <3>1
        <3> QED BY <2>1, <3>1, <3>2 DEF Reached
    <2> QED BY <2>2, <2>3, <2>4
<1>4. \A m : ~Unsettled(m)
    BY <1>1 DEF Unsettled
<1>5. MailSettles'
    BY <1>1, <1>3, <1>4 DEF HealthInv, MailSettles
<1> QED BY <1>1, <1>5 DEF HealthInv, OthersSilent, AliveHasHealth

LEMMA HealthDrainManager ==
    ASSUME TypeOK, HealthInv, DrainManager
    PROVE  HealthInv'
<1>1. /\ UNCHANGED <<mon, at, members>> /\ game.at = "manager"
      /\ seen' = [c \in Characters |-> IF c \in Reached(Here)
                                       THEN Told(seen[c], sends[Here]) ELSE seen[c]]
      /\ sends' = [sends EXCEPT ![Here] = <<>>]
    BY DEF DrainManager, moveVars, memberVars
<1>2. /\ sends \in [Managers -> Seq(Messages)] /\ Den \in Managers /\ Here \in Managers
      /\ members[Den] \subseteq Characters
    BY HereType, DungeonAssumption DEF TypeOK, DungeonAssumption
<1>3. /\ sends'[Here] = <<>>
      /\ \A g \in Managers : g # Here => sends'[g] = sends[g]
    BY <1>1, <1>2
<1>4. \A m : ~Unsettled(m)
    BY <1>1 DEF Unsettled
<1>5. Reached(Den)' = Reached(Den) /\ Reached(Den) \subseteq Characters
    BY <1>1, <1>2 DEF Reached
<1>6. ASSUME NEW m \in Monsters,  Here = Den, NEW c \in Reached(Den)
      PROVE  seen'[c].hp[m] = mon[m].hp
    <2>1. seen'[c] = Told(seen[c], sends[Den])
        BY <1>1, <1>5, <1>6
    <2>2. seen'[c].hp[m] = IF Silent(sends[Den], m) THEN seen[c].hp[m]
                           ELSE LastWord(sends[Den], m)
        BY <2>1, ToldHealth
    <2> QED BY <1>4, <1>6, <2>2 DEF HealthInv, MailSettles
<1>7. ASSUME NEW m \in Monsters, Here # Den, NEW c \in Reached(Den)
      PROVE  seen'[c].hp[m] = seen[c].hp[m]
    <2>1. \/ seen'[c] = seen[c]
          \/ seen'[c] = Told(seen[c], sends[Here])
        BY <1>1, <1>5, <1>7
    <2>2. Silent(sends[Here], m)
        BY <1>2, <1>7 DEF HealthInv, OthersSilent
    <2> QED BY <2>1, <2>2, ToldHealth
<1>8. MailSettles'
    <2>1. CASE Here = Den
        <3>1. \A m : Silent(sends'[Den], m)
            BY <1>3, <2>1, NothingSaid
        <3>2. mon' = mon
            BY <1>1
        <3> QED BY <1>5, <1>6, <2>1, <3>1, <3>2 DEF MailSettles
    <2>2. CASE Here # Den
        BY <1>1, <1>2, <1>3, <1>4, <1>5, <1>7, <2>2 DEF HealthInv, MailSettles
    <2> QED BY <2>1, <2>2
<1>9. OthersSilent'
    BY <1>3, NothingSaid DEF HealthInv, OthersSilent
<1> QED BY <1>1, <1>8, <1>9 DEF HealthInv, AliveHasHealth

LEMMA HealthHit ==
    ASSUME IInv, HealthInv, NEW m \in Monsters, NEW d \in Blows, Hit(m, d)
    PROVE  HealthInv'
<1> DEFINE r == Head(copy)
           hp == IF mon[m].hp > d THEN mon[m].hp - d ELSE 0
           K == IF Strikes(m, d) THEN r.hit \cup {m} ELSE r.hit
<1>1. copy \in Seq(Requests) /\ copy # <<>> /\ game.at = "damage" /\ TypeOK
    BY DEF IInv, TypeOK, Hit
<1>2. r \in Requests /\ Den \in Managers
    BY <1>1, DungeonAssumption DEF DungeonAssumption
<1>3. /\ copy' = <<[r EXCEPT !.n = r.n - 1, !.hit = K]>> \o Tail(copy)
      /\ game' = game /\ UNCHANGED <<seen, at, members>>
    BY DEF Hit, moveVars, memberVars
<1>4. \A o : Unsettled(o)' <=> o \in K
    <2>1. [r EXCEPT !.n = r.n - 1, !.hit = K].hit = K
        BY <1>2 DEF Requests
    <2>2. Tail(copy) \in Seq(Requests)
        BY <1>1
    <2> HIDE DEF r, K
    <2>3. copy' # <<>> /\ Head(copy') = [r EXCEPT !.n = r.n - 1, !.hit = K]
        BY <1>3, <2>2
    <2> QED BY <1>1, <1>3, <2>1, <2>3 DEF Unsettled
<1>5. \A o : Unsettled(o) <=> o \in r.hit
    BY <1>1 DEF Unsettled
<1>6. Reached(Den)' = Reached(Den)
    BY <1>3 DEF Reached
<1> HIDE DEF r
<1>7. CASE ~Strikes(m, d)
    <2>1. UNCHANGED <<mon, sends>>
        BY <1>7 DEF Hit
    <2> QED BY <1>1, <1>3, <1>4, <1>5, <1>6, <1>7, <2>1, HealthKept
<1>8. CASE Strikes(m, d)
    <2>1. mon \in [Monsters -> MonsterType] /\ mon[m].alive
        BY <1>8 DEF IInv, TypeOK, Strikes
    <2>2. /\ \/ hp > 0 /\ mon' = [mon EXCEPT ![m].hp = hp] /\ sends' = sends
             \/ /\ mon' = [mon EXCEPT ![m].hp = 0, ![m].alive = FALSE, ![m].dead = 0]
                /\ Post(Den, [kind |-> "die", monster |-> m])
        BY <1>8 DEF Hit, Hurt
    <2> HIDE DEF hp
    <2>3. \A o \in Monsters : o # m => mon'[o] = mon[o]
        BY <2>1, <2>2
    <2>4. AliveHasHealth'
        <3>1. mon'[m].alive = (mon'[m].hp > 0)
            BY <2>1, <2>2 DEF MonsterType
        <3> QED BY <2>3, <3>1 DEF HealthInv, AliveHasHealth
    <2>5. ASSUME NEW g \in Managers, NEW o \in Monsters, o # m \/ g # Den
          PROVE  /\ Silent(sends'[g], o) <=> Silent(sends[g], o)
                 /\ ~Silent(sends[g], o) => LastWord(sends'[g], o) = LastWord(sends[g], o)
        <3>1. CASE sends' = sends
            BY <3>1
        <3>2. CASE Post(Den, [kind |-> "die", monster |-> m])
            <4>1. [kind |-> "die", monster |-> m] \in Messages
                BY DEF Messages
            <4>2. o # m => ~OfHealth([kind |-> "die", monster |-> m], o)
                BY DEF OfHealth
            <4> QED BY <1>1, <1>2, <2>5, <3>2, <4>1, <4>2, Said
        <3> QED BY <2>2, <3>1, <3>2
    <2>6. MailSettles'
        BY <1>2, <1>3, <1>4, <1>5, <1>6, <1>8, <2>3, <2>5 DEF HealthInv, MailSettles
    <2>7. OthersSilent'
        BY <2>5 DEF HealthInv, OthersSilent
    <2> QED BY <2>4, <2>6, <2>7 DEF HealthInv
<1> QED BY <1>7, <1>8

LEMMA HealthEndDamage ==
    ASSUME TypeOK, HealthInv, EndDamage
    PROVE  HealthInv'
<1> DEFINE hit == Head(copy).hit
           msg == [kind |-> "damage", hp |-> [m \in hit |-> mon[m].hp]]
<1>1. /\ copy \in Seq(Requests) /\ copy # <<>> /\ game.at = "damage"
      /\ Den \in Managers
    BY DungeonAssumption DEF DungeonAssumption, TypeOK, EndDamage
<1>2. hit \subseteq Monsters
    <2>1. Head(copy) \in Requests
        BY <1>1
    <2> QED BY <2>1 DEF Requests
<1>3. /\ UNCHANGED <<mon, seen, at, members>>
      /\ IF hit = {} THEN sends' = sends ELSE Post(Den, msg)
    BY DEF EndDamage, moveVars, memberVars
<1>4. \A m : Unsettled(m) <=> m \in hit
    BY <1>1 DEF Unsettled
<1> HIDE DEF hit
<1>5. Reached(Den)' = Reached(Den)
    BY <1>3 DEF Reached
<1>6. CASE hit = {}
    <2>1. \A m : ~Unsettled(m)
        BY <1>4, <1>6
    <2> QED BY <1>3, <1>5, <1>6, <2>1, HealthKept
<1>7. CASE hit # {}
    <2>1. msg \in Messages
        <3>1. [m \in hit |-> mon[m].hp] \in [hit -> 0 .. MaxHp]
            BY <1>2 DEF TypeOK, MonsterType
        <3>2. msg \in [kind : {"damage"}, hp : [hit -> 0 .. MaxHp]]
            BY <3>1
        <3> QED BY <1>2, <3>2 DEF Messages
    <2>2. \A m : OfHealth(msg, m) <=> m \in hit
        BY DEF OfHealth
    <2>3. \A m \in hit : Health(msg, m) = mon[m].hp
        BY DEF Health
    <2>4. Post(Den, msg)
        BY <1>3, <1>7
    <2> HIDE DEF msg
    <2>5. ASSUME NEW m \in Monsters
          PROVE  IF m \in hit
                 THEN ~Silent(sends'[Den], m) /\ LastWord(sends'[Den], m) = mon[m].hp
                 ELSE /\ Silent(sends'[Den], m) <=> Silent(sends[Den], m)
                      /\ ~Silent(sends[Den], m)
                            => LastWord(sends'[Den], m) = LastWord(sends[Den], m)
        BY <1>1, <2>1, <2>2, <2>3, <2>4, Said
    <2>6. MailSettles'
        BY <1>3, <1>4, <1>5, <2>5 DEF HealthInv, MailSettles
    <2>7. OthersSilent'
        <3>1. \A g \in Managers : g # Den => sends'[g] = sends[g]
            BY <1>1, <2>1, <2>4, Said
        <3> QED BY <3>1 DEF HealthInv, OthersSilent
    <2> QED BY <1>3, <2>6, <2>7 DEF HealthInv, AliveHasHealth
<1> QED BY <1>6, <1>7

LEMMA HealthTick ==
    ASSUME IInv, HealthInv, NEW m \in Monsters, NEW near \in Nearest(Den),
           NEW n \in 0 .. MaxPoints, Tick(m, near, n)
    PROVE  HealthInv'
<1> DEFINE z == Tree(Pass(mon[m]), near, n)
           msg == [kind |-> "respawn", monster |-> m]
<1>1. /\ SoundMonster(mon[m]) /\ TypeOK /\ Den \in Managers
      /\ mon \in [Monsters -> MonsterType]
    BY DungeonAssumption DEF DungeonAssumption, IInv, TypeOK
<1>2. /\ SoundMonster(z)
      /\ mon[m].alive => z.alive
      /\ IF mon[m].alive \/ ~z.alive THEN z.hp = mon[m].hp ELSE z.hp = MaxHp
    BY <1>1, NearestType, TreeSound
<1>3. /\ mon' = [mon EXCEPT ![m] = z] /\ game.at = "monsters"
      /\ game' = [game EXCEPT !.todo = @ \ {m}]
      /\ UNCHANGED <<seen, at, members>>
      /\ IF mon'[m].alive /\ ~mon[m].alive THEN Post(Den, msg) ELSE sends' = sends
    BY DEF Tick, moveVars, memberVars
<1> HIDE DEF z
<1>4. mon'[m] = z /\ \A o \in Monsters : o # m => mon'[o] = mon[o]
    BY <1>1, <1>3
<1>5. Reached(Den)' = Reached(Den) /\ \A o : ~Unsettled(o)
    BY <1>3 DEF Reached, Unsettled
<1>6. z.alive \in BOOLEAN /\ mon[m].alive \in BOOLEAN
    BY <1>1, <1>2 DEF SoundMonster, MonsterType
<1>7. CASE ~(z.alive /\ ~mon[m].alive)
    <2>1. z.hp = mon[m].hp /\ z.alive = mon[m].alive /\ sends' = sends
        BY <1>2, <1>3, <1>4, <1>6, <1>7
    <2>2. \A o \in Monsters : mon'[o].hp = mon[o].hp /\ mon'[o].alive = mon[o].alive
        BY <1>4, <2>1
    <2>3. MailSettles'
        BY <1>3, <1>5, <2>1, <2>2 DEF HealthInv, MailSettles
    <2> QED BY <2>1, <2>2, <2>3 DEF HealthInv, OthersSilent, AliveHasHealth
<1>8. CASE z.alive /\ ~mon[m].alive
    <2>1. msg \in Messages /\ Post(Den, msg)
        BY <1>3, <1>4, <1>8 DEF Messages
    <2>2. /\ \A o : OfHealth(msg, o) <=> o = m
          /\ Health(msg, m) = MaxHp
        BY DEF OfHealth, Health
    <2>3. z.hp = MaxHp
        BY <1>2, <1>8
    <2> HIDE DEF msg
    <2>4. ASSUME NEW o \in Monsters
          PROVE  IF o = m
                 THEN ~Silent(sends'[Den], o) /\ LastWord(sends'[Den], o) = mon'[o].hp
                 ELSE /\ Silent(sends'[Den], o) <=> Silent(sends[Den], o)
                      /\ ~Silent(sends[Den], o)
                            => LastWord(sends'[Den], o) = LastWord(sends[Den], o)
        BY <1>1, <1>4, <2>1, <2>2, <2>3, Said
    <2>5. MailSettles'
        BY <1>3, <1>4, <1>5, <2>4 DEF HealthInv, MailSettles
    <2>6. OthersSilent'
        <3>1. \A g \in Managers : g # Den => sends'[g] = sends[g]
            BY <1>1, <2>1, Said
        <3> QED BY <3>1 DEF HealthInv, OthersSilent
    <2>7. AliveHasHealth'
        <3>1. mon'[m].alive = (mon'[m].hp > 0)
            <4>1. mon'[m].alive = TRUE
                BY <1>4, <1>6, <1>8
            <4>2. mon'[m].hp > 0
                BY <1>4, <2>3, Times
            <4> QED BY <4>1, <4>2
        <3> QED BY <1>4, <3>1 DEF HealthInv, AliveHasHealth
    <2> QED BY <2>5, <2>6, <2>7 DEF HealthInv
<1> QED BY <1>7, <1>8

LEMMA HealthStep ==
    ASSUME IInv, HealthInv, [Next]_vars
    PROVE  HealthInv'
<1>0. TypeOK
    BY DEF IInv
<1>1. ASSUME \/ AddCurrentExp \/ TellLevel \/ LeaveManager \/ StartMonsters
             \/ EndMonsters \/ UNCHANGED vars
      PROVE  HealthInv'
    <2>1. UNCHANGED <<mon, seen, at, members>>
        BY <1>1 DEF AddCurrentExp, TellLevel, LeaveManager, StartMonsters, EndMonsters,
                    vars, moveVars, memberVars
    <2>2. \A m : Unsettled(m) => Unsettled(m)'
        BY <1>1 DEF Unsettled, AddCurrentExp, TellLevel, LeaveManager, StartMonsters,
                    EndMonsters, vars
    <2>3. Reached(Den)' = Reached(Den)
        BY <2>1 DEF Reached
    <2>4. CASE sends' = sends
        BY <1>0, <2>1, <2>2, <2>3, <2>4, HealthKept
    <2>5. CASE TellLevel
        <3> DEFINE c == Head(copy).c
                   msg == [kind |-> "level", who |-> c, level |-> level[c]]
        <3>1. c \in Characters
            <4>1. copy \in Seq(Functions) /\ copy # <<>>
                BY <1>0, <2>5 DEF TypeOK, TellLevel
            <4>2. Head(copy) \in Functions
                BY <4>1
            <4> QED BY <4>2 DEF Functions
        <3>2. msg \in Messages
            BY <1>0, <3>1 DEF Messages, TypeOK
        <3>3. Post(Here, msg) /\ \A m \in Monsters : ~OfHealth(msg, m)
            BY <2>5 DEF TellLevel, LevelTold, OfHealth
        <3>4. Here \in Managers
            BY <1>0, HereType
        <3> HIDE DEF msg
        <3> QED BY <1>0, <2>1, <2>2, <2>3, <3>2, <3>3, <3>4, HealthKept
    <2> QED BY <1>1, <2>4, <2>5 DEF AddCurrentExp, LeaveManager, StartMonsters,
                EndMonsters, vars
<1> QED BY <1>0, <1>1, HealthClient, HealthDrainChannel, HealthDrainManager, HealthHit,
           HealthEndDamage, HealthTick DEF Next, GameStep

LEMMA InitHealth == Init => HealthInv
<1> SUFFICES ASSUME Init PROVE HealthInv
    OBVIOUS
<1>1. Den \in Managers /\ MaxHp > 0
    BY DungeonAssumption, Times DEF DungeonAssumption
<1>2. \A m \in Monsters : mon[m].hp = MaxHp /\ mon[m].alive = TRUE
    BY DEF Init, Spawned
<1>3. Reached(Den) = {}
    BY <1>1 DEF Init, Reached
<1>4. PICK s \in SetToSeqs(Monsters) :
          sends = [g \in Managers |-> IF g # Den THEN <<>>
                     ELSE [i \in DOMAIN s |-> [kind |-> "respawn", monster |-> s[i]]]]
    BY DEF Init
<1>5. ASSUME NEW g \in Managers \ {Den}, NEW m PROVE Silent(sends[g], m)
    BY <1>4, NothingSaid
<1>6. ASSUME NEW m, ~Silent(sends[Den], m)
      PROVE  LastWord(sends[Den], m) = MaxHp
    <2> DEFINE i == Max(OfMonster(sends[Den], m))
    <2>1. PICK n \in Nat : s \in [1 .. n -> Monsters]
        BY <1>4, DungeonAssumption, FS_CardinalityType DEF DungeonAssumption, SetToSeqs
    <2>2. sends[Den] = [j \in 1 .. n |-> [kind |-> "respawn", monster |-> s[j]]]
        BY <1>1, <1>4, <2>1
    <2>3. Len(sends[Den]) = n
        BY <2>2
    <2>4. i \in 1 .. n
        <3>1. OfMonster(sends[Den], m) \subseteq 1 .. n /\ OfMonster(sends[Den], m) # {}
            BY <1>6, <2>3 DEF OfMonster, Silent
        <3>2. i \in OfMonster(sends[Den], m)
            BY <3>1, LastIndex
        <3> QED BY <3>1, <3>2
    <2> HIDE DEF i
    <2>5. sends[Den][i].kind = "respawn"
        BY <2>2, <2>4
    <2> QED BY <2>5 DEF LastWord, Health, i
<1> QED BY <1>1, <1>2, <1>3, <1>5, <1>6 DEF HealthInv, MailSettles, OthersSilent,
           AliveHasHealth

\* A client ends up with the health that the monsters have, whenever it came in and
\* whatever was under way then (InsertCharacter, SendAllCharacter, Dead, Respawn);
\* for any number of clients, channels, monsters and blows.
THEOREM ClientsCatchUp == Spec => []HealthSettles
<1>1. IInv /\ HealthInv /\ [Next]_vars => HealthInv'
    BY HealthStep
<1>2. HealthInv => HealthSettles
    BY HealthSettled
<1> QED BY InitHealth, DungeonInvariance, <1>1, <1>2, PTL DEF Spec

-----------------------------------------------------------------------------
(* What finite unions and rows of pairs add up to. *)

LEMMA FiniteUnion ==
    ASSUME NEW n \in Nat, NEW f, \A i \in 1 .. n : IsFiniteSet(f[i])
    PROVE  IsFiniteSet(UNION {f[i] : i \in 1 .. n})
<1> DEFINE T == {f[i] : i \in 1 .. n}
           h == [i \in 1 .. n |-> f[i]]
<1>1. h \in Surjection(1 .. n, T)
    BY DEF Surjection
<1>2. IsFiniteSet(1 .. n)
    <2>1. 1 \in Int /\ n \in Int
        OBVIOUS
    <2> QED BY <2>1, FS_Interval
<1> HIDE DEF h
<1>3. IsFiniteSet(T)
    BY <1>1, <1>2, FS_Surjection
<1>4. \A S \in T : IsFiniteSet(S)
    OBVIOUS
<1> HIDE DEF T
<1>5. IsFiniteSet(UNION T)
    BY <1>3, <1>4, FS_UNION
<1> QED BY <1>5 DEF T

\* A row of pairs.
LEMMA RowSize ==
    ASSUME NEW g, NEW S, IsFiniteSet(S)
    PROVE  /\ IsFiniteSet({g} \X S)
           /\ Cardinality({g} \X S) = Cardinality(S)
<1>1. IsFiniteSet({g}) /\ Cardinality({g}) = 1
    BY FS_Singleton
<1>2. IsFiniteSet({g} \X S) /\ Cardinality({g} \X S) = 1 * Cardinality(S)
    BY <1>1, FS_Product
<1>3. Cardinality(S) \in Nat
    BY FS_CardinalityType
<1> QED BY <1>2, <1>3

LEMMA Disjoint ==
    ASSUME NEW S, IsFiniteSet(S), NEW T, IsFiniteSet(T), S \cap T = {}
    PROVE  /\ IsFiniteSet(S \cup T)
           /\ Cardinality(S \cup T) = Cardinality(S) + Cardinality(T)
<1>1. /\ IsFiniteSet(S \cup T)
      /\ Cardinality(S \cup T) = Cardinality(S) + Cardinality(T) - Cardinality(S \cap T)
    BY FS_Union
<1>2. Cardinality(S \cap T) = 0
    BY FS_EmptySet
<1>3. Cardinality(S) \in Nat /\ Cardinality(T) \in Nat
    BY FS_CardinalityType
<1> QED BY <1>1, <1>2, <1>3

\* What the levels require adds up.
LEMMA SpentType ==
    ASSUME NEW l \in Nat \ {0}, l - 1 <= Len(Table)
    PROVE  /\ IsFiniteSet(UNION {{k} \X (1 .. Table[k]) : k \in 1 .. l - 1})
           /\ Spent(l) \in Nat
<1> DEFINE n == l - 1
           f == [k \in 1 .. n |-> {k} \X (1 .. Table[k])]
<1>1. n \in Nat /\ \A k \in 1 .. n : Table[k] \in Nat
    BY TableType
<1>2. ASSUME NEW k \in 1 .. n PROVE IsFiniteSet(f[k])
    <2>1. Table[k] \in Int /\ 1 \in Int
        BY <1>1, <1>2
    <2>2. IsFiniteSet(1 .. Table[k])
        BY <2>1, FS_Interval
    <2>3. IsFiniteSet({k} \X (1 .. Table[k]))
        BY <2>2, RowSize
    <2>4. f[k] = {k} \X (1 .. Table[k])
        BY <1>2
    <2> QED BY <2>3, <2>4
<1>3. UNION {f[k] : k \in 1 .. n} = UNION {{k} \X (1 .. Table[k]) : k \in 1 .. l - 1}
    OBVIOUS
<1>4. IsFiniteSet(UNION {f[k] : k \in 1 .. n})
    <2> HIDE DEF f, n
    <2> QED BY <1>1, <1>2, FiniteUnion
<1> QED BY <1>3, <1>4, FS_CardinalityType DEF Spent

LEMMA SpentMore ==
    ASSUME NEW l \in DOMAIN Table
    PROVE  Spent(l + 1) = Spent(l) + Table[l]
<1> DEFINE A(n) == UNION {{k} \X (1 .. Table[k]) : k \in 1 .. n - 1}
           R == {l} \X (1 .. Table[l])
<1>1. l \in Nat \ {0} /\ l <= Len(Table) /\ Table[l] \in Nat
    BY TableType
<1>2. A(l + 1) = A(l) \cup R
    <2>1. 1 .. (l + 1) - 1 = (1 .. l - 1) \cup {l}
        BY <1>1
    <2> QED BY <2>1
<1>3. A(l) \cap R = {}
    <2>1. \A p \in A(l) : p[1] \in 1 .. l - 1
        OBVIOUS
    <2>2. \A p \in R : p[1] = l
        OBVIOUS
    <2> QED BY <1>1, <2>1, <2>2
<1>4. IsFiniteSet(A(l))
    <2>1. l \in Nat \ {0} /\ l - 1 <= Len(Table)
        BY <1>1, TableType
    <2> QED BY <2>1, SpentType
<1>5. IsFiniteSet(R) /\ Cardinality(R) = Table[l]
    <2>1. IsFiniteSet(1 .. Table[l]) /\ Cardinality(1 .. Table[l]) = Table[l]
        BY <1>1, FS_Interval
    <2> QED BY <2>1, RowSize
<1>6. Spent(l + 1) = Cardinality(A(l + 1)) /\ Spent(l) = Cardinality(A(l))
    BY DEF Spent
<1> HIDE DEF A, R
<1> QED BY <1>2, <1>3, <1>4, <1>5, <1>6, Disjoint

-----------------------------------------------------------------------------
(* Levels keep up. *)

\* What c may have ahead of a level l.
Row(c, k) ==
    IF k = Saved[c].level THEN Table[k] .. Saved[c].exp ELSE Table[k] + 1 .. Exp
AheadOf(c, l) == UNION {{k} \X Row(c, k) : k \in Saved[c].level .. l}

LEMMA RowFinite ==
    ASSUME NEW c \in Characters, NEW k \in DOMAIN Table
    PROVE  IsFiniteSet(Row(c, k))
<1>1. Table[k] \in Int /\ Table[k] + 1 \in Int /\ Saved[c].exp \in Int /\ Exp \in Int
    BY TableType
<1> QED BY <1>1, FS_Interval DEF Row

LEMMA AheadFinite ==
    ASSUME NEW c \in Characters, NEW l \in DOMAIN Table, Saved[c].level <= l
    PROVE  IsFiniteSet(AheadOf(c, l)) /\ Cardinality(AheadOf(c, l)) \in Nat
<1>1. PICK s \in Nat \ {0} : s = Saved[c].level
    BY TableType
<1> DEFINE n == l - s + 1
           f == [i \in 1 .. n |-> {s + i - 1} \X Row(c, s + i - 1)]
<1>2. l \in Nat \ {0} /\ s <= l /\ n \in Nat /\ l <= Len(Table) /\ Len(Table) \in Nat
    BY <1>1, TableType
<1>3. ASSUME NEW i \in 1 .. n PROVE IsFiniteSet(f[i])
    <2>1. s + i - 1 \in DOMAIN Table
        <3>1. DOMAIN Table = 1 .. Len(Table)
            BY TableType
        <3>2. i \in Nat /\ 1 <= i /\ i <= l - s + 1
            <4>1. PICK j \in Nat : j = n
                BY <1>2
            <4>2. i \in 1 .. j
                BY <4>1
            <4>3. i \in Nat /\ 1 <= i /\ i <= j
                BY <4>1, <4>2
            <4> QED BY <4>1, <4>3
        <3>3. \A a, b, d, e \in Int : /\ 1 <= a /\ a <= d - b + 1
                                      /\ 1 <= b /\ b <= d /\ d <= e
                                      => b + a - 1 \in 1 .. e
            OBVIOUS
        <3>4. i \in Int /\ s \in Int /\ l \in Int /\ Len(Table) \in Int /\ 1 <= s
            BY <1>1, <1>2, <3>2
        <3>5. s + i - 1 \in 1 .. Len(Table)
            BY <1>2, <3>2, <3>3, <3>4
        <3> QED BY <3>1, <3>5
    <2>2. IsFiniteSet({s + i - 1} \X Row(c, s + i - 1))
        BY <2>1, RowFinite, RowSize
    <2>3. f[i] = {s + i - 1} \X Row(c, s + i - 1)
        BY <1>3
    <2> QED BY <2>2, <2>3
<1>4. AheadOf(c, l) = UNION {f[i] : i \in 1 .. n}
    <2>1. \A k \in s .. l : k - s + 1 \in 1 .. n /\ s + (k - s + 1) - 1 = k
        BY <1>2
    <2>2. \A i \in 1 .. n : s + i - 1 \in s .. l
        BY <1>2
    <2>3. \A k \in s .. l : {k} \X Row(c, k) = f[k - s + 1]
        BY <2>1
    <2>4. \A i \in 1 .. n : f[i] = {s + i - 1} \X Row(c, s + i - 1)
        OBVIOUS
    <2> HIDE DEF f, n
    <2>5. {{k} \X Row(c, k) : k \in s .. l} = {f[i] : i \in 1 .. n}
        BY <2>1, <2>2, <2>3, <2>4
    <2> QED BY <1>1, <2>5 DEF AheadOf
<1>5. IsFiniteSet(UNION {f[i] : i \in 1 .. n})
    <2> HIDE DEF f, n
    <2> QED BY <1>2, <1>3, FiniteUnion
<1> QED BY <1>4, <1>5, FS_CardinalityType

\* One more level adds what a kill is worth more than it requires.
LEMMA AheadMore ==
    ASSUME NEW c \in Characters, NEW l \in Nat, l + 1 \in DOMAIN Table,
           Saved[c].level <= l
    PROVE  Cardinality(AheadOf(c, l + 1))
               >= Cardinality(AheadOf(c, l)) + Exp - Table[l + 1]
<1>1. PICK s \in Nat \ {0} : s = Saved[c].level
    BY TableType
<1>2. l \in DOMAIN Table /\ s <= l /\ l + 1 # s
    BY <1>1, TableType
<1>3. PICK t \in Nat : t = Table[l + 1]
    BY TableType
<1> DEFINE A == AheadOf(c, l)
           S == t + 1 .. Exp
           R == {l + 1} \X S
<1>4. AheadOf(c, l + 1) = A \cup R
    <2>1. s .. l + 1 = (s .. l) \cup {l + 1}
        BY <1>2
    <2>2. Row(c, l + 1) = S
        BY <1>1, <1>2, <1>3 DEF Row
    <2> HIDE DEF S
    <2> QED BY <1>1, <2>1, <2>2 DEF AheadOf
<1>5. A \cap R = {}
    <2>1. \A p \in A : p[1] \in s .. l
        BY <1>1 DEF AheadOf
    <2>2. \A p \in R : p[1] = l + 1
        OBVIOUS
    <2> QED BY <2>1, <2>2
<1>6. IsFiniteSet(A) /\ Cardinality(A) \in Nat
    BY <1>1, <1>2, AheadFinite
<1>7. IsFiniteSet(S) /\ Cardinality(S) \in Nat /\ Cardinality(S) >= Exp - t
    <2>1. t + 1 \in Int /\ Exp \in Int
        BY <1>3, TableType
    <2>2. /\ IsFiniteSet(S)
          /\ Cardinality(S) = IF t + 1 > Exp THEN 0 ELSE Exp - (t + 1) + 1
        BY <2>1, FS_Interval
    <2> QED BY <1>3, <2>1, <2>2
<1>8. IsFiniteSet(R) /\ Cardinality(R) = Cardinality(S)
    <2> HIDE DEF S
    <2> QED BY <1>7, RowSize
<1> HIDE DEF A, R, S
<1>9. Cardinality(A \cup R) = Cardinality(A) + Cardinality(S)
    BY <1>5, <1>6, <1>8, Disjoint
<1>10. Cardinality(A) + Cardinality(S) >= Cardinality(A) + Exp - t
    BY <1>3, <1>6, <1>7, TableType
<1>11. Cardinality(AheadOf(c, l + 1)) >= Cardinality(A) + Exp - Table[l + 1]
    BY <1>3, <1>4, <1>9, <1>10
<1> QED BY <1>11 DEF A

LEMMA AheadIs == \A c : Ahead(c) = AheadOf(c, level[c]) /\ Ahead(c)' = AheadOf(c, level'[c])
BY DEF Ahead, AheadOf, Row

KeepsUp ==
    \A c \in Characters :
        level[c] \in DOMAIN Table => exp[c] < req[c] + Cardinality(Ahead(c))

LEMMA KeepsUpStep ==
    ASSUME IInv, KeepsUp, [Next]_vars
    PROVE  KeepsUp'
<1>0. /\ level \in [Characters -> Nat \ {0}] /\ exp \in [Characters -> Int]
      /\ req \in [Characters -> Int] /\ Exp \in Nat
    BY TableType DEF IInv, TypeOK
<1>1. CASE UNCHANGED <<level, exp, req>>
    BY <1>1, AheadIs DEF KeepsUp
<1>2. CASE AddCurrentExp
    <2>1. PICK c : \/ Enough(c) /\ LevelUp(c)
                   \/ /\ ~Enough(c) /\ exp' = [exp EXCEPT ![c] = @ + Exp]
                      /\ UNCHANGED <<level, req>>
        BY <1>2 DEF AddCurrentExp
    <2> SUFFICES ASSUME NEW d \in Characters, level'[d] \in DOMAIN Table
                 PROVE  exp'[d] < req'[d] + Cardinality(Ahead(d)')
        BY DEF KeepsUp
    <2>2. CASE d # c
        <3>1. level'[d] = level[d] /\ exp'[d] = exp[d] /\ req'[d] = req[d]
            BY <1>0, <2>1, <2>2 DEF LevelUp
        <3> QED BY <3>1, AheadIs DEF KeepsUp
    <2>3. level[d] >= Saved[d].level /\ Saved[d].level \in Nat
        BY TableType DEF IInv, Rows
    <2>4. CASE d = c /\ ~Enough(c)
        <3>1. level'[d] = level[d] /\ req'[d] = req[d] /\ exp'[d] = exp[d] + Exp
            BY <1>0, <2>1, <2>4
        <3>2. exp[d] + Exp < req[d]
            BY <1>0, <2>4 DEF Enough
        <3>3. Cardinality(AheadOf(d, level[d])) \in Nat
            BY <1>0, <2>3, <3>1, AheadFinite
        <3> QED BY <1>0, <3>1, <3>2, <3>3, AheadIs
    <2>5. CASE d = c /\ Enough(c)
        <3>1. PICK q \in Required(level[d] + 1) :
                  /\ level'[d] = level[d] + 1 /\ req'[d] = q
                  /\ exp'[d] = exp[d] + Exp - req[d]
            BY <1>0, <2>1, <2>5 DEF LevelUp
        <3>2. level[d] + 1 \in DOMAIN Table /\ level[d] \in DOMAIN Table
            BY <1>0, <3>1, TableType
        <3>3. q = Table[level[d] + 1] /\ q \in Nat
            BY <3>1, <3>2, TableType DEF Required
        <3>4. exp[d] < req[d] + Cardinality(AheadOf(d, level[d]))
            BY <3>2, AheadIs DEF KeepsUp
        <3>5. /\ Cardinality(AheadOf(d, level[d])) \in Nat
              /\ Cardinality(AheadOf(d, level[d] + 1)) \in Nat
            BY <1>0, <2>3, <3>2, AheadFinite
        <3>6. Cardinality(AheadOf(d, level[d] + 1))
                  >= Cardinality(AheadOf(d, level[d])) + Exp - q
            BY <1>0, <2>3, <3>2, <3>3, AheadMore
        <3>7. Cardinality(Ahead(d)') = Cardinality(AheadOf(d, level[d] + 1))
            BY <3>1, AheadIs
        <3>8. exp[d] \in Int /\ req[d] \in Int
            BY <1>0
        <3> DEFINE a == Cardinality(AheadOf(d, level[d]))
                   b == Cardinality(AheadOf(d, level[d] + 1))
        <3>9. /\ a \in Int /\ b \in Int /\ exp[d] < req[d] + a /\ b >= a + Exp - q
              /\ Cardinality(Ahead(d)') = b
            BY <3>4, <3>5, <3>6, <3>7
        <3> HIDE DEF a, b
        <3>10. exp[d] + Exp - req[d] < q + b
            BY <1>0, <3>3, <3>8, <3>9
        <3> QED BY <3>1, <3>9, <3>10
    <2> QED BY <2>1, <2>2, <2>4, <2>5
<1>3. [Next]_vars => AddCurrentExp \/ UNCHANGED <<level, exp, req>>
    BY DEF Next, Client, GameStep, PostDamage, Enter, Ask, Leave, DrainChannel,
           DrainManager, TellLevel, LeaveManager, Hit, EndDamage, StartMonsters, Tick,
           EndMonsters, expVars, vars
<1> QED BY <1>1, <1>2, <1>3

LEMMA InitKeepsUp == Init => KeepsUp
<1> SUFFICES ASSUME Init, NEW c \in Characters
             PROVE  exp[c] < req[c] + Cardinality(Ahead(c))
    BY DEF KeepsUp
<1>1. /\ level[c] = Saved[c].level /\ exp[c] = Saved[c].exp
      /\ req[c] = Table[Saved[c].level]
    BY DEF Init
<1>2. PICK s \in DOMAIN Table, t \in Nat, e \in Nat :
          s = Saved[c].level /\ t = Table[s] /\ e = Saved[c].exp /\ s \in Nat
    BY TableType
<1>3. Ahead(c) = {s} \X (t .. e)
    <2>1. AheadOf(c, s) = UNION {{k} \X Row(c, k) : k \in {s}}
        <3>1. s .. s = {s}
            BY <1>2
        <3> QED BY <1>2, <3>1 DEF AheadOf
    <2>2. Row(c, s) = t .. e
        BY <1>2 DEF Row
    <2>3. UNION {{k} \X Row(c, k) : k \in {s}} = {s} \X Row(c, s)
        <3>1. {{k} \X Row(c, k) : k \in {s}} = {{s} \X Row(c, s)}
            OBVIOUS
        <3> QED BY <3>1
    <2>4. AheadOf(c, s) = {s} \X (t .. e)
        BY <2>1, <2>2, <2>3
    <2>5. Ahead(c) = AheadOf(c, level[c]) /\ level[c] = s
        BY <1>1, <1>2, AheadIs
    <2> QED BY <2>4, <2>5
<1>4. IsFiniteSet(t .. e) /\ Cardinality(t .. e) = IF t > e THEN 0 ELSE e - t + 1
    <2>1. t \in Int /\ e \in Int
        BY <1>2
    <2> QED BY <2>1, FS_Interval
<1>5. Cardinality(Ahead(c)) = Cardinality(t .. e)
    BY <1>3, <1>4, RowSize
<1> QED BY <1>1, <1>2, <1>4, <1>5

\* AddCurrentExp and LevelUp keep the level up with the experience, but for what a
\* kill is worth more than the level it led to; for every table, also one in which
\* rows are missing, and any kills, levels and experience of the database.
THEOREM LevelsKeepUp == Spec => []LevelKeepsUp
<1>1. IInv /\ KeepsUp /\ [Next]_vars => KeepsUp'
    BY KeepsUpStep
<1>2. IInv /\ KeepsUp => LevelKeepsUp
    BY DEF IInv, Rows, KeepsUp, LevelKeepsUp
<1> QED BY InitKeepsUp, DungeonInvariance, <1>1, <1>2, PTL DEF Spec

-----------------------------------------------------------------------------
(* Kills are paid: what is under way. *)

\* Payments in a list of functions.
Pay(c) == [op |-> "exp", c |-> c]

LEMMA InFinite ==
    ASSUME NEW s \in Seq(Functions), NEW c
    PROVE  IsFiniteSet(In(s, c)) /\ Cardinality(In(s, c)) \in Nat
<1>1. IsFiniteSet(1 .. Len(s)) /\ In(s, c) \in SUBSET (1 .. Len(s))
    BY FS_Interval DEF In
<1>2. IsFiniteSet(In(s, c))
    BY <1>1, FS_Subset
<1> QED BY <1>2, FS_CardinalityType

LEMMA InAppend ==
    ASSUME NEW s \in Seq(Functions), NEW f \in Functions, NEW c
    PROVE  /\ Len(s) + 1 \notin In(s, c)
           /\ In(Append(s, f), c) = IF f = Pay(c) THEN In(s, c) \cup {Len(s) + 1}
                                    ELSE In(s, c)
<1>1. PICK n \in Nat : n = Len(s)
    OBVIOUS
<1>2. Len(Append(s, f)) = n + 1 /\ Append(s, f)[n + 1] = f
      /\ \A i \in 1 .. n : Append(s, f)[i] = s[i]
    BY <1>1
<1>3. 1 .. n + 1 = (1 .. n) \cup {n + 1} /\ n + 1 \notin 1 .. n
    BY <1>1
<1> QED BY <1>1, <1>2, <1>3 DEF In, Pay

LEMMA InTail ==
    ASSUME NEW s \in Seq(Functions), s # <<>>, NEW c
    PROVE  Cardinality(In(Tail(s), c)) =
               Cardinality(In(s, c)) - (IF Head(s) = Pay(c) THEN 1 ELSE 0)
<1> DEFINE t == Tail(s)
           S == In(t, c)
           T == In(s, c) \ {1}
           h == [i \in S |-> i + 1]
<1>1. PICK n \in Nat : n = Len(s) /\ n # 0
    OBVIOUS
<1>2. /\ t \in Seq(Functions) /\ Len(t) = n - 1
      /\ \A i \in 1 .. n - 1 : t[i] = s[i + 1]
      /\ Head(s) = s[1]
    BY <1>1
<1> HIDE DEF t
<1>3. /\ \A i : i \in S <=> i \in 1 .. n - 1 /\ s[i + 1] = Pay(c)
      /\ \A i : i \in T <=> i \in 2 .. n /\ s[i] = Pay(c)
    BY <1>1, <1>2 DEF In, Pay
<1>4. /\ \A i \in S : i \in Int /\ i + 1 \in T
      /\ \A j \in T : j - 1 \in S /\ (j - 1) + 1 = j
    BY <1>1, <1>3
<1> HIDE DEF S, T
<1>5. h \in [S -> T]
    BY <1>4
<1>6. \A i, j \in S : h[i] = h[j] => i = j
    BY <1>4
<1>7. \A j \in T : \E i \in S : h[i] = j
    BY <1>4
<1> HIDE DEF h
<1>8. ExistsBijection(S, T)
    BY <1>5, <1>6, <1>7 DEF ExistsBijection, Bijection, Injection, Surjection, IsInjective
<1>9. IsFiniteSet(S) /\ IsFiniteSet(In(s, c)) /\ Cardinality(In(s, c)) \in Nat
    BY <1>2, InFinite DEF S
<1>10. Cardinality(S) = Cardinality(T)
    BY <1>8, <1>9, FS_Bijection
<1>11. Cardinality(T) = IF 1 \in In(s, c) THEN Cardinality(In(s, c)) - 1
                        ELSE Cardinality(In(s, c))
    BY <1>9, FS_RemoveElement DEF T
<1>12. 1 \in In(s, c) <=> Head(s) = Pay(c)
    BY <1>1, <1>2 DEF In, Pay
<1> QED BY <1>9, <1>10, <1>11, <1>12 DEF S, t

\* The same, of any functions fs of the managers.
PostedOf(fs, c) == UNION {{g} \X In(fs[g], c) : g \in Managers}

LEMMA PostedFinite ==
    ASSUME NEW fs \in [Managers -> Seq(Functions)], NEW c
    PROVE  IsFiniteSet(PostedOf(fs, c)) /\ Cardinality(PostedOf(fs, c)) \in Nat
<1>0. Order \in Seq(Managers)
    BY DungeonAssumption DEF DungeonAssumption
<1>1. PICK n \in Nat : n = Len(Order) /\ DOMAIN Order = 1 .. n
    BY <1>0
<1> DEFINE f == [i \in 1 .. n |-> {Order[i]} \X In(fs[Order[i]], c)]
<1>2. Managers = {Order[i] : i \in 1 .. n}
    BY <1>1 DEF Managers, Range
<1>3. ASSUME NEW i \in 1 .. n PROVE IsFiniteSet(f[i])
    <2>1. fs[Order[i]] \in Seq(Functions)
        BY <1>2
    <2>2. IsFiniteSet({Order[i]} \X In(fs[Order[i]], c))
        BY <2>1, InFinite, RowSize
    <2> QED BY <2>2
<1>4. PostedOf(fs, c) = UNION {f[i] : i \in 1 .. n}
    BY <1>2 DEF PostedOf
<1>5. IsFiniteSet(UNION {f[i] : i \in 1 .. n})
    <2> HIDE DEF f
    <2> QED BY <1>3, FiniteUnion
<1> QED BY <1>4, <1>5, FS_CardinalityType

\* A function is posted to the manager h.
Posts(fs, gs, h, f) ==
    gs[h] = Append(fs[h], f) /\ \A g \in Managers : g # h => gs[g] = fs[g]

LEMMA PostedMore ==
    ASSUME NEW fs \in [Managers -> Seq(Functions)], NEW h \in Managers,
           NEW f \in Functions, NEW c, NEW gs, Posts(fs, gs, h, f)
    PROVE  Cardinality(PostedOf(gs, c)) =
               Cardinality(PostedOf(fs, c)) + (IF f = Pay(c) THEN 1 ELSE 0)
<1> DEFINE p == <<h, Len(fs[h]) + 1>>
<1>1. gs[h] = Append(fs[h], f) /\ \A g \in Managers : g # h => gs[g] = fs[g]
    BY DEF Posts
<1>2. fs[h] \in Seq(Functions)
    OBVIOUS
<1>3. p \notin PostedOf(fs, c)
    BY <1>2, InAppend DEF PostedOf
<1>4. PostedOf(gs, c) = IF f = Pay(c) THEN PostedOf(fs, c) \cup {p} ELSE PostedOf(fs, c)
    <2>1. In(gs[h], c) = IF f = Pay(c) THEN In(fs[h], c) \cup {Len(fs[h]) + 1}
                         ELSE In(fs[h], c)
        BY <1>1, <1>2, InAppend
    <2>2. \A g \in Managers : g # h => In(gs[g], c) = In(fs[g], c)
        BY <1>1
    <2> QED BY <2>1, <2>2 DEF PostedOf
<1>5. IsFiniteSet(PostedOf(fs, c)) /\ Cardinality(PostedOf(fs, c)) \in Nat
    BY PostedFinite
<1> HIDE DEF p
<1>6. Cardinality(PostedOf(fs, c) \cup {p}) = Cardinality(PostedOf(fs, c)) + 1
    BY <1>3, <1>5, FS_AddElement
<1> QED BY <1>4, <1>5, <1>6

\* The functions of h are taken from the mailbox.
LEMMA PostedLess ==
    ASSUME NEW fs \in [Managers -> Seq(Functions)], NEW h \in Managers, NEW c
    PROVE  Cardinality(PostedOf(fs, c)) =
               Cardinality(PostedOf([fs EXCEPT ![h] = <<>>], c))
                   + Cardinality(In(fs[h], c))
<1> DEFINE gs == [fs EXCEPT ![h] = <<>>]
           S == PostedOf(gs, c)
           T == {h} \X In(fs[h], c)
<1>1. gs[h] = <<>> /\ \A g \in Managers : g # h => gs[g] = fs[g]
    OBVIOUS
<1>2. gs \in [Managers -> Seq(Functions)] /\ fs[h] \in Seq(Functions)
    OBVIOUS
<1> HIDE DEF gs
<1>3. In(gs[h], c) = {}
    BY <1>1 DEF In
<1>4. PostedOf(fs, c) = S \cup T
    BY <1>1, <1>3 DEF PostedOf
<1>5. S \cap T = {}
    BY <1>1, <1>3 DEF PostedOf
<1>6. IsFiniteSet(S)
    BY <1>2, PostedFinite
<1>7. IsFiniteSet(T) /\ Cardinality(T) = Cardinality(In(fs[h], c))
    BY <1>2, InFinite, RowSize
<1> HIDE DEF S, T
<1> QED BY <1>4, <1>5, <1>6, <1>7, Disjoint DEF S, gs

-----------------------------------------------------------------------------
(* Kills are paid: the steps. *)

AccountInv == ExpAccounts /\ earned \in [Characters -> Int]

\* The numbers that the account is about.
LEMMA AccountType ==
    ASSUME TypeOK, NEW c \in Characters
    PROVE  /\ exp[c] \in Int /\ level[c] \in Nat \ {0} /\ Exp \in Nat
           /\ level[c] <= Len(Table) + 1 => Spent(level[c]) \in Nat
           /\ Cardinality(Posted(c)) \in Nat
           /\ Cardinality(Running(c)) \in Nat
           /\ Underway(c) \in Nat
<1>1. exp[c] \in Int /\ level[c] \in Nat \ {0} /\ Exp \in Nat
    BY TableType DEF TypeOK
<1>2. ASSUME level[c] <= Len(Table) + 1 PROVE Spent(level[c]) \in Nat
    <2>1. Len(Table) \in Nat
        BY TableType
    <2>2. level[c] - 1 <= Len(Table)
        BY <1>1, <1>2, <2>1
    <2> QED BY <1>1, <2>2, SpentType
<1>3. Cardinality(Posted(c)) \in Nat
    <2>1. funcs \in [Managers -> Seq(Functions)]
        BY DEF TypeOK
    <2>2. Posted(c) = PostedOf(funcs, c)
        BY DEF Posted, PostedOf
    <2> QED BY <2>1, <2>2, PostedFinite
<1>4. Cardinality(Running(c)) \in Nat
    <2>1. CASE game.at = "functions"
        <3>1. copy \in Seq(Functions)
            BY <2>1 DEF TypeOK
        <3> QED BY <2>1, <3>1, InFinite DEF Running
    <2>2. CASE game.at # "functions"
        BY <2>2, FS_EmptySet DEF Running
    <2> QED BY <2>1, <2>2
<1>5. Underway(c) \in Nat
    BY <1>3, <1>4 DEF Underway
<1> QED BY <1>1, <1>2, <1>3, <1>4, <1>5

\* Nothing is earned or paid.
LEMMA AccountKept ==
    ASSUME AccountInv, UNCHANGED <<level, exp, killVars>>,
           \A c \in Characters : Underway(c)' = Underway(c)
    PROVE  AccountInv'
BY DEF AccountInv, ExpAccounts, Spent, killVars

LEMMA AccountElsewhere ==
    ASSUME TypeOK, AccountInv, UNCHANGED <<funcs, level, exp, killVars>>,
           \/ game'.at = game.at /\ copy' = copy
           \/ game'.at # "functions"
              /\ (game.at # "functions" \/ copy = <<>>)
    PROVE  AccountInv'
<1>1. ASSUME NEW c PROVE Underway(c)' = Underway(c)
    <2>1. Posted(c)' = Posted(c)
        BY DEF Posted
    <2>2. Running(c)' = Running(c)
        <3>1. CASE game'.at = game.at /\ copy' = copy
            BY <3>1 DEF Running
        <3>2. CASE game'.at # "functions"
            <4>1. copy = <<>> => In(copy, c) = {}
                BY DEF In
            <4> QED BY <3>2, <4>1 DEF Running
        <3> QED BY <3>1, <3>2
    <2> QED BY <2>1, <2>2 DEF Underway
<1> QED BY <1>1, AccountKept

\* The functions are taken, and run in the same drain.
LEMMA AccountDrainManager ==
    ASSUME TypeOK, AccountInv, DrainManager
    PROVE  AccountInv'
<1>1. /\ game.at = "manager" /\ game' = [game EXCEPT !.at = "functions"]
      /\ copy' = funcs[Here] /\ funcs' = [funcs EXCEPT ![Here] = <<>>]
      /\ UNCHANGED <<level, exp, killVars>>
    BY DEF DrainManager, Goto, expVars
<1>2. funcs \in [Managers -> Seq(Functions)] /\ Here \in Managers /\ game'.at = "functions"
    BY <1>1, HereType DEF TypeOK
<1>3. ASSUME NEW c \in Characters PROVE Underway(c)' = Underway(c)
    <2>1. Posted(c) = PostedOf(funcs, c) /\ Posted(c)' = PostedOf(funcs', c)
        BY DEF Posted, PostedOf
    <2>2. Running(c) = {} /\ Running(c)' = In(funcs[Here], c)
        BY <1>1, <1>2 DEF Running
    <2>3. Cardinality(Posted(c)) = Cardinality(Posted(c)') + Cardinality(Running(c)')
        <3>1. Cardinality(PostedOf(funcs, c)) =
                  Cardinality(PostedOf([funcs EXCEPT ![Here] = <<>>], c))
                      + Cardinality(In(funcs[Here], c))
            BY <1>2, PostedLess
        <3> QED BY <1>1, <2>1, <2>2, <3>1
    <2>4. Cardinality(Running(c)) = 0
        BY <2>2, FS_EmptySet
    <2>5. Cardinality(Posted(c)) \in Nat
        BY AccountType
    <2> QED BY <2>3, <2>4, <2>5 DEF Underway
<1> QED BY <1>1, <1>3, AccountKept

\* One more.
LEMMA OnePay ==
    ASSUME NEW u \in Int, NEW e \in Int
    PROVE  u * e = (u - 1) * e + e /\ u * e + e = (u + 1) * e
OBVIOUS

\* The kill at the head of the copy is paid: experience for what was under way,
\* and with a level, experience for what the level has cost.
LEMMA AccountAddCurrentExp ==
    ASSUME IInv, AccountInv, AddCurrentExp
    PROVE  AccountInv'
<1> DEFINE c == Head(copy).c
<1>1. /\ copy \in Seq(Functions) /\ copy # <<>> /\ game.at = "functions" /\ TypeOK
      /\ copy' = Tail(copy) /\ game' = game
      /\ earned' = earned /\ excused' = excused
    BY DEF IInv, TypeOK, AddCurrentExp, killVars
<1>2. Head(copy) \in Functions /\ Head(copy).op = "exp"
    BY <1>1 DEF AddCurrentExp
<1>3. c \in Characters /\ Head(copy) = Pay(c)
    BY <1>2 DEF Functions, Pay
<1>4. /\ level \in [Characters -> Nat \ {0}] /\ exp \in [Characters -> Int]
      /\ req \in [Characters -> Int]
      /\ funcs \in [Managers -> Seq(Functions)]
      /\ cm[c] \in Managers \cup {None}
    BY <1>1, <1>3 DEF TypeOK
<1>5. \/ Enough(c) /\ LevelUp(c)
      \/ ~Enough(c) /\ exp' = [exp EXCEPT ![c] = @ + Exp] /\ UNCHANGED <<level, req, funcs>>
    BY DEF AddCurrentExp
<1> HIDE DEF c
<1>6. ASSUME NEW d \in Characters
      PROVE  Underway(d)' = Underway(d) - (IF d = c THEN 1 ELSE 0)
    <2>1. Cardinality(Running(d)') = Cardinality(Running(d)) - (IF d = c THEN 1 ELSE 0)
        <3>1. Running(d) = In(copy, d) /\ Running(d)' = In(Tail(copy), d)
            BY <1>1 DEF Running
        <3>2. Pay(c) = Pay(d) <=> c = d
            BY DEF Pay
        <3> QED BY <1>1, <1>3, <3>1, <3>2, InTail
    <2>2. Cardinality(Posted(d)') = Cardinality(Posted(d))
        <3>1. CASE funcs' = funcs
            BY <3>1 DEF Posted
        <3>2. CASE cm[c] # None
                   /\ funcs' = [funcs EXCEPT ![cm[c]] = Append(@, [op |-> "news", c |-> c])]
            <4>1. [op |-> "news", c |-> c] \in Functions /\ [op |-> "news", c |-> c] # Pay(d)
                BY <1>3 DEF Functions, Pay
            <4>2. cm[c] \in Managers
                BY <1>4, <3>2
            <4>3. Cardinality(PostedOf(funcs', d)) = Cardinality(PostedOf(funcs, d)) + 0
                <5> DEFINE f == [op |-> "news", c |-> c]
                <5>1. f \in Functions /\ f # Pay(d) /\ cm[c] \in Managers
                      /\ Posts(funcs, funcs', cm[c], f)
                    BY <1>4, <3>2, <4>1, <4>2 DEF Posts
                <5> HIDE DEF f
                <5>2. Cardinality(PostedOf(funcs', d)) =
                          Cardinality(PostedOf(funcs, d)) + (IF f = Pay(d) THEN 1 ELSE 0)
                    <6>1. funcs \in [Managers -> Seq(Functions)]
                        BY <1>4
                    <6> QED BY <5>1, <6>1, PostedMore
                <5> QED BY <5>1, <5>2
            <4>4. Cardinality(PostedOf(funcs, d)) \in Nat
                BY <1>4, PostedFinite
            <4> QED BY <4>3, <4>4 DEF Posted, PostedOf
        <3> QED BY <1>5, <3>1, <3>2 DEF LevelUp
    <2>3. Cardinality(Posted(d)) \in Nat /\ Cardinality(Running(d)) \in Nat
        BY <1>1, AccountType
    <2> QED BY <2>1, <2>2, <2>3 DEF Underway
<1>7. ASSUME NEW d \in Characters, level'[d] <= Len(Table) + 1
      PROVE  \E lost \in 0 .. excused[d] :
                 earned'[d] = exp'[d] + Spent(level'[d]) + (Underway(d)' + lost) * Exp
    <2>0. /\ exp[d] \in Int /\ level[d] \in Nat \ {0} /\ Exp \in Nat
          /\ level[d] <= Len(Table) + 1 => Spent(level[d]) \in Nat
          /\ Underway(d) \in Int /\ Len(Table) \in Nat
        BY <1>1, AccountType, TableType
    <2>1. level[d] <= Len(Table) + 1
        <3>1. level'[d] = level[d] \/ level'[d] = level[d] + 1
            BY <1>4, <1>5 DEF LevelUp
        <3> QED BY <1>7, <2>0, <3>1
    <2>2. PICK lost \in 0 .. excused[d] :
              earned[d] = exp[d] + Spent(level[d]) + (Underway(d) + lost) * Exp
        BY <2>1 DEF AccountInv, ExpAccounts
    <2> SUFFICES earned'[d] = exp'[d] + Spent(level'[d]) + (Underway(d)' + lost) * Exp
        OBVIOUS
    <2>3. lost \in Int
        OBVIOUS
    <2>4. CASE d # c
        <3>1. level'[d] = level[d] /\ exp'[d] = exp[d]
            BY <1>4, <1>5, <2>4 DEF LevelUp
        <3>2. Underway(d)' = Underway(d)
            BY <1>6, <2>0, <2>4
        <3> QED BY <1>1, <2>2, <3>1, <3>2
    <2>5. ASSUME d = c
          PROVE  /\ (Underway(d)' + lost) * Exp \in Int
                 /\ (Underway(d) + lost) * Exp = (Underway(d)' + lost) * Exp + Exp
        <3> DEFINE w == Underway(d) + lost
        <3>1. w \in Int /\ Underway(d)' + lost = w - 1
            BY <1>6, <2>0, <2>3, <2>5
        <3> HIDE DEF w
        <3>2. w * Exp = (w - 1) * Exp + Exp /\ (w - 1) * Exp \in Int
            BY <2>0, <3>1, OnePay
        <3> QED BY <3>1, <3>2 DEF w
    <2>6. CASE d = c /\ ~Enough(c)
        <3>1. level'[d] = level[d] /\ exp'[d] = exp[d] + Exp
            BY <1>4, <1>5, <2>6
        <3> DEFINE q == (Underway(d)' + lost) * Exp
        <3>2. q \in Int /\ (Underway(d) + lost) * Exp = q + Exp
            BY <2>5, <2>6
        <3>3. Spent(level[d]) \in Nat
            BY <2>0, <2>1
        <3> HIDE DEF q
        <3>4. earned'[d] = exp'[d] + Spent(level'[d]) + q
            BY <1>1, <2>0, <2>2, <3>1, <3>2, <3>3
        <3> QED BY <3>4 DEF q
    <2>7. CASE d = c /\ Enough(c)
        <3>1. level'[d] = level[d] + 1 /\ exp'[d] = exp[d] + Exp - req[d]
            BY <1>4, <1>5, <2>7 DEF LevelUp
        <3>2. level[d] \in DOMAIN Table
            BY <1>7, <2>0, <3>1, TableType
        <3>3. req[d] = Table[level[d]] /\ Table[level[d]] \in Nat
            BY <3>2, TableType DEF IInv, Rows
        <3>4. Spent(level[d] + 1) = Spent(level[d]) + Table[level[d]]
            BY <3>2, SpentMore
        <3>5. Spent(level'[d]) = Spent(level[d]) + req[d] /\ req[d] \in Int
            BY <3>1, <3>3, <3>4
        <3> DEFINE q == (Underway(d)' + lost) * Exp
                   s == Spent(level[d])
        <3>6. q \in Int /\ (Underway(d) + lost) * Exp = q + Exp /\ s \in Int
            BY <2>0, <2>1, <2>5, <2>7
        <3>7. \A e, x, g, z, y \in Int :
                  e + z + (y + x) = (e + x - g) + (z + g) + y
            OBVIOUS
        <3>8. earned[d] = exp[d] + s + (q + Exp)
            BY <2>2, <3>6
        <3>9. Spent(level'[d]) = s + req[d]
            BY <3>5
        <3> HIDE DEF q, s
        <3>10. exp[d] + s + (q + Exp) = (exp[d] + Exp - req[d]) + (s + req[d]) + q
            BY <2>0, <3>5, <3>6, <3>7, SMTT(30)
        <3>11. earned'[d] = exp'[d] + Spent(level'[d]) + q
            BY <1>1, <3>1, <3>8, <3>9, <3>10
        <3> QED BY <3>11 DEF q
    <2> QED BY <2>4, <2>6, <2>7
<1> QED BY <1>1, <1>7 DEF AccountInv, ExpAccounts, Spent

-----------------------------------------------------------------------------
(* Kills are paid: who can be. *)

\* Whoever stays in a channel points to a manager, unless it was overtaken.
Connected == \A g \in Managers : \A c \in Staying(g) \ overtaken : cm[c] # None

LEMMA ConnectedDrainChannel ==
    ASSUME TypeOK, Connected, DrainChannel
    PROVE  Connected'
<1> DEFINE h == Here
           left == members[h] \cap erases[h]
           new == inserts[h] \ (members[h] \ left)
<1>1. h \in Managers /\ h # None
    BY HereType, DungeonAssumption DEF DungeonAssumption, TypeOK
<1>2. /\ members \in [Managers -> SUBSET Characters]
      /\ erases \in [Managers -> SUBSET Characters]
      /\ inserts \in [Managers -> SUBSET Characters]
      /\ cm \in [Characters -> Managers \cup {None}]
    BY DEF TypeOK
<1>3. /\ members' = [members EXCEPT ![h] = Drained(h)]
      /\ erases' = [erases EXCEPT ![h] = {}]
      /\ cm' = [c \in Characters |-> IF c \in new THEN h
                                     ELSE IF c \in left THEN None ELSE cm[c]]
      /\ overtaken' = (overtaken \ (left \cup new)) \cup
            {c \in left \ new : \E g \in Managers \ {h} : c \in Staying(g)}
    BY DEF DrainChannel
<1>4. SUFFICES ASSUME NEW g \in Managers, NEW c \in Staying(g)', c \notin overtaken'
               PROVE  cm'[c] # None
    BY DEF Connected
<1>5. c \in Characters
    BY <1>2, <1>3 DEF Staying, Drained
<1>6. CASE c \in new
    BY <1>1, <1>3, <1>5, <1>6
<1>7. CASE c \notin new /\ c \in left
    <2>1. CASE g = h
        <3>1. c \in Drained(h)
            BY <1>2, <1>3, <2>1 DEF Staying
        <3> QED BY <1>7, <3>1 DEF Drained
    <2>2. CASE g # h
        <3>1. c \in Staying(g)
            BY <1>2, <1>3, <2>2 DEF Staying
        <3> QED BY <1>3, <1>4, <1>7, <2>2, <3>1
    <2> QED BY <2>1, <2>2
<1>8. CASE c \notin new /\ c \notin left
    <2>1. c \in Staying(g)
        <3>1. CASE g = h
            <4>1. c \in Drained(h)
                BY <1>2, <1>3, <3>1 DEF Staying
            <4> QED BY <1>8, <3>1, <4>1 DEF Drained, Staying
        <3>2. CASE g # h
            BY <1>2, <1>3, <3>2 DEF Staying
        <3> QED BY <3>1, <3>2
    <2>2. c \notin overtaken
        BY <1>3, <1>4, <1>8
    <2>3. cm'[c] = cm[c]
        BY <1>3, <1>5, <1>8
    <2> QED BY <2>1, <2>2, <2>3 DEF Connected
<1> QED BY <1>6, <1>7, <1>8

LEMMA ConnectedStep ==
    ASSUME TypeOK, Connected, [Next]_vars
    PROVE  Connected'
<1>1. CASE DrainChannel
    BY <1>1, ConnectedDrainChannel
<1>2. CASE /\ UNCHANGED memberVars
           /\ \A g \in Managers : erases[g] \subseteq erases'[g]
    <2>1. \A g \in Managers : Staying(g)' \subseteq Staying(g)
        BY <1>2 DEF Staying, memberVars
    <2> QED BY <1>2, <2>1 DEF Connected, memberVars
<1>3. CASE UNCHANGED <<memberVars, erases>>
    BY <1>2, <1>3
<1>4. ASSUME NEW c \in Characters, Leave(c) \/ \E g \in Managers : Enter(c, g)
      PROVE  Connected'
    <2>1. /\ UNCHANGED memberVars
          /\ erases' = [erases EXCEPT ![at[c]] = @ \cup {c}]
        BY <1>4 DEF Leave, Enter
    <2>2. \A g \in Managers : erases[g] \subseteq erases'[g]
        BY <2>1 DEF TypeOK
    <2> QED BY <1>2, <2>1, <2>2
<1>5. ASSUME NEW c \in Characters, Ask(c) \/ \E n \in 1 .. MaxTargets : PostDamage(c, n)
      PROVE  Connected'
    <2>1. UNCHANGED <<memberVars, erases>>
        BY <1>5 DEF Ask, PostDamage, moveVars
    <2> QED BY <1>3, <2>1
<1>6. CASE GameStep /\ ~DrainChannel
    <2>1. UNCHANGED <<memberVars, erases>>
        BY <1>6 DEF GameStep, DrainManager, AddCurrentExp, TellLevel, LeaveManager, Hit,
                    EndDamage, StartMonsters, Tick, EndMonsters, moveVars
    <2> QED BY <1>3, <2>1
<1>7. CASE UNCHANGED vars
    <2>1. UNCHANGED <<memberVars, erases>>
        BY <1>7 DEF vars, moveVars
    <2> QED BY <1>3, <2>1
<1> QED BY <1>1, <1>4, <1>5, <1>6, <1>7 DEF Next, Client

LEMMA InitConnected == Init => Connected
BY DEF Init, Connected, Staying

\* A kill is posted to the manager that the killer points to; one that is not is by
\* who stays in no channel or was overtaken.
LEMMA AccountHit ==
    ASSUME IInv, Connected, AccountInv, NEW m \in Monsters, NEW d \in Blows, Hit(m, d)
    PROVE  AccountInv'
<1> DEFINE k == Head(copy).by
           u == [funcs EXCEPT ![cm[k]] = Append(@, Pay(k))]
           x == k \in overtaken \/ \A g \in Managers : k \notin Staying(g)
<1>1. /\ copy \in Seq(Requests) /\ copy # <<>> /\ game.at = "damage" /\ TypeOK
      /\ game' = game /\ UNCHANGED <<level, exp>>
    BY DEF IInv, TypeOK, Hit, expVars
<1>2. k \in Characters
    <2>1. Head(copy) \in Requests
        BY <1>1
    <2> QED BY <2>1 DEF Requests
<1>3. /\ funcs \in [Managers -> Seq(Functions)] /\ cm[k] \in Managers \cup {None}
      /\ Pay(k) \in Functions /\ excused \in [Characters -> Nat]
    BY <1>1, <1>2 DEF TypeOK, Pay, Functions
<1>4. \/ UNCHANGED <<funcs, killVars>>
      \/ /\ funcs' = IF cm[k] = None THEN funcs ELSE u
         /\ earned' = [earned EXCEPT ![k] = @ + Exp]
         /\ excused' = IF x THEN [excused EXCEPT ![k] = @ + 1] ELSE excused
    BY DEF Hit, Strikes, Hurt, CountKill, Pay
<1>5. cm[k] = None => x
    BY DEF Connected
<1> HIDE DEF k, x
<1>6. CASE UNCHANGED <<funcs, killVars>>
    BY <1>1, <1>6, AccountElsewhere
<1>7. CASE /\ funcs' = IF cm[k] = None THEN funcs ELSE u
           /\ earned' = [earned EXCEPT ![k] = @ + Exp]
           /\ excused' = IF x THEN [excused EXCEPT ![k] = @ + 1] ELSE excused
    <2> DEFINE paid == cm[k] # None
    <2>1. ASSUME NEW c \in Characters
          PROVE  Underway(c)' = Underway(c) + (IF c = k /\ paid THEN 1 ELSE 0)
        <3>1. Running(c)' = Running(c)
            BY <1>1 DEF Running
        <3>2. Cardinality(Posted(c)) \in Nat /\ Cardinality(Running(c)) \in Nat
            BY <1>1, AccountType
        <3>3. CASE ~paid
            <4>1. Posted(c)' = Posted(c)
                BY <1>7, <3>3 DEF Posted
            <4> QED BY <3>1, <3>2, <3>3, <4>1 DEF Underway
        <3>4. CASE paid
            <4> DEFINE f == Pay(k)
            <4>1. f \in Functions /\ cm[k] \in Managers
                  /\ Posts(funcs, funcs', cm[k], f)
                BY <1>3, <1>7, <3>4 DEF Posts
            <4>2. f = Pay(c) <=> c = k
                BY DEF Pay
            <4> HIDE DEF f
            <4>3. Cardinality(PostedOf(funcs', c)) =
                      Cardinality(PostedOf(funcs, c)) + (IF f = Pay(c) THEN 1 ELSE 0)
                BY <1>3, <4>1, PostedMore
            <4>4. Posted(c) = PostedOf(funcs, c) /\ Posted(c)' = PostedOf(funcs', c)
                BY DEF Posted, PostedOf
            <4> QED BY <3>1, <3>2, <3>4, <4>2, <4>3, <4>4 DEF Underway
        <3> QED BY <3>3, <3>4
    <2>2. earned \in [Characters -> Int] /\ Exp \in Nat
        BY TableType DEF AccountInv
    <2>3. earned' \in [Characters -> Int]
        BY <1>2, <1>7, <2>2
    <2>4. ASSUME NEW c \in Characters, level'[c] <= Len(Table) + 1
          PROVE  \E lost \in 0 .. excused'[c] :
                     earned'[c] = exp'[c] + Spent(level'[c]) + (Underway(c)' + lost) * Exp
        <3>1. level'[c] = level[c] /\ exp'[c] = exp[c]
            BY <1>1
        <3>2. PICK lost \in 0 .. excused[c] :
                  earned[c] = exp[c] + Spent(level[c]) + (Underway(c) + lost) * Exp
            BY <2>4, <3>1 DEF AccountInv, ExpAccounts
        <3>3. exp[c] \in Int /\ Spent(level[c]) \in Nat /\ Underway(c) \in Int
            BY <1>1, <2>4, <3>1, AccountType
        <3>4. excused[c] \in Nat /\ excused'[c] \in Nat /\ excused[c] <= excused'[c]
            BY <1>3, <1>7
        <3>5. CASE c # k
            <4>1. earned'[c] = earned[c] /\ Underway(c)' = Underway(c)
                BY <1>7, <2>1, <2>2, <3>3, <3>5
            <4>2. lost \in 0 .. excused'[c]
                BY <3>4
            <4> QED BY <3>1, <3>2, <4>1, <4>2
        <3>6. CASE c = k
            <4> DEFINE w == Underway(c) + lost
                       more == IF paid THEN lost ELSE lost + 1
            <4>1. w \in Int /\ lost \in Int
                BY <3>3
            <4>2. more \in 0 .. excused'[c]
                <5>1. CASE paid
                    BY <3>4, <5>1
                <5>2. CASE ~paid
                    <6>1. excused'[c] = excused[c] + 1
                        BY <1>2, <1>3, <1>5, <1>7, <3>6, <5>2
                    <6> QED BY <3>4, <5>2, <6>1
                <5> QED BY <5>1, <5>2
            <4>3. earned'[c] = earned[c] + Exp
                BY <1>2, <1>7, <2>2, <3>6
            <4>4. Underway(c)' + more = w + 1
                BY <2>1, <3>3, <3>6, <4>1
            <4>5. earned[c] = exp[c] + Spent(level[c]) + w * Exp
                BY <3>2
            <4> HIDE DEF w, more, paid
            <4>6. w * Exp + Exp = (w + 1) * Exp /\ w * Exp \in Int
                BY <2>2, <4>1, OnePay
            <4>7. earned'[c] = exp[c] + Spent(level[c]) + (w + 1) * Exp
                BY <2>2, <3>3, <4>3, <4>5, <4>6
            <4> QED BY <3>1, <4>2, <4>4, <4>7
        <3> QED BY <3>5, <3>6
    <2> QED BY <2>3, <2>4 DEF AccountInv, ExpAccounts, Spent
<1> QED BY <1>4, <1>6, <1>7

LEMMA AccountStep ==
    ASSUME IInv, Connected, AccountInv, [Next]_vars
    PROVE  AccountInv'
<1>0. TypeOK
    BY DEF IInv
<1>1. CASE Client
    <2>1. UNCHANGED <<game, copy, funcs, level, exp, killVars>>
        BY <1>1 DEF Client, PostDamage, Enter, Ask, Leave, expVars
    <2> QED BY <1>0, <2>1, AccountElsewhere
<1>2. CASE DrainChannel
    <2>1. /\ UNCHANGED <<copy, funcs, level, exp, killVars>> /\ game.at = "channel"
          /\ game' = [game EXCEPT !.at = "manager"]
        BY <1>2 DEF DrainChannel, Goto, expVars
    <2>2. game'.at = "manager"
        BY <1>0, <2>1 DEF TypeOK
    <2> QED BY <1>0, <2>1, <2>2, AccountElsewhere
<1>3. CASE TellLevel
    <2>1. /\ UNCHANGED <<game, funcs, level, exp, killVars>> /\ game.at = "functions"
          /\ copy' = Tail(copy) /\ copy # <<>> /\ Head(copy).op = "news"
        BY <1>3 DEF TellLevel, expVars
    <2>2. copy \in Seq(Functions)
        BY <1>0, <2>1 DEF TypeOK
    <2>3. ASSUME NEW c \in Characters PROVE Underway(c)' = Underway(c)
        <3>1. Running(c) = In(copy, c) /\ Running(c)' = In(Tail(copy), c)
            BY <2>1 DEF Running
        <3>2. Head(copy) # Pay(c)
            BY <2>1 DEF Pay
        <3>3. Posted(c)' = Posted(c)
            BY <2>1 DEF Posted
        <3>4. Cardinality(Running(c)') = Cardinality(Running(c))
            <4>1. Cardinality(In(Tail(copy), c)) = Cardinality(In(copy, c)) - 0
                BY <2>1, <2>2, <3>2, InTail
            <4>2. Cardinality(In(copy, c)) \in Nat
                BY <2>2, InFinite
            <4> QED BY <3>1, <4>1, <4>2
        <3> QED BY <3>3, <3>4 DEF Underway
    <2> QED BY <2>1, <2>3, AccountKept
<1>4. CASE LeaveManager
    <2>1. /\ UNCHANGED <<funcs, level, exp, killVars>> /\ copy = <<>>
          /\ game' = [game EXCEPT !.at = "damage"] \/ NextChannel
        BY <1>4 DEF LeaveManager, Goto, expVars
    <2>2. game'.at # "functions"
        BY <1>0, <2>1 DEF TypeOK, NextChannel
    <2> QED BY <1>0, <2>1, <2>2, AccountElsewhere
<1>5. CASE EndDamage
    <2>1. /\ UNCHANGED <<game, funcs, level, exp, killVars>> /\ game.at = "damage"
        BY <1>5 DEF EndDamage, expVars
    <2> QED BY <1>0, <2>1, AccountElsewhere
<1>6. CASE StartMonsters
    <2>1. /\ UNCHANGED <<funcs, level, exp, killVars>> /\ game.at = "damage"
          /\ game' = [game EXCEPT !.at = "monsters", !.todo = Monsters]
        BY <1>6 DEF StartMonsters, expVars
    <2>2. game'.at # "functions"
        BY <1>0, <2>1 DEF TypeOK
    <2> QED BY <1>0, <2>1, <2>2, AccountElsewhere
<1>7. CASE EndMonsters
    <2>1. UNCHANGED <<funcs, level, exp, killVars>> /\ game.at = "monsters"
          /\ game'.at # "functions"
        BY <1>7 DEF EndMonsters, NextChannel, expVars
    <2> QED BY <1>0, <2>1, AccountElsewhere
<1>8. ASSUME NEW m \in Monsters, NEW near, NEW n, Tick(m, near, n)
      PROVE  AccountInv'
    <2>1. /\ UNCHANGED <<copy, funcs, level, exp, killVars>> /\ game.at = "monsters"
          /\ game' = [game EXCEPT !.todo = @ \ {m}]
        BY <1>8 DEF Tick, expVars
    <2>2. game'.at = game.at
        BY <1>0, <2>1 DEF TypeOK
    <2> QED BY <1>0, <2>1, <2>2, AccountElsewhere
<1>9. CASE UNCHANGED vars
    <2>1. UNCHANGED <<game, copy, funcs, level, exp, killVars>>
        BY <1>9 DEF vars, expVars
    <2> QED BY <1>0, <2>1, AccountElsewhere
<1> QED BY <1>0, <1>1, <1>2, <1>3, <1>4, <1>5, <1>6, <1>7, <1>8, <1>9,
           AccountDrainManager, AccountAddCurrentExp, AccountHit DEF Next, GameStep

LEMMA InitAccount == Init => AccountInv
<1> SUFFICES ASSUME Init PROVE AccountInv
    OBVIOUS
<1>1. IInv /\ TypeOK
    BY InitIInv DEF IInv
<1>2. ASSUME NEW c \in Characters
      PROVE  /\ Underway(c) = 0
             /\ earned[c] = exp[c] + Spent(level[c]) /\ earned[c] \in Int
             /\ exp[c] + Spent(level[c]) \in Int
    <2>1. \A g \in Managers : funcs[g] = <<>>
        BY DEF Init
    <2>2. \A g \in Managers : In(funcs[g], c) = {}
        BY <2>1 DEF In
    <2>3. Posted(c) = {} /\ Running(c) = {}
        BY <2>2 DEF Init, Posted, Running
    <2>4. Underway(c) = 0
        <3>1. Cardinality(Posted(c)) = 0 /\ Cardinality(Running(c)) = 0
            BY <2>3, FS_EmptySet
        <3> QED BY <3>1 DEF Underway
    <2>5. level[c] \in DOMAIN Table
        BY DungeonAssumption DEF DungeonAssumption, Init
    <2>6. level[c] <= Len(Table) + 1
        BY <2>5, TableType
    <2>7. exp[c] \in Int /\ Spent(level[c]) \in Nat
        BY <1>1, <2>6, AccountType
    <2>8. earned[c] = exp[c] + Spent(level[c])
        BY DEF Init
    <2> QED BY <2>4, <2>7, <2>8
<1>3. earned \in [Characters -> Int]
    <2>1. earned = [c \in Characters |-> exp[c] + Spent(level[c])]
        BY DEF Init
    <2> QED BY <1>2, <2>1
<1>4. ExpAccounts
    <2>1. 0 * Exp = 0
        BY TableType
    <2>2. ASSUME NEW c \in Characters
          PROVE  /\ 0 \in 0 .. excused[c]
                 /\ earned[c] = exp[c] + Spent(level[c]) + (Underway(c) + 0) * Exp
        <3>1. excused[c] = 0
            BY DEF Init
        <3> QED BY <1>2, <2>1, <3>1
    <2> QED BY <2>2 DEF ExpAccounts
<1> QED BY <1>3, <1>4 DEF AccountInv

\* No kill is paid twice or to another than the killer (GetDamage, AddCurrentExp,
\* LevelUp), whichever manager carries it and whatever levels it brings, and none
\* by a member is lost unless the erase of a channel it had left before has emptied
\* its pointer (EraseCharacter): ConnectedStep shows that nothing else does.  For
\* any number of characters, channels and kills and any table.
THEOREM KillsArePaid == Spec => []ExpAccounts
<1>1. IInv /\ Connected /\ [Next]_vars => Connected'
    BY ConnectedStep DEF IInv
<1>2. IInv /\ Connected /\ AccountInv /\ [Next]_vars => AccountInv'
    BY AccountStep
<1>3. AccountInv => ExpAccounts
    BY DEF AccountInv
<1> QED BY InitConnected, InitAccount, DungeonInvariance, <1>1, <1>2, <1>3, PTL DEF Spec

-----------------------------------------------------------------------------
(* Where characters are, and who is told of a level. *)

News(c) == [op |-> "news", c |-> c]

\* Memberships end with an erase that waits, and an admission is asked for where the
\* user is.  The pointer is to a channel that has the character as a member; members
\* that point elsewhere are about to be erased.
InPlace ==
    \A g \in Managers, c \in Characters :
        /\ c \in members[g] => at[c] = g \/ c \in erases[g]
        /\ c \in inserts[g] => at[c] = g /\ c \notin entering
        /\ c \in erases[g] => c \in members[g]
                              /\ (at[c] = g => c \in entering \cup inserts[g])
        /\ cm[c] = g => c \in members[g]
        /\ c \in members[g] /\ cm[c] \notin {g, None} => c \in erases[g]

\* Once the mailbox of a channel was worked through its members stay nowhere else,
\* and who leaves it does not come back in the same visit.
InTurn ==
    /\ game.at # "channel" =>
           \A c \in Characters :
               /\ c \in members[Here] =>
                      \A g \in Managers \ {Here} : c \in members[g] => c \in erases[g]
               /\ c \in erases[Here] => at[c] # Here
    /\ game.at \in {"damage", "monsters"} => Here = Den

\* Who asked for damage in s.
Attackers(s) == {r.by : r \in Range(s)}

\* The requests that the game thread works off in this visit to the dungeon.
Striking == IF game.at = "damage" THEN Attackers(copy)
        ELSE IF Here = Den /\ game.at \in {"manager", "functions"} THEN Attackers(hits)
        ELSE {}

\* A user asked for the dungeon that the manager has not admitted yet.
Outside(c) == at[c] = Den /\ c \notin members[Den]

\* Attackers are in the dungeon or are erased from it before they attack; so, of
\* those that attack now none points to another manager but one to come in.
InDen ==
    /\ \A c \in Attackers(hits) :
           \/ at[c] = Den \/ c \in erases[Den]
           \/ Here = Den /\ game.at \in {"manager", "functions"}
    /\ \A c \in Striking : cm[c] \in {Den, None} \/ (Outside(c) /\ c \in erases[cm[c]])

\* The game thread gets to g before it gets to the dungeon.
Soon(g) ==
    \E i, d \in DOMAIN Order :
        /\ Order[i] = g /\ Order[d] = Den
        /\ game.turn = i => game.at = "channel"
        /\ game.turn = d => game.at \in {"damage", "monsters"}
        /\ IF game.turn < d THEN game.turn <= i /\ i < d
           ELSE game.turn <= i \/ i < d

\* A kill is paid while the character points to the dungeon or to nothing: in any
\* other channel it is about to be erased, before it can be admitted to the dungeon.
Payable ==
    /\ \A g \in Managers, c \in Characters : Pay(c) \in Range(funcs[g]) =>
           IF game.at = "manager" /\ Here = g THEN cm[c] = None \/ (g = Den /\ cm[c] = Den)
           ELSE IF g = Den THEN c \in members[Den]
           ELSE Outside(c) /\ c \in erases[g] /\ Soon(g)
    /\ \A c \in Characters : game.at = "functions" /\ Pay(c) \in Range(copy) =>
           cm[c] = None \/ (Here = Den /\ cm[c] = Den)

\* So levels are news in the dungeon only.
OldNews ==
    \A c \in Characters :
        /\ \A g \in Managers \ {Den} : News(c) \notin Range(funcs[g])
        /\ game.at = "functions" /\ Here # Den => News(c) \notin Range(copy)

PlaceInv == InPlace /\ InTurn /\ InDen /\ Payable /\ OldNews

\* s says nothing of the level of x, or the last that it says.
Mute(s, x) == OfLevel(s, x) = {}
LastLevel(s, x) == s[Max(OfLevel(s, x))].level

\* What is said of a level that was no secret is true, or better is under way; who
\* is told nothing knows.
LevelInv ==
    /\ \A g \in Managers \ {Den}, x \in Characters : Mute(sends[g], x)
    /\ \A g \in Managers : \A x \in Characters \ quiet :
           ~Mute(sends[g], x) => LastLevel(sends[g], x) = level[x] \/ NewsIn(x, g)
    /\ \A g \in Managers : \A c \in Reached(g) \cap Staying(g) :
           \A x \in Staying(g) \ quiet :
               Mute(sends[g], x) => seen[c].level[x] = level[x] \/ NewsIn(x, g)

LEMMA RangeAppend ==
    ASSUME NEW S, NEW s \in Seq(S), NEW e \in S
    PROVE  Range(Append(s, e)) = Range(s) \cup {e}
<1>1. PICK n \in Nat : n = Len(s)
    OBVIOUS
<1>2. /\ DOMAIN s = 1 .. n /\ DOMAIN Append(s, e) = 1 .. n + 1
      /\ Append(s, e)[n + 1] = e /\ \A i \in 1 .. n : Append(s, e)[i] = s[i]
    BY <1>1
<1>3. 1 .. n + 1 = (1 .. n) \cup {n + 1}
    BY <1>1
<1> QED BY <1>2, <1>3 DEF Range

LEMMA RangeTail ==
    ASSUME NEW S, NEW s \in Seq(S), s # <<>>
    PROVE  Range(s) = {Head(s)} \cup Range(Tail(s))
<1>1. PICK n \in Nat : n = Len(s) /\ n # 0
    OBVIOUS
<1>2. /\ DOMAIN s = 1 .. n /\ DOMAIN Tail(s) = 1 .. n - 1 /\ Head(s) = s[1]
      /\ \A i \in 1 .. n - 1 : Tail(s)[i] = s[i + 1]
    BY <1>1
<1>3. \A i \in 1 .. n : i = 1 \/ (i - 1 \in 1 .. n - 1 /\ (i - 1) + 1 = i)
    BY <1>1
<1>4. 1 \in 1 .. n /\ \A i \in 1 .. n - 1 : i + 1 \in 1 .. n
    BY <1>1
<1> DEFINE t == Tail(s)
<1>5. /\ \A x : x \in Range(s) <=> \E i \in 1 .. n : s[i] = x
      /\ \A x : x \in Range(t) <=> \E i \in 1 .. n - 1 : t[i] = x
    BY <1>2 DEF Range
<1>6. \A i \in 1 .. n - 1 : t[i] = s[i + 1]
    BY <1>2
<1> HIDE DEF t
<1>7. ASSUME NEW x \in Range(s) PROVE x = Head(s) \/ x \in Range(t)
    <2>1. PICK i \in 1 .. n : s[i] = x
        BY <1>5
    <2>2. CASE i = 1
        BY <1>2, <2>1, <2>2
    <2>3. CASE i - 1 \in 1 .. n - 1 /\ (i - 1) + 1 = i
        <3>1. t[i - 1] = x
            BY <1>6, <2>1, <2>3
        <3> QED BY <1>5, <2>3, <3>1
    <2> QED BY <1>3, <2>2, <2>3
<1>8. ASSUME NEW x \in Range(t) PROVE x \in Range(s)
    BY <1>4, <1>5, <1>6
<1>9. Head(s) \in Range(s)
    BY <1>2, <1>4, <1>5
<1> QED BY <1>7, <1>8, <1>9 DEF t

LEMMA RangeCons ==
    ASSUME NEW S, NEW t \in Seq(S), NEW e \in S
    PROVE  Range(<<e>> \o t) = {e} \cup Range(t)
<1>1. <<e>> \o t \in Seq(S) /\ <<e>> \o t # <<>>
    OBVIOUS
<1>2. Head(<<e>> \o t) = e /\ Tail(<<e>> \o t) = t
    OBVIOUS
<1> QED BY <1>1, <1>2, RangeTail

LEMMA RangeEmpty == Range(<<>>) = {}
BY DEF Range

LEMMA AttackersType ==
    ASSUME NEW s \in Seq(Requests)
    PROVE  Attackers(s) \subseteq Characters
<1>1. \A i \in DOMAIN s : s[i] \in Requests
    OBVIOUS
<1> QED BY <1>1 DEF Attackers, Range, Requests

LEMMA PlaceTypes ==
    ASSUME TypeOK
    PROVE  /\ at \in [Characters -> Managers \cup {None}] /\ entering \subseteq Characters
           /\ members \in [Managers -> SUBSET Characters]
           /\ cm \in [Characters -> Managers \cup {None}]
           /\ erases \in [Managers -> SUBSET Characters]
           /\ inserts \in [Managers -> SUBSET Characters]
           /\ funcs \in [Managers -> Seq(Functions)] /\ hits \in Seq(Requests)
           /\ Den \in Managers /\ Here \in Managers /\ None \notin Managers
BY HereType, DungeonAssumption DEF DungeonAssumption, TypeOK

-----------------------------------------------------------------------------
(* What clients do to places. *)

\* The effects that matter to the game thread.
ClientEffect ==
    /\ UNCHANGED <<game, copy, members, cm, funcs>>
    /\ \A g \in Managers, c \in Characters :
           /\ c \in erases[g] => c \in erases'[g]
           /\ c \in erases'[g] /\ c \notin erases[g] => at[c] = g /\ at'[c] # g
    /\ \A c \in Characters :
           at'[c] # at[c] => Admitted(c) /\ c \in erases'[at[c]]
    /\ \A c \in Attackers(hits') :
           c \in Attackers(hits) \/ (c \in Characters /\ at[c] = Den /\ at' = at)

LEMMA ClientEffects ==
    ASSUME TypeOK, InPlace, Client
    PROVE  ClientEffect /\ InPlace'
<1> USE PlaceTypes
<1>1. ASSUME NEW c \in Characters, NEW n \in 1 .. MaxTargets, PostDamage(c, n)
      PROVE  ClientEffect /\ InPlace'
    <2>1. /\ UNCHANGED <<game, copy, members, cm, funcs, at, erases, entering, inserts>>
          /\ hits' = Append(hits, [by |-> c, n |-> n, hit |-> {}]) /\ at[c] = Den
        BY <1>1 DEF PostDamage, moveVars, memberVars
    <2>2. [by |-> c, n |-> n, hit |-> {}] \in Requests
        BY DungeonAssumption DEF DungeonAssumption, Requests
    <2> DEFINE r == [by |-> c, n |-> n, hit |-> {}]
    <2>3. r.by = c /\ r \in Requests
        BY <2>2
    <2> HIDE DEF r
    <2>4. \A d \in Attackers(hits') : d \in Attackers(hits) \/ d = c
        <3>1. Range(Append(hits, r)) = Range(hits) \cup {r}
            BY <2>3, RangeAppend
        <3>2. hits' = Append(hits, r)
            BY <2>1 DEF r
        <3> QED BY <2>3, <3>1, <3>2 DEF Attackers
    <2>5. InPlace'
        BY <2>1 DEF InPlace
    <2> QED BY <2>1, <2>4, <2>5 DEF ClientEffect
<1>2. ASSUME NEW c \in Characters, NEW k \in Managers \cup {None},
             Admitted(c), at[c] # k, at' = [at EXCEPT ![c] = k],
             erases' = [erases EXCEPT ![at[c]] = @ \cup {c}],
             UNCHANGED <<game, copy, members, cm, funcs, hits, inserts>>,
             entering' = IF k = None THEN entering ELSE entering \cup {c}
      PROVE  ClientEffect /\ InPlace'
    <2>1. /\ at[c] \in Managers /\ c \notin entering
          /\ c \in members[at[c]] /\ c \notin inserts[at[c]]
        BY <1>2 DEF Admitted
    <2>2. /\ at'[c] = k /\ \A d \in Characters : d # c => at'[d] = at[d]
          /\ \A g \in Managers : \A d \in Characters :
                 d \in erases'[g] <=> d \in erases[g] \/ (d = c /\ g = at[c])
        BY <1>2, <2>1
    <2>3. ClientEffect
        BY <1>2, <2>1, <2>2 DEF ClientEffect
    <2>4. ASSUME NEW g \in Managers, NEW d \in Characters
          PROVE  /\ d \in members[g] => at'[d] = g \/ d \in erases'[g]
                 /\ d \in inserts[g] => at'[d] = g /\ d \notin entering'
                 /\ d \in erases'[g] => d \in members[g]
                                        /\ (at'[d] = g => d \in entering' \cup inserts[g])
                 /\ cm[d] = g => d \in members[g]
                 /\ d \in members[g] /\ cm[d] \notin {g, None} => d \in erases'[g]
        <3>1. CASE d = c
            BY <1>2, <2>1, <2>2, <3>1 DEF InPlace
        <3>2. CASE d # c
            BY <1>2, <2>2, <3>2 DEF InPlace
        <3> QED BY <3>1, <3>2
    <2> QED BY <1>2, <2>3, <2>4 DEF InPlace
<1>3. ASSUME NEW c \in Characters, NEW g \in Managers, Enter(c, g)
      PROVE  ClientEffect /\ InPlace'
    <2>1. /\ Admitted(c) /\ at[c] # g /\ at' = [at EXCEPT ![c] = g]
          /\ erases' = [erases EXCEPT ![at[c]] = @ \cup {c}]
          /\ UNCHANGED <<game, copy, members, cm, funcs, hits, inserts>>
          /\ entering' = entering \cup {c}
        BY <1>3 DEF Enter, memberVars, hitVars
    <2> QED BY <1>2, <2>1
<1>4. ASSUME NEW c \in Characters, Leave(c)
      PROVE  ClientEffect /\ InPlace'
    <2>1. /\ Admitted(c) /\ at[c] # None /\ at' = [at EXCEPT ![c] = None]
          /\ erases' = [erases EXCEPT ![at[c]] = @ \cup {c}]
          /\ UNCHANGED <<game, copy, members, cm, funcs, hits, inserts>>
          /\ entering' = entering
        BY <1>4 DEF Leave, Admitted, memberVars, hitVars
    <2> QED BY <1>2, <2>1
<1>5. ASSUME NEW c \in Characters, Ask(c)
      PROVE  ClientEffect /\ InPlace'
    <2>1. /\ UNCHANGED <<game, copy, members, cm, funcs, at, erases, hits>>
          /\ entering' = entering \ {c}
          /\ inserts' = [inserts EXCEPT ![at[c]] = @ \cup {c}] /\ c \in entering
        BY <1>5 DEF Ask, memberVars, hitVars
    <2>2. ClientEffect
        BY <2>1 DEF ClientEffect
    <2>3. \A g \in Managers : \A d \in Characters :
              d \in inserts'[g] <=> d \in inserts[g] \/ (d = c /\ g = at[c])
        BY <2>1
    <2>4. InPlace'
        BY <2>1, <2>3 DEF InPlace
    <2> QED BY <2>2, <2>4
<1> QED BY <1>1, <1>3, <1>4, <1>5 DEF Client

LEMMA PlaceClient ==
    ASSUME TypeOK, PlaceInv, Client
    PROVE  PlaceInv'
<1> USE PlaceTypes
<1>1. ClientEffect /\ InPlace' /\ InPlace /\ InTurn
    BY ClientEffects DEF PlaceInv
<1>2. Here' = Here /\ game' = game
    BY <1>1 DEF ClientEffect, Here
<1>3. \A c \in Characters : Outside(c) => Outside(c)'
    BY <1>1 DEF ClientEffect, Outside, Admitted
<1>4. \A g : Soon(g)' <=> Soon(g)
    BY <1>2 DEF Soon
<1>5. InTurn'
    <2>1. ASSUME NEW c \in Characters, game.at # "channel", c \in erases'[Here]
          PROVE  at'[c] # Here
        <3>1. CASE c \notin erases[Here]
            BY <1>1, <2>1, <3>1 DEF ClientEffect
        <3>2. CASE c \in erases[Here]
            <4> SUFFICES ASSUME at'[c] = Here PROVE FALSE
                OBVIOUS
            <4>1. at[c] # Here /\ c \in members[Here]
                BY <1>1, <2>1, <3>2 DEF InTurn, InPlace
            <4>2. Admitted(c)
                BY <1>1, <4>1 DEF ClientEffect
            <4>3. at[c] \in Managers /\ c \in members[at[c]] /\ c \notin entering
                  /\ c \notin inserts[at[c]]
                BY <4>2 DEF Admitted
            <4>4. c \in erases[at[c]]
                BY <1>1, <2>1, <4>1, <4>3 DEF InTurn
            <4> QED BY <1>1, <4>3, <4>4 DEF InPlace
        <3> QED BY <3>1, <3>2
    <2>2. members' = members /\ \A g \in Managers, c \in Characters :
                                    c \in erases[g] => c \in erases'[g]
        BY <1>1 DEF ClientEffect
    <2> QED BY <1>1, <1>2, <2>1, <2>2 DEF InTurn
<1>6. InDen'
    <2>2. InDen /\ cm' = cm /\ copy' = copy /\ members' = members
        BY <1>1 DEF PlaceInv, ClientEffect
    <2>3. Attackers(hits) \subseteq Characters
        BY AttackersType
    <2>4. ASSUME NEW c \in Attackers(hits')
          PROVE  \/ at'[c] = Den \/ c \in erases'[Den]
                 \/ Here = Den /\ game.at \in {"manager", "functions"}
        BY <1>1, <2>2, <2>3, <2>4 DEF InDen, ClientEffect
    <2>5. ASSUME NEW c \in Striking', c \in Striking
          PROVE  cm[c] \in {Den, None} \/ (Outside(c)' /\ c \in erases'[cm[c]])
        <3>1. c \in Characters
            <4>1. game.at = "damage" => copy \in Seq(Requests)
                BY DEF TypeOK
            <4>2. game.at = "damage" => Attackers(copy) \subseteq Characters
                BY <4>1, AttackersType
            <4> QED BY <2>3, <2>5, <4>2 DEF Striking
        <3> QED BY <1>1, <1>3, <2>2, <2>5, <3>1 DEF InDen, ClientEffect
    <2>6. ASSUME NEW c \in Striking', c \notin Striking
          PROVE  cm[c] \in {Den, None} \/ (Outside(c)' /\ c \in erases'[cm[c]])
        <3>1. /\ c \in Attackers(hits') /\ c \notin Attackers(hits)
              /\ Here = Den /\ game.at # "channel"
            BY <1>2, <2>2, <2>6 DEF Striking
        <3>2. c \in Characters /\ at[c] = Den /\ at' = at
            BY <1>1, <3>1 DEF ClientEffect
        <3>3. SUFFICES ASSUME cm[c] \notin {Den, None}
                       PROVE  Outside(c) /\ c \in erases[cm[c]]
            BY <1>1, <1>3, <3>2 DEF ClientEffect
        <3>4. cm[c] \in Managers /\ c \in members[cm[c]] /\ c \in erases[cm[c]]
            BY <1>1, <3>2, <3>3 DEF InPlace
        <3>5. c \notin members[Den]
            BY <1>1, <3>1, <3>2, <3>3 DEF InPlace, InTurn
        <3> QED BY <3>2, <3>4, <3>5 DEF Outside
    <2> QED BY <1>2, <2>2, <2>4, <2>5, <2>6 DEF InDen
<1>7. Payable'
    <2>1. Payable /\ UNCHANGED <<funcs, cm, copy, members>>
        BY <1>1 DEF PlaceInv, ClientEffect
    <2>2. \A g \in Managers, c \in Characters : c \in erases[g] => c \in erases'[g]
        BY <1>1 DEF ClientEffect
    <2> QED BY <1>2, <1>3, <1>4, <2>1, <2>2 DEF Payable
<1>8. OldNews'
    BY <1>1, <1>2 DEF PlaceInv, ClientEffect, OldNews
<1> QED BY <1>1, <1>5, <1>6, <1>7, <1>8 DEF PlaceInv

-----------------------------------------------------------------------------
(* What the game thread does to places. *)

\* A place in the walk over channels has one channel.
LEMMA OnePlace ==
    ASSUME TypeOK
    PROVE  /\ game.turn \in DOMAIN Order /\ Order[game.turn] = Here
           /\ \A i, j \in DOMAIN Order : Order[i] = Order[j] => i = j
BY DungeonAssumption DEF DungeonAssumption, TypeOK, Here, IsInjective

\* The effects of a drain of a channel: who was to be erased is, then who was to
\* be inserted is a member.
ChannelEffect ==
    /\ game.at = "channel" /\ game' = [game EXCEPT !.at = "manager"]
    /\ UNCHANGED <<copy, at, entering, hits, funcs>>
    /\ \A g \in Managers, c \in Characters :
           /\ g # Here => /\ c \in members'[g] <=> c \in members[g]
                          /\ c \in erases'[g] <=> c \in erases[g]
                          /\ c \in inserts'[g] <=> c \in inserts[g]
           /\ g = Here => /\ c \in members'[g] <=> \/ c \in members[g] /\ c \notin erases[g]
                                                   \/ c \in inserts[g]
                          /\ c \notin erases'[g] /\ c \notin inserts'[g]
    /\ \A c \in Characters :
           cm'[c] = IF c \in members[Here] /\ c \notin erases[Here] THEN cm[c]
                    ELSE IF c \in inserts[Here] THEN Here
                    ELSE IF c \in erases[Here] THEN None ELSE cm[c]

LEMMA ChannelEffects ==
    ASSUME TypeOK, InPlace, DrainChannel
    PROVE  ChannelEffect
<1> DEFINE left == members[Here] \cap erases[Here]
           new == inserts[Here] \ (members[Here] \ left)
           all == (members[Here] \ left) \cup new
<1>0. Drained(Here) = all
    BY DEF Drained
<1> USE PlaceTypes
<1>1. /\ game.at = "channel" /\ game' = [game EXCEPT !.at = "manager"]
      /\ UNCHANGED <<copy, at, entering, hits, funcs>>
      /\ members' = [members EXCEPT ![Here] = all]
      /\ erases' = [erases EXCEPT ![Here] = {}]
      /\ inserts' = [inserts EXCEPT ![Here] = {}]
      /\ cm' = [c \in Characters |-> IF c \in new THEN Here
                                     ELSE IF c \in left THEN None ELSE cm[c]]
    BY <1>0 DEF DrainChannel, Goto, hitVars
<1>2. \A c \in Characters : c \in erases[Here] => c \in members[Here]
    BY DEF InPlace
<1>3. \A c : /\ c \in left <=> c \in members[Here] /\ c \in erases[Here]
             /\ c \in new <=> c \in inserts[Here]
                              /\ ~(c \in members[Here] /\ c \notin erases[Here])
             /\ c \in all <=> \/ c \in members[Here] /\ c \notin erases[Here]
                              \/ c \in inserts[Here]
    OBVIOUS
<1> HIDE DEF left, new, all
<1>4. ASSUME NEW g \in Managers
      PROVE  /\ g # Here => members'[g] = members[g] /\ erases'[g] = erases[g]
                            /\ inserts'[g] = inserts[g]
             /\ g = Here => members'[g] = all /\ erases'[g] = {} /\ inserts'[g] = {}
    BY <1>1
<1>5. ASSUME NEW c \in Characters
      PROVE  cm'[c] = IF c \in members[Here] /\ c \notin erases[Here] THEN cm[c]
                      ELSE IF c \in inserts[Here] THEN Here
                      ELSE IF c \in erases[Here] THEN None ELSE cm[c]
    BY <1>1, <1>2, <1>3
<1>6. \A g \in Managers, c \in Characters :
          /\ g # Here => /\ c \in members'[g] <=> c \in members[g]
                         /\ c \in erases'[g] <=> c \in erases[g]
                         /\ c \in inserts'[g] <=> c \in inserts[g]
          /\ g = Here => /\ c \in members'[g] <=> \/ c \in members[g] /\ c \notin erases[g]
                                                  \/ c \in inserts[g]
                         /\ c \notin erases'[g] /\ c \notin inserts'[g]
    BY <1>3, <1>4
<1> QED BY <1>1, <1>5, <1>6 DEF ChannelEffect

LEMMA PlaceDrainChannel ==
    ASSUME TypeOK, PlaceInv, DrainChannel
    PROVE  PlaceInv'
<1> USE PlaceTypes
<1>1. ChannelEffect /\ InPlace /\ InTurn
    BY ChannelEffects DEF PlaceInv
<1>2. /\ Here' = Here /\ game'.turn = game.turn
      /\ game.at = "channel" /\ game'.at = "manager"
    BY <1>1 DEF ChannelEffect, TypeOK, Here
<1>3. InPlace'
    <2>1. ASSUME NEW g \in Managers, NEW c \in Characters
          PROVE  /\ c \in members'[g] => at[c] = g \/ c \in erases'[g]
                 /\ c \in inserts'[g] => at[c] = g /\ c \notin entering
                 /\ c \in erases'[g] => c \in members'[g]
                                        /\ (at[c] = g => c \in entering \cup inserts'[g])
                 /\ cm'[c] = g => c \in members'[g]
                 /\ c \in members'[g] /\ cm'[c] \notin {g, None} => c \in erases'[g]
        <3>1. CASE g = Here
            BY <1>1, <3>1 DEF ChannelEffect, InPlace
        <3>2. CASE g # Here
            BY <1>1, <3>2 DEF ChannelEffect, InPlace
        <3> QED BY <3>1, <3>2
    <2>2. at' = at /\ entering' = entering
        BY <1>1 DEF ChannelEffect
    <2> QED BY <2>1, <2>2 DEF InPlace
<1>4. InTurn'
    <2>1. ASSUME NEW c \in Characters, c \in members'[Here], NEW g \in Managers \ {Here},
                 c \in members'[g]
          PROVE  c \in erases'[g]
        <3>1. at[c] = Here
            BY <1>1, <2>1 DEF ChannelEffect, InPlace
        <3>2. c \in members[g]
            BY <1>1, <2>1 DEF ChannelEffect
        <3> QED BY <1>1, <3>1, <3>2 DEF ChannelEffect, InPlace
    <2>2. \A c \in Characters : c \notin erases'[Here]
        BY <1>1 DEF ChannelEffect
    <2> QED BY <1>2, <2>1, <2>2 DEF InTurn
<1>5. InDen'
    <2>1. InDen /\ hits' = hits /\ at' = at
        BY <1>1 DEF PlaceInv, ChannelEffect
    <2>2. Attackers(hits) \subseteq Characters
        BY AttackersType
    <2>3. ASSUME NEW c \in Attackers(hits)
          PROVE  \/ at[c] = Den \/ c \in erases'[Den] \/ Here = Den
        BY <1>1, <1>2, <2>1, <2>2 DEF InDen, ChannelEffect
    <2>4. ASSUME NEW c \in Attackers(hits), Here = Den, cm'[c] \notin {Den, None}
          PROVE  Outside(c)' /\ c \in erases'[cm'[c]]
        <3>1. c \in Characters
            BY <2>2
        <3>2. cm'[c] = cm[c] /\ c \notin inserts[Den] /\ c \notin erases[Den]
            <4>1. c \in erases[Den] => c \in members[Den]
                BY <1>1, <3>1 DEF InPlace
            <4>2. c \in members[Den] /\ c \notin erases[Den] => cm[c] \in {Den, None}
                BY <1>1, <3>1 DEF InPlace
            <4> QED BY <1>1, <2>4, <3>1, <4>1, <4>2 DEF ChannelEffect
        <3>3. at[c] = Den
            BY <1>2, <2>1, <3>2 DEF InDen
        <3>4. cm[c] \in Managers /\ cm[c] # Den
            BY <2>4, <3>1, <3>2
        <3>5. c \in erases[cm[c]] /\ c \notin members[Den]
            BY <1>1, <2>4, <3>1, <3>2, <3>3, <3>4 DEF InPlace
        <3>6. c \in erases'[cm[c]] /\ c \notin members'[Den]
            BY <1>1, <2>4, <3>1, <3>2, <3>4, <3>5 DEF ChannelEffect
        <3> QED BY <2>1, <3>2, <3>3, <3>6 DEF Outside
    <2> QED BY <1>2, <2>1, <2>3, <2>4 DEF InDen, Striking
<1>6. Payable'
    <2>1. ASSUME NEW g \in Managers, NEW c \in Characters, Pay(c) \in Range(funcs[g])
          PROVE  IF g = Here THEN cm'[c] = None \/ (g = Den /\ cm'[c] = Den)
                 ELSE IF g = Den THEN c \in members'[Den]
                 ELSE Outside(c)' /\ c \in erases'[g] /\ Soon(g)'
        <3>1. IF g = Den THEN c \in members[Den]
              ELSE Outside(c) /\ c \in erases[g] /\ Soon(g)
            BY <1>2, <2>1 DEF PlaceInv, Payable
        <3>2. CASE g = Here /\ g = Den
            BY <1>1, <3>1, <3>2 DEF ChannelEffect, InPlace
        <3>3. CASE g = Here /\ g # Den
            BY <1>1, <3>1, <3>3 DEF ChannelEffect, InPlace, Outside
        <3>4. CASE g # Here /\ g = Den
            BY <1>1, <3>1, <3>4 DEF ChannelEffect
        <3>5. CASE g # Here /\ g # Den
            <4>1. PICK i, d \in DOMAIN Order :
                      /\ Order[i] = g /\ Order[d] = Den
                      /\ game.turn = i => game.at = "channel"
                      /\ game.turn = d => game.at \in {"damage", "monsters"}
                      /\ IF game.turn < d THEN game.turn <= i /\ i < d
                         ELSE game.turn <= i \/ i < d
                BY <3>1, <3>5 DEF Soon
            <4>2. game.turn # i /\ game.turn # d
                BY <1>2, <3>5, <4>1, OnePlace
            <4>3. Soon(g)'
                BY <1>2, <4>1, <4>2 DEF Soon
            <4>4. Here # Den
                BY <4>1, <4>2, OnePlace
            <4> QED BY <1>1, <3>1, <3>5, <4>3, <4>4 DEF ChannelEffect, Outside
        <3> QED BY <3>2, <3>3, <3>4, <3>5
    <2>2. funcs' = funcs
        BY <1>1 DEF ChannelEffect
    <2> QED BY <1>2, <2>1, <2>2 DEF Payable
<1>7. OldNews'
    BY <1>1, <1>2 DEF PlaceInv, OldNews, ChannelEffect
<1> QED BY <1>3, <1>4, <1>5, <1>6, <1>7 DEF PlaceInv

LEMMA PlaceKept ==
    ASSUME InPlace, UNCHANGED <<at, entering, members, cm, erases, inserts>>
    PROVE  InPlace'
BY DEF InPlace

LEMMA SoonKept ==
    ASSUME TypeOK, NEW g \in Managers, Soon(g), game'.turn = game.turn,
           game.at # "channel",
           game.at \in {"damage", "monsters"} => game'.at \in {"damage", "monsters"}
    PROVE  g # Here /\ Soon(g)'
<1>1. PICK i, d \in DOMAIN Order :
          /\ Order[i] = g /\ Order[d] = Den
          /\ game.turn = i => game.at = "channel"
          /\ game.turn = d => game.at \in {"damage", "monsters"}
          /\ IF game.turn < d THEN game.turn <= i /\ i < d
             ELSE game.turn <= i \/ i < d
    BY DEF Soon
<1>2. game.turn # i
    BY <1>1
<1>3. Soon(g)'
    BY <1>1, <1>2 DEF Soon
<1> QED BY <1>1, <1>2, <1>3, OnePlace

\* The channel after the one at t, of n.
LEMMA NextPlace ==
    ASSUME NEW n \in Nat \ {0}, NEW t \in 1 .. n
    PROVE  (t % n) + 1 = IF t < n THEN t + 1 ELSE 1
OBVIOUS

LEMMA SoonNext ==
    ASSUME TypeOK, NEW g \in Managers, Soon(g), game.at # "channel", NextChannel
    PROVE  Soon(g)'
<1>1. PICK i, d \in DOMAIN Order :
          /\ Order[i] = g /\ Order[d] = Den
          /\ game.turn = i => game.at = "channel"
          /\ game.turn = d => game.at \in {"damage", "monsters"}
          /\ IF game.turn < d THEN game.turn <= i /\ i < d
             ELSE game.turn <= i \/ i < d
    BY Zenon DEF Soon
<1>2. PICK n \in Nat \ {0} : n = Len(Order) /\ DOMAIN Order = 1 .. n
    <2>1. Order \in Seq(Managers) /\ Order # <<>>
        BY DungeonAssumption DEF DungeonAssumption
    <2>2. Len(Order) \in Nat /\ DOMAIN Order = 1 .. Len(Order) /\ Len(Order) # 0
        BY <2>1
    <2> QED BY <2>2
<1>3. game.turn \in 1 .. n /\ i \in 1 .. n /\ d \in 1 .. n
    BY <1>2, OnePlace
<1>4. /\ game'.at = "channel"
      /\ game'.turn = IF game.turn < n THEN game.turn + 1 ELSE 1
    BY <1>2, <1>3, NextPlace DEF NextChannel
<1>5. game.turn # i
    BY <1>1
<1>6. /\ game'.turn # d
      /\ IF game'.turn < d THEN game'.turn <= i /\ i < d
         ELSE game'.turn <= i \/ i < d
    BY <1>1, <1>3, <1>4, <1>5
<1> QED BY <1>1, <1>4, <1>6 DEF Soon

\* The effects, in the middle of a visit, on what the places of characters bear on.
VisitEffect ==
    /\ UNCHANGED <<at, entering, members, cm, erases, inserts>>
    /\ game'.turn = game.turn
    /\ game.at \notin {"channel", "manager"} /\ game'.at \notin {"channel", "manager"}
    /\ game'.at \in {"damage", "monsters"} => Here = Den
    /\ game.at \in {"damage", "monsters"} => game'.at \in {"damage", "monsters"}
    /\ \A g \in Managers, f \in Functions : f \in Range(funcs'[g]) =>
           \/ f \in Range(funcs[g])
           \/ g = Den /\ \E c \in Characters : f = News(c)
           \/ game.at = "damage" /\ \E k \in Characters \cap Striking :
                                        f = Pay(k) /\ g = cm[k]
    /\ game'.at = "functions" => game.at = "functions" /\ Range(copy') \subseteq Range(copy)
    /\ \A c \in Attackers(hits') :
           c \in Attackers(hits) /\ (game.at = "functions" => game'.at = "functions")
    /\ Striking' \subseteq Striking

LEMMA PlaceVisit ==
    ASSUME TypeOK, PlaceInv, VisitEffect
    PROVE  PlaceInv'
<1> USE PlaceTypes
<1>1. /\ InPlace /\ InTurn /\ InDen /\ Payable /\ OldNews
      /\ UNCHANGED <<at, entering, members, cm, erases, inserts>>
      /\ game'.turn = game.turn
      /\ game.at \notin {"channel", "manager"} /\ game'.at \notin {"channel", "manager"}
      /\ game'.at \in {"damage", "monsters"} => Here = Den
      /\ game.at \in {"damage", "monsters"} => game'.at \in {"damage", "monsters"}
    BY DEF PlaceInv, VisitEffect
<1>2. Here' = Here
    BY <1>1 DEF Here
<1>3. \A c \in Characters : Pay(c) \in Functions /\ News(c) \in Functions
    BY DEF Pay, News, Functions
<1>4. \A c, d \in Characters : Pay(c) # News(d) /\ (Pay(c) = Pay(d) => c = d)
    BY DEF Pay, News
<1>5. InPlace' /\ InTurn'
    BY <1>1, <1>2, PlaceKept DEF InTurn
<1>6. InDen'
    <2>1. Attackers(hits) \subseteq Characters
        BY AttackersType
    <2>2. ASSUME NEW c \in Attackers(hits')
          PROVE  \/ at[c] = Den \/ c \in erases[Den]
                 \/ Here = Den /\ game'.at \in {"manager", "functions"}
        BY <1>1, <2>1, <2>2 DEF InDen, VisitEffect
    <2>3. ASSUME NEW c \in Striking'
          PROVE  cm[c] \in {Den, None} \/ (Outside(c) /\ c \in erases[cm[c]])
        BY <1>1, <2>3 DEF InDen, VisitEffect
    <2> QED BY <1>1, <1>2, <2>2, <2>3 DEF InDen, Outside
<1>7. Payable'
    <2>1. ASSUME NEW g \in Managers, NEW c \in Characters, Pay(c) \in Range(funcs'[g])
          PROVE  IF g = Den THEN c \in members[Den]
                 ELSE Outside(c) /\ c \in erases[g] /\ Soon(g)'
        <3>1. CASE Pay(c) \in Range(funcs[g])
            <4>1. IF g = Den THEN c \in members[Den]
                  ELSE Outside(c) /\ c \in erases[g] /\ Soon(g)
                BY <1>1, <3>1 DEF Payable
            <4> QED BY <1>1, <4>1, SoonKept
        <3>2. CASE Pay(c) \notin Range(funcs[g])
            <4>1. game.at = "damage" /\ c \in Striking /\ g = cm[c] /\ Here = Den
                BY <1>1, <1>3, <1>4, <2>1, <3>2 DEF VisitEffect, InTurn
            <4>2. CASE g = Den
                BY <1>1, <4>1, <4>2 DEF InPlace
            <4>3. CASE g # Den
                <5>1. Outside(c) /\ c \in erases[g]
                    BY <1>1, <4>1, <4>3 DEF InDen
                <5>2. PICK i \in DOMAIN Order : Order[i] = g
                    BY DEF Managers, Range
                <5>3. PICK n \in Nat : DOMAIN Order = 1 .. n
                    BY DungeonAssumption DEF DungeonAssumption
                <5>4. game.turn \in 1 .. n /\ i \in 1 .. n /\ i # game.turn
                    BY <4>1, <4>3, <5>2, <5>3, OnePlace
                <5>5. game.turn <= i \/ i < game.turn
                    BY <5>4
                <5>6. Soon(g)
                    <6>1. Order[game.turn] = Den /\ game.turn \in DOMAIN Order
                        BY <4>1, OnePlace
                    <6>2. ~ (game.turn < game.turn)
                        BY <5>4
                    <6> QED BY <4>1, <5>2, <5>4, <5>5, <6>1, <6>2 DEF Soon
                <5> QED BY <1>1, <4>3, <5>1, <5>6, SoonKept
            <4> QED BY <4>2, <4>3
        <3> QED BY <3>1, <3>2
    <2>2. ASSUME NEW c \in Characters, game'.at = "functions", Pay(c) \in Range(copy')
          PROVE  cm[c] = None \/ (Here = Den /\ cm[c] = Den)
        BY <1>1, <2>2 DEF Payable, VisitEffect
    <2> QED BY <1>1, <1>2, <2>1, <2>2 DEF Payable, Outside
<1>8. OldNews'
    <2>1. ASSUME NEW c \in Characters, NEW g \in Managers \ {Den}
          PROVE  News(c) \notin Range(funcs'[g])
        <3>1. News(c) \notin Range(funcs[g])
            BY <1>1 DEF OldNews
        <3> QED BY <1>3, <1>4, <3>1 DEF VisitEffect
    <2>2. ASSUME NEW c \in Characters, game'.at = "functions", Here # Den
          PROVE  News(c) \notin Range(copy')
        BY <1>1, <2>2 DEF OldNews, VisitEffect
    <2> QED BY <1>2, <2>1, <2>2 DEF OldNews
<1> QED BY <1>5, <1>6, <1>7, <1>8 DEF PlaceInv

LEMMA PlaceDrainManager ==
    ASSUME TypeOK, PlaceInv, DrainManager
    PROVE  PlaceInv'
<1> USE PlaceTypes
<1>1. /\ InPlace /\ InTurn /\ InDen /\ Payable /\ OldNews
      /\ UNCHANGED <<at, entering, members, cm, erases, inserts, hits>>
      /\ copy' = funcs[Here] /\ funcs' = [funcs EXCEPT ![Here] = <<>>]
    BY DEF PlaceInv, DrainManager, moveVars, memberVars, hitVars
<1>2. game'.turn = game.turn /\ game.at = "manager" /\ game'.at = "functions"
    BY DEF DrainManager, Goto, TypeOK
<1>3. Here' = Here
    BY <1>2 DEF Here
<1>4. /\ Range(funcs'[Here]) = {}
      /\ \A g \in Managers \ {Here} : funcs'[g] = funcs[g]
    BY <1>1, RangeEmpty
<1>5. InPlace' /\ InTurn'
    BY <1>1, <1>2, <1>3, PlaceKept DEF InTurn
<1>6. InDen'
    BY <1>1, <1>2, <1>3 DEF InDen, Striking, Outside
<1>7. Payable'
    <2>1. ASSUME NEW g \in Managers, NEW c \in Characters, Pay(c) \in Range(funcs'[g])
          PROVE  IF g = Den THEN c \in members[Den]
                 ELSE Outside(c) /\ c \in erases[g] /\ Soon(g)'
        <3>1. g # Here /\ Pay(c) \in Range(funcs[g])
            BY <1>4, <2>1
        <3>2. IF g = Den THEN c \in members[Den]
              ELSE Outside(c) /\ c \in erases[g] /\ Soon(g)
            BY <1>1, <1>2, <3>1 DEF Payable
        <3> QED BY <1>2, <3>2, SoonKept
    <2>2. ASSUME NEW c \in Characters, Pay(c) \in Range(copy')
          PROVE  cm[c] = None \/ (Here = Den /\ cm[c] = Den)
        BY <1>1, <1>2, <2>2 DEF Payable
    <2> QED BY <1>1, <1>2, <1>3, <2>1, <2>2 DEF Payable, Outside
<1>8. OldNews'
    <2>1. ASSUME NEW c \in Characters, NEW g \in Managers \ {Den}
          PROVE  News(c) \notin Range(funcs'[g])
        BY <1>1, <1>4 DEF OldNews
    <2>2. ASSUME NEW c \in Characters, Here # Den
          PROVE  News(c) \notin Range(copy')
        BY <1>1, <2>2 DEF OldNews
    <2> QED BY <1>3, <2>1, <2>2 DEF OldNews
<1> QED BY <1>5, <1>6, <1>7, <1>8 DEF PlaceInv

\* On to the next channel; nobody attacks there.
LEMMA PlaceNextChannel ==
    ASSUME TypeOK, PlaceInv, NextChannel, game.at \in {"functions", "monsters"},
           Here = Den => game.at = "monsters",
           UNCHANGED <<at, entering, members, cm, erases, inserts, hits, funcs>>
    PROVE  PlaceInv'
<1> USE PlaceTypes
<1>1. InPlace /\ InTurn /\ InDen /\ Payable /\ OldNews
    BY DEF PlaceInv
<1>2. game'.at = "channel"
    BY DEF NextChannel
<1>3. InPlace' /\ InTurn'
    BY <1>1, <1>2, PlaceKept DEF InTurn
<1>4. InDen'
    BY <1>1, <1>2 DEF InDen, Striking
<1>5. Payable'
    <2>1. ASSUME NEW g \in Managers, NEW c \in Characters, Pay(c) \in Range(funcs[g])
          PROVE  IF g = Den THEN c \in members[Den]
                 ELSE Outside(c) /\ c \in erases[g] /\ Soon(g)'
        <3>1. IF g = Den THEN c \in members[Den]
              ELSE Outside(c) /\ c \in erases[g] /\ Soon(g)
            BY <1>1, <2>1 DEF Payable
        <3> QED BY <3>1, SoonNext
    <2> QED BY <1>2, <2>1 DEF Payable, Outside
<1>6. OldNews'
    BY <1>1, <1>2 DEF OldNews
<1> QED BY <1>3, <1>4, <1>5, <1>6 DEF PlaceInv

\* Steps on functions: what is posted is news, to the manager of the dungeon.
LEMMA PlaceAddCurrentExp ==
    ASSUME TypeOK, PlaceInv, AddCurrentExp
    PROVE  PlaceInv'
<1> DEFINE c == Head(copy).c
<1> USE PlaceTypes
<1>1. /\ copy \in Seq(Functions) /\ copy # <<>> /\ game.at = "functions"
      /\ copy' = Tail(copy) /\ game' = game
      /\ UNCHANGED <<at, entering, members, cm, erases, inserts, hits>>
    BY DEF TypeOK, AddCurrentExp, moveVars, memberVars, hitVars
<1>2. Head(copy) \in Functions /\ Head(copy).op = "exp"
    BY <1>1 DEF AddCurrentExp
<1>3. c \in Characters /\ Head(copy) = Pay(c) /\ News(c) \in Functions
    BY <1>2 DEF Functions, Pay, News
<1>4. \/ funcs' = funcs
      \/ cm[c] # None /\ funcs' = [funcs EXCEPT ![cm[c]] = Append(@, News(c))]
    BY DEF AddCurrentExp, LevelUp, News
<1> HIDE DEF c
<1>5. Range(copy) = {Pay(c)} \cup Range(copy')
    BY <1>1, <1>3, RangeTail
<1>6. cm[c] \in {None, Den}
    <2>1. Pay(c) \in Range(copy)
        BY <1>5
    <2> QED BY <1>1, <1>3, <2>1 DEF PlaceInv, Payable
<1>7. ASSUME NEW g \in Managers, NEW f \in Functions, f \in Range(funcs'[g])
      PROVE  f \in Range(funcs[g]) \/ (g = Den /\ f = News(c))
    <2>1. CASE funcs' = funcs
        BY <1>7, <2>1
    <2>2. CASE cm[c] # None /\ funcs' = [funcs EXCEPT ![cm[c]] = Append(@, News(c))]
        <3>1. cm[c] = Den /\ funcs'[Den] = Append(funcs[Den], News(c))
              /\ (g # Den => funcs'[g] = funcs[g])
            BY <1>6, <2>2
        <3>2. Range(funcs'[Den]) = Range(funcs[Den]) \cup {News(c)}
            BY <1>3, <3>1, RangeAppend
        <3> QED BY <1>7, <3>1, <3>2
    <2> QED BY <1>4, <2>1, <2>2
<1>8. /\ Here' = Here /\ Striking' = Striking
    BY <1>1 DEF Striking, Here
<1>9. VisitEffect
    BY <1>1, <1>3, <1>5, <1>7, <1>8 DEF VisitEffect
<1> QED BY <1>9, PlaceVisit

LEMMA PlaceTellLevel ==
    ASSUME TypeOK, PlaceInv, TellLevel
    PROVE  PlaceInv'
<1>1. /\ copy \in Seq(Functions) /\ copy # <<>> /\ game.at = "functions"
      /\ copy' = Tail(copy) /\ game' = game
      /\ UNCHANGED <<at, entering, members, cm, erases, inserts, hits, funcs>>
    BY DEF TypeOK, TellLevel, moveVars, memberVars, hitVars
<1>2. Range(copy') \subseteq Range(copy)
    BY <1>1, RangeTail
<1>3. Striking' = Striking
    BY <1>1 DEF Striking, Here
<1>4. VisitEffect
    BY <1>1, <1>2, <1>3 DEF VisitEffect
<1> QED BY <1>4, PlaceVisit

LEMMA PlaceLeaveManager ==
    ASSUME TypeOK, PlaceInv, LeaveManager
    PROVE  PlaceInv'
<1>1. /\ game.at = "functions"
      /\ UNCHANGED <<at, entering, members, cm, erases, inserts, funcs>>
    BY DEF LeaveManager, moveVars, memberVars
<1>2. CASE Here = Den
    <2>1. /\ game'.at = "damage" /\ game'.turn = game.turn
          /\ copy' = hits /\ hits' = <<>>
        BY <1>2 DEF LeaveManager, Goto, TypeOK
    <2>2. Attackers(hits') = {} /\ Striking' = Attackers(hits)
        BY <2>1, RangeEmpty DEF Attackers, Striking
    <2>3. VisitEffect
        BY <1>1, <1>2, <2>1, <2>2 DEF VisitEffect, Striking
    <2> QED BY <2>3, PlaceVisit
<1>3. CASE Here # Den
    <2>1. NextChannel /\ hits' = hits
        BY <1>3 DEF LeaveManager
    <2> QED BY <1>1, <1>3, <2>1, PlaceNextChannel
<1> QED BY <1>2, <1>3

LEMMA PlaceHit ==
    ASSUME TypeOK, PlaceInv, NEW m \in Monsters, NEW d \in Blows, Hit(m, d)
    PROVE  PlaceInv'
<1> DEFINE k == Head(copy).by
           r == [Head(copy) EXCEPT !.n = @ - 1,
                                   !.hit = IF Strikes(m, d) THEN @ \cup {m} ELSE @]
<1> USE PlaceTypes
<1>1. /\ copy \in Seq(Requests) /\ copy # <<>> /\ game.at = "damage"
      /\ copy' = <<r>> \o Tail(copy) /\ game' = game
      /\ UNCHANGED <<at, entering, members, cm, erases, inserts, hits>>
    BY DEF TypeOK, Hit, moveVars, memberVars, hitVars
<1>2. Head(copy) \in Requests /\ Head(copy).n > 0 /\ Tail(copy) \in Seq(Requests)
    BY <1>1 DEF Hit
<1>3. k \in Characters /\ r.by = k
    BY <1>2 DEF Requests
<1>4. \/ funcs' = funcs
      \/ cm[k] # None /\ funcs' = [funcs EXCEPT ![cm[k]] = Append(@, Pay(k))]
    BY DEF Hit, Hurt, Pay
<1>5. Range(copy) = {Head(copy)} \cup Range(Tail(copy))
      /\ Range(copy') = {r} \cup Range(Tail(copy))
    <2> HIDE DEF r
    <2>1. Range(<<r>> \o Tail(copy)) = {r} \cup Range(Tail(copy))
        <3> DEFINE S == Requests \cup {r}
        <3>1. Tail(copy) \in Seq(S) /\ r \in S
            BY <1>2
        <3> QED BY <3>1, RangeCons
    <2> QED BY <1>1, <2>1, RangeTail
<1> DEFINE t == Tail(copy)
<1>6. Attackers(copy') = Attackers(copy) /\ k \in Attackers(copy)
    <2>1. Head(copy).by = k
        OBVIOUS
    <2> HIDE DEF k, r, t
    <2> QED BY <1>3, <1>5, <2>1 DEF Attackers, t
<1> HIDE DEF k, r, t
<1>7. ASSUME NEW g \in Managers, NEW f \in Functions, f \in Range(funcs'[g])
      PROVE  f \in Range(funcs[g]) \/ (f = Pay(k) /\ g = cm[k])
    <2>1. CASE funcs' = funcs
        BY <1>7, <2>1
    <2>2. CASE cm[k] # None /\ funcs' = [funcs EXCEPT ![cm[k]] = Append(@, Pay(k))]
        <3>0. Pay(k) \in Functions /\ cm[k] \in Managers
            BY <1>3, <2>2 DEF Pay, Functions
        <3>1. /\ funcs'[cm[k]] = Append(funcs[cm[k]], Pay(k))
              /\ (g # cm[k] => funcs'[g] = funcs[g])
            BY <2>2, <3>0
        <3>2. Range(funcs'[cm[k]]) = Range(funcs[cm[k]]) \cup {Pay(k)}
            BY <3>0, <3>1, RangeAppend
        <3> QED BY <1>7, <3>1, <3>2
    <2> QED BY <1>4, <2>1, <2>2
<1>8. Striking' = Striking /\ k \in Striking
    BY <1>1, <1>6 DEF Striking
<1>9. Here = Den
    BY <1>1 DEF PlaceInv, InTurn
<1>10. VisitEffect
    BY <1>1, <1>3, <1>7, <1>8, <1>9 DEF VisitEffect
<1> QED BY <1>10, PlaceVisit

LEMMA PlaceEndDamage ==
    ASSUME TypeOK, PlaceInv, EndDamage
    PROVE  PlaceInv'
<1>1. /\ copy \in Seq(Requests) /\ copy # <<>> /\ game.at = "damage"
      /\ copy' = Tail(copy) /\ game' = game
      /\ UNCHANGED <<at, entering, members, cm, erases, inserts, hits, funcs>>
    BY DEF TypeOK, EndDamage, moveVars, memberVars, hitVars
<1>2. Range(copy') \subseteq Range(copy)
    BY <1>1, RangeTail
<1>3. Striking' \subseteq Striking
    BY <1>1, <1>2 DEF Striking, Attackers
<1>4. Here = Den
    BY <1>1 DEF PlaceInv, InTurn
<1>5. VisitEffect
    BY <1>1, <1>3, <1>4 DEF VisitEffect
<1> QED BY <1>5, PlaceVisit

\* The monsters: characters and mailboxes but sends are left alone.
LEMMA PlaceMonsters ==
    ASSUME TypeOK, PlaceInv, game.at \in {"damage", "monsters"},
           game'.at = "monsters", game'.turn = game.turn,
           UNCHANGED <<at, entering, members, cm, erases, inserts, hits, funcs>>
    PROVE  PlaceInv'
<1>1. Here = Den
    BY DEF PlaceInv, InTurn
<1>2. Striking' = {}
    BY DEF Striking
<1>3. VisitEffect
    BY <1>1, <1>2 DEF VisitEffect
<1> QED BY <1>3, PlaceVisit

LEMMA PlaceStep ==
    ASSUME TypeOK, PlaceInv, [Next]_vars
    PROVE  PlaceInv'
<1>1. CASE UNCHANGED vars
    BY <1>1 DEF vars, moveVars, memberVars, hitVars, PlaceInv, InPlace, InTurn, InDen,
                Payable, OldNews, Soon, Outside, Striking, Here
<1>2. CASE StartMonsters
    <2>1. /\ game.at = "damage" /\ game'.at = "monsters" /\ game'.turn = game.turn
          /\ UNCHANGED <<at, entering, members, cm, erases, inserts, hits, funcs>>
        BY <1>2 DEF StartMonsters, TypeOK, moveVars, memberVars, hitVars
    <2> QED BY <2>1, PlaceMonsters
<1>3. CASE \E m \in Monsters, near \in Nearest(Den), n \in 0 .. MaxPoints : Tick(m, near, n)
    <2>1. PICK m \in Monsters, near \in Nearest(Den), n \in 0 .. MaxPoints : Tick(m, near, n)
        BY <1>3
    <2>2. /\ game.at = "monsters" /\ game'.at = "monsters" /\ game'.turn = game.turn
          /\ UNCHANGED <<at, entering, members, cm, erases, inserts, hits, funcs>>
        BY <2>1 DEF Tick, TypeOK, moveVars, memberVars, hitVars
    <2> QED BY <2>2, PlaceMonsters
<1>4. CASE EndMonsters
    BY <1>4, PlaceNextChannel DEF EndMonsters, moveVars, memberVars, hitVars
<1> QED BY <1>1, <1>2, <1>3, <1>4, PlaceClient, PlaceDrainChannel, PlaceDrainManager,
           PlaceAddCurrentExp, PlaceTellLevel, PlaceLeaveManager, PlaceHit, PlaceEndDamage
           DEF Next, GameStep

LEMMA InitPlace == Init => PlaceInv
<1> SUFFICES ASSUME Init PROVE PlaceInv
    OBVIOUS
<1>1. /\ game.at = "channel" /\ hits = <<>> /\ at \in [Characters -> Managers]
      /\ entering = {} /\ members = [g \in Managers |-> {}]
      /\ cm = [c \in Characters |-> None] /\ erases = [g \in Managers |-> {}]
      /\ inserts = [g \in Managers |-> {c \in Characters : at[c] = g}]
      /\ funcs = [g \in Managers |-> <<>>]
    BY DEF Init
<1>2. Attackers(hits) = {} /\ \A g \in Managers : Range(funcs[g]) = {}
    BY <1>1, RangeEmpty DEF Attackers
<1>3. None \notin Managers
    BY DungeonAssumption DEF DungeonAssumption
<1>4. InPlace
    BY <1>1, <1>3 DEF InPlace
<1> QED BY <1>1, <1>2, <1>4 DEF PlaceInv, InTurn, InDen, Striking, Payable, OldNews

-----------------------------------------------------------------------------
(* What clients know of each other's levels. *)

LEMMA ToldLevel ==
    ASSUME NEW v, NEW s, NEW x \in Characters
    PROVE  Told(v, s).level[x] = IF Mute(s, x) THEN v.level[x] ELSE LastLevel(s, x)
BY DEF Told, Mute, LastLevel

LEMMA NoWord ==
    ASSUME NEW x
    PROVE  Mute(<<>>, x)
BY DEF Mute, OfLevel

\* One more message, of the level of x or not.
Tells(msg, x) == msg.kind = "level" /\ msg.who = x

LEMMA LevelLast ==
    ASSUME NEW s \in Seq(Messages), NEW msg \in Messages, NEW x, Tells(msg, x)
    PROVE  /\ ~Mute(Append(s, msg), x)
           /\ LastLevel(Append(s, msg), x) = msg.level
<1> DEFINE t == Append(s, msg)
<1>1. PICK n \in Nat : n = Len(s)
    OBVIOUS
<1>2. Len(t) = n + 1 /\ t[n + 1] = msg
    BY <1>1
<1> HIDE DEF t
<1>3. n + 1 \in OfLevel(t, x) /\ OfLevel(t, x) \subseteq 1 .. n + 1
    BY <1>2 DEF OfLevel, Tells
<1>4. /\ Max(OfLevel(t, x)) \in OfLevel(t, x)
      /\ \A i \in OfLevel(t, x) : i <= Max(OfLevel(t, x))
    <2>1. n + 1 \in Nat /\ OfLevel(t, x) # {}
        BY <1>3
    <2> QED BY <1>3, <2>1, LastIndex
<1>5. Max(OfLevel(t, x)) \in 1 .. n + 1 /\ n + 1 <= Max(OfLevel(t, x))
    BY <1>3, <1>4
<1>6. Max(OfLevel(t, x)) = n + 1
    BY <1>5
<1> QED BY <1>2, <1>3, <1>6 DEF Mute, LastLevel, t

LEMMA LevelUnsaid ==
    ASSUME NEW s \in Seq(Messages), NEW msg \in Messages, NEW x, ~Tells(msg, x)
    PROVE  /\ Mute(Append(s, msg), x) <=> Mute(s, x)
           /\ ~Mute(s, x) => LastLevel(Append(s, msg), x) = LastLevel(s, x)
<1> DEFINE t == Append(s, msg)
<1>1. PICK n \in Nat : n = Len(s)
    OBVIOUS
<1>2. Len(t) = n + 1 /\ t[n + 1] = msg /\ \A i \in 1 .. n : t[i] = s[i]
    BY <1>1
<1> HIDE DEF t
<1>3. OfLevel(t, x) = OfLevel(s, x) /\ OfLevel(s, x) \subseteq 1 .. n
    BY <1>1, <1>2 DEF OfLevel, Tells
<1>4. ASSUME ~Mute(s, x) PROVE t[Max(OfLevel(s, x))] = s[Max(OfLevel(s, x))]
    <2>1. Max(OfLevel(s, x)) \in OfLevel(s, x)
        BY <1>3, <1>4, LastIndex DEF Mute
    <2> QED BY <1>2, <1>3, <2>1
<1> QED BY <1>3, <1>4 DEF Mute, LastLevel, t

\* What the mailbox of g says of the level of x is as before.
SaysSame(g, x) ==
    /\ Mute(sends'[g], x) <=> Mute(sends[g], x)
    /\ ~Mute(sends[g], x) => LastLevel(sends'[g], x) = LastLevel(sends[g], x)

LEMMA LevelSaid ==
    ASSUME TypeOK, NEW h \in Managers, NEW msg \in Messages, Post(h, msg), NEW x
    PROVE  /\ \A g \in Managers : g # h \/ ~Tells(msg, x) => SaysSame(g, x)
           /\ Tells(msg, x) => ~Mute(sends'[h], x) /\ LastLevel(sends'[h], x) = msg.level
<1>1. sends \in [Managers -> Seq(Messages)] /\ sends[h] \in Seq(Messages)
    BY DEF TypeOK
<1>2. /\ \A g \in Managers : g # h => sends'[g] = sends[g]
      /\ sends'[h] = Append(sends[h], msg)
    BY <1>1 DEF Post
<1>3. \A g \in Managers : g # h => SaysSame(g, x)
    BY <1>2 DEF SaysSame
<1>4. ~Tells(msg, x) => SaysSame(h, x)
    BY <1>1, <1>2, LevelUnsaid DEF SaysSame
<1>5. Tells(msg, x) => ~Mute(sends'[h], x) /\ LastLevel(sends'[h], x) = msg.level
    BY <1>1, <1>2, LevelLast
<1> QED BY <1>3, <1>4, <1>5

LEMMA NewsInRange ==
    ASSUME NEW x \in Characters, NEW g \in Managers
    PROVE  NewsIn(x, g) <=> \/ News(x) \in Range(funcs[g])
                            \/ /\ game.at = "functions" /\ Here = g
                               /\ News(x) \in Range(copy)
BY DEF NewsIn, News, Range

LEMMA NewsInRangeNext ==
    ASSUME NEW x \in Characters, NEW g \in Managers
    PROVE  NewsIn(x, g)' <=> \/ News(x) \in Range(funcs'[g])
                             \/ /\ game'.at = "functions" /\ Here' = g
                                /\ News(x) \in Range(copy')
BY DEF NewsIn, News, Range

LEMMA LevelsSettled ==
    ASSUME TypeOK, LevelInv
    PROVE  LevelsSettle
<1> SUFFICES ASSUME NEW g \in Managers, NEW c \in Reached(g) \cap Staying(g),
                    NEW x \in Staying(g) \ quiet
             PROVE  Coming(c, g).level[x] = level[x] \/ NewsIn(x, g)
    BY DEF LevelsSettle
<1>1. x \in Characters
    BY DEF Staying, TypeOK
<1>2. Coming(c, g).level[x] = IF Mute(sends[g], x) THEN seen[c].level[x]
                              ELSE LastLevel(sends[g], x)
    BY <1>1, ToldLevel DEF Coming
<1> QED BY <1>1, <1>2 DEF LevelInv

\* Levels and what clients know of them are left alone, and no message tells one.
LevelEffect ==
    /\ UNCHANGED <<level, quiet, seen>>
    /\ \A g \in Managers : Reached(g)' \subseteq Reached(g) /\ Staying(g)' \subseteq Staying(g)
    /\ \A g \in Managers, x \in Characters :
           SaysSame(g, x) /\ (NewsIn(x, g) => NewsIn(x, g)')

LEMMA LevelKept ==
    ASSUME TypeOK, LevelInv, LevelEffect
    PROVE  LevelInv'
<1>1. \A g \in Managers : Staying(g) \subseteq Characters
    BY DEF TypeOK, Staying
<1>2. \A g \in Managers \ {Den}, x \in Characters : Mute(sends'[g], x)
    BY DEF LevelInv, LevelEffect, SaysSame
<1>3. ASSUME NEW g \in Managers, NEW x \in Characters \ quiet, ~Mute(sends'[g], x)
      PROVE  LastLevel(sends'[g], x) = level[x] \/ NewsIn(x, g)'
    BY <1>3 DEF LevelInv, LevelEffect, SaysSame
<1>4. ASSUME NEW g \in Managers, NEW c \in Reached(g)' \cap Staying(g)',
             NEW x \in Staying(g)' \ quiet, Mute(sends'[g], x)
      PROVE  seen[c].level[x] = level[x] \/ NewsIn(x, g)'
    <2>1. c \in Reached(g) \cap Staying(g) /\ x \in Staying(g) \ quiet /\ x \in Characters
        BY <1>1 DEF LevelEffect
    <2>2. Mute(sends[g], x) /\ (NewsIn(x, g) => NewsIn(x, g)')
        BY <1>4, <2>1 DEF LevelEffect, SaysSame
    <2> QED BY <2>1, <2>2 DEF LevelInv
<1> QED BY <1>2, <1>3, <1>4 DEF LevelInv, LevelEffect

LEMMA SaysUnchanged ==
    ASSUME sends' = sends, NEW g, NEW x
    PROVE  SaysSame(g, x)
BY DEF SaysSame

LEMMA StayingKept ==
    ASSUME UNCHANGED <<at, members, erases>>, NEW g
    PROVE  Reached(g)' = Reached(g) /\ Staying(g)' = Staying(g)
BY DEF Reached, Staying

LEMMA LevelClient ==
    ASSUME TypeOK, PlaceInv, LevelInv, Client
    PROVE  LevelInv'
<1> USE PlaceTypes
<1>1. ClientEffect
    BY ClientEffects DEF PlaceInv
<1>2. UNCHANGED <<level, quiet, seen, sends>>
    BY DEF Client, PostDamage, Enter, Ask, Leave, expVars
<1>3. \A c \in Characters : at'[c] # None => at[c] # None
    BY <1>1 DEF ClientEffect, Admitted
<1>4. ASSUME NEW g \in Managers
      PROVE  Reached(g)' \subseteq Reached(g) /\ Staying(g)' \subseteq Staying(g)
    <2>1. members' = members /\ \A c \in Characters : c \in erases[g] => c \in erases'[g]
        BY <1>1 DEF ClientEffect
    <2>2. members[g] \subseteq Characters
        OBVIOUS
    <2> QED BY <1>3, <2>1, <2>2 DEF Reached, Staying
<1>5. \A g \in Managers, x \in Characters : NewsIn(x, g)' <=> NewsIn(x, g)
    BY <1>1 DEF ClientEffect, NewsIn, Here
<1>6. LevelEffect
    BY <1>2, <1>4, <1>5, SaysUnchanged DEF LevelEffect
<1> QED BY <1>6, LevelKept

LEMMA LevelDrainChannel ==
    ASSUME TypeOK, PlaceInv, LevelInv, DrainChannel
    PROVE  LevelInv'
<1> DEFINE left == members[Here] \cap erases[Here]
           new == inserts[Here] \ (members[Here] \ left)
           all == (members[Here] \ left) \cup new
<1>0. Drained(Here) = all
    BY DEF Drained
<1> USE PlaceTypes
<1>1. /\ game.at = "channel" /\ game' = [game EXCEPT !.at = "manager"]
      /\ UNCHANGED <<copy, at, funcs, sends, level, quiet>>
      /\ members' = [members EXCEPT ![Here] = all]
      /\ erases' = [erases EXCEPT ![Here] = {}]
    BY <1>0 DEF DrainChannel, Goto, expVars
<1>2. seen' = [c \in Characters |->
                 IF c \notin all \/ at[c] = None THEN seen[c]
                 ELSE [hp |-> IF c \in new /\ Here = Den
                              THEN [m \in Monsters |-> Snapshot(m)]
                              ELSE seen[c].hp,
                       level |-> [x \in Characters |->
                              IF x \in new \/ (c \in new /\ x \in all)
                              THEN level[x] ELSE seen[c].level[x]]]]
    BY <1>0 DEF DrainChannel
<1>3. \A c : /\ c \in all => c \in new \/ c \in Staying(Here)
             /\ c \in all => c \in Characters
    BY DEF Staying
<1> HIDE DEF left, new, all
<1>4. ASSUME NEW c \in Characters, NEW x \in Characters
      PROVE  /\ seen'[c].level[x] \in {level[x], seen[c].level[x]}
             /\ c \in all /\ x \in all /\ at[c] # None /\ (c \in new \/ x \in new)
                    => seen'[c].level[x] = level[x]
    BY <1>2
<1>5. game'.at = "manager"
    BY <1>1 DEF TypeOK
<1>6. \A g \in Managers, x \in Characters : NewsIn(x, g)' <=> NewsIn(x, g)
    BY <1>1, <1>5 DEF NewsIn
<1>7. ASSUME NEW g \in Managers, NEW c \in Reached(g)' \cap Staying(g)',
             NEW x \in Staying(g)' \ quiet, Mute(sends[g], x)
      PROVE  seen'[c].level[x] = level[x] \/ NewsIn(x, g)
    <2>1. CASE g = Here
        <3>1. members'[g] = all
            BY <1>1, <2>1
        <3>2. c \in all /\ x \in all /\ at[c] # None
            BY <1>1, <3>1 DEF Reached, Staying
        <3>3. CASE c \in new \/ x \in new
            BY <1>3, <1>4, <3>2, <3>3
        <3>4. CASE c \in Staying(Here) /\ x \in Staying(Here)
            <4>1. c \in Reached(g)
                BY <2>1, <3>2, <3>4 DEF Reached, Staying
            <4>2. seen[c].level[x] = level[x] \/ NewsIn(x, g)
                BY <1>7, <2>1, <3>4, <4>1 DEF LevelInv
            <4> QED BY <1>3, <1>4, <3>2, <4>2
        <3> QED BY <1>3, <3>2, <3>3, <3>4
    <2>2. CASE g # Here
        <3>1. members'[g] = members[g] /\ erases'[g] = erases[g]
            BY <1>1, <2>2
        <3>2. c \in Reached(g) \cap Staying(g) /\ x \in Staying(g) \ quiet
            BY <1>1, <3>1 DEF Reached, Staying
        <3>3. seen[c].level[x] = level[x] \/ NewsIn(x, g)
            BY <1>7, <3>2 DEF LevelInv
        <3>4. c \in Characters /\ x \in Characters
            BY <3>2 DEF Staying
        <3> QED BY <1>4, <3>3, <3>4
    <2> QED BY <2>1, <2>2
<1>8. \A g \in Managers : \A x \in Characters \ quiet :
          ~Mute(sends[g], x) => LastLevel(sends[g], x) = level[x] \/ NewsIn(x, g)
    BY DEF LevelInv
<1>9. \A g \in Managers : Staying(g)' \subseteq Characters
    <2>1. \A g \in Managers : members'[g] \subseteq Characters
        BY <1>1, <1>3
    <2> QED BY <2>1 DEF Staying
<1>10. \A g \in Managers : \A c \in Reached(g)' \cap Staying(g)' :
          \A x \in Staying(g)' \ quiet' :
              Mute(sends'[g], x) => seen'[c].level[x] = level'[x] \/ NewsIn(x, g)'
    BY <1>1, <1>6, <1>7, <1>9
<1>11. /\ \A g \in Managers \ {Den}, x \in Characters : Mute(sends'[g], x)
       /\ \A g \in Managers : \A x \in Characters \ quiet' :
             ~Mute(sends'[g], x) => LastLevel(sends'[g], x) = level'[x] \/ NewsIn(x, g)'
    BY <1>1, <1>6, <1>8 DEF LevelInv
<1> QED BY <1>10, <1>11 DEF LevelInv

LEMMA LevelDrainManager ==
    ASSUME TypeOK, PlaceInv, LevelInv, DrainManager
    PROVE  LevelInv'
<1> USE PlaceTypes
<1>1. /\ game.at = "manager" /\ game' = [game EXCEPT !.at = "functions"]
      /\ sends' = [sends EXCEPT ![Here] = <<>>]
      /\ copy' = funcs[Here] /\ funcs' = [funcs EXCEPT ![Here] = <<>>]
      /\ UNCHANGED <<at, members, erases, level, quiet>>
    BY DEF DrainManager, Goto, moveVars, memberVars, expVars
<1>2. seen' = [c \in Characters |-> IF c \in Reached(Here)
                                    THEN Told(seen[c], sends[Here]) ELSE seen[c]]
    BY DEF DrainManager
<1>3. game'.at = "functions" /\ Here' = Here
    BY <1>1 DEF TypeOK, Here
<1>4. ASSUME NEW x \in Characters, NEW g \in Managers, NewsIn(x, g)
      PROVE  NewsIn(x, g)'
    <2>1. News(x) \in Range(funcs[g])
        BY <1>1, <1>4, NewsInRange
    <2>2. CASE g = Here
        BY <1>1, <1>3, <2>1, <2>2 DEF NewsIn, News, Range
    <2>3. CASE g # Here
        <3>1. funcs'[g] = funcs[g]
            BY <1>1, <2>3
        <3> QED BY <2>1, <3>1 DEF NewsIn, News, Range
    <2> QED BY <2>2, <2>3
<1>5. \A g \in Managers : sends'[g] = IF g = Here THEN <<>> ELSE sends[g]
    BY <1>1 DEF TypeOK
<1>6. \A x : Mute(<<>>, x)
    BY NoWord
<1>7. ASSUME NEW g \in Managers, NEW c \in Reached(g) \cap Staying(g),
             NEW x \in Staying(g) \ quiet, Mute(sends'[g], x)
      PROVE  seen'[c].level[x] = level[x] \/ NewsIn(x, g)
    <2>0. c \in Characters /\ x \in Characters
        BY DEF Staying
    <2>1. CASE c \in Reached(Here)
        <3>1. seen'[c].level[x] = IF Mute(sends[Here], x) THEN seen[c].level[x]
                                  ELSE LastLevel(sends[Here], x)
            BY <1>2, <2>0, <2>1, ToldLevel
        <3>2. CASE g = Here
            BY <2>0, <3>1, <3>2 DEF LevelInv
        <3>3. CASE g # Here
            <4>1. c \in members[Here] /\ c \in members[g] /\ c \notin erases[g]
                BY <2>1 DEF Reached, Staying
            <4>2. FALSE
                BY <1>1, <2>0, <3>3, <4>1 DEF PlaceInv, InTurn
            <4> QED BY <4>2
        <3> QED BY <3>2, <3>3
    <2>2. CASE c \notin Reached(Here)
        <3>1. seen'[c] = seen[c] /\ g # Here
            BY <1>2, <2>0, <2>2
        <3>2. Mute(sends[g], x)
            BY <1>5, <1>7, <3>1
        <3> QED BY <3>1, <3>2 DEF LevelInv
    <2> QED BY <2>1, <2>2
<1>8. \A g \in Managers : Staying(g) \subseteq Characters
    BY DEF Staying
<1>9. /\ \A g \in Managers : Reached(g)' = Reached(g) /\ Staying(g)' = Staying(g)
      /\ quiet' = quiet /\ level' = level
    BY <1>1, StayingKept
<1>10. \A g \in Managers \ {Den}, x \in Characters : Mute(sends'[g], x)
    BY <1>5, <1>6 DEF LevelInv
<1>11. \A g \in Managers : \A x \in Characters \ quiet :
          ~Mute(sends'[g], x) => LastLevel(sends'[g], x) = level[x] \/ NewsIn(x, g)'
    BY <1>4, <1>5, <1>6 DEF LevelInv
<1>12. \A g \in Managers : \A c \in Reached(g)' \cap Staying(g)' :
          \A x \in Staying(g)' \ quiet' :
              Mute(sends'[g], x) => seen'[c].level[x] = level'[x] \/ NewsIn(x, g)'
    BY <1>4, <1>7, <1>8, <1>9
<1> QED BY <1>9, <1>10, <1>11, <1>12 DEF LevelInv

\* A level is gained: without a manager it is gained quietly, and in the dungeon
\* its news is posted; to the other channels the character has said good-bye.
LEMMA LevelAddCurrentExp ==
    ASSUME TypeOK, PlaceInv, LevelInv, AddCurrentExp
    PROVE  LevelInv'
<1> USE PlaceTypes
<1>1. /\ copy \in Seq(Functions) /\ copy # <<>> /\ game.at = "functions"
      /\ copy' = Tail(copy) /\ game' = game
      /\ UNCHANGED <<at, members, erases, sends, seen>>
    BY DEF TypeOK, AddCurrentExp, moveVars, memberVars
<1>2. Head(copy) \in Functions /\ Head(copy).op = "exp"
    BY <1>1 DEF AddCurrentExp
<1>3. PICK c \in Characters : c = Head(copy).c /\ Head(copy) = Pay(c)
                               /\ News(c) \in Functions
    BY <1>2 DEF Functions, Pay, News
<1>4. \/ UNCHANGED <<level, quiet, funcs>>
      \/ /\ level' = [level EXCEPT ![c] = @ + 1]
         /\ \/ cm[c] = None /\ funcs' = funcs /\ quiet' = quiet \cup {c}
            \/ /\ cm[c] # None /\ quiet' = quiet
               /\ funcs' = [funcs EXCEPT ![cm[c]] = Append(@, News(c))]
    BY <1>3 DEF AddCurrentExp, LevelUp, News
<1>5. Range(copy) = {Pay(c)} \cup Range(copy')
    BY <1>1, <1>3, RangeTail
<1>6. \A x : Pay(c) # News(x)
    BY DEF Pay, News
<1>7. Here' = Here
    BY <1>1 DEF Here
<1>8. /\ \A g \in Managers : Reached(g)' = Reached(g) /\ Staying(g)' = Staying(g)
      /\ \A g \in Managers : Staying(g) \subseteq Characters
    BY <1>1, StayingKept DEF Staying
<1>9. CASE funcs' = funcs
    <2>1. \A x \in Characters, g \in Managers : NewsIn(x, g) => NewsIn(x, g)'
        BY <1>1, <1>5, <1>6, <1>7, <1>9, NewsInRange, NewsInRangeNext
    <2>2. quiet \subseteq quiet' /\ \A x \in Characters \ quiet' : level'[x] = level[x]
        BY <1>1, <1>4, <1>9 DEF TypeOK
    <2>3. \A g \in Managers \ {Den}, x \in Characters : Mute(sends'[g], x)
        BY <1>1 DEF LevelInv
    <2>4. \A g \in Managers : \A x \in Characters \ quiet' :
              ~Mute(sends'[g], x) => LastLevel(sends'[g], x) = level'[x] \/ NewsIn(x, g)'
        BY <1>1, <2>1, <2>2 DEF LevelInv
    <2>5. \A g \in Managers : \A d \in Reached(g)' \cap Staying(g)' :
              \A x \in Staying(g)' \ quiet' :
                  Mute(sends'[g], x) => seen'[d].level[x] = level'[x] \/ NewsIn(x, g)'
        BY <1>1, <1>8, <2>1, <2>2 DEF LevelInv
    <2> QED BY <2>3, <2>4, <2>5 DEF LevelInv
<1>10. CASE /\ level' = [level EXCEPT ![c] = @ + 1] /\ cm[c] # None /\ quiet' = quiet
            /\ funcs' = [funcs EXCEPT ![cm[c]] = Append(@, News(c))]
    <2>1. cm[c] = Den /\ Here = Den
        <3>1. Pay(c) \in Range(copy)
            BY <1>5
        <3> QED BY <1>1, <1>3, <1>10, <3>1 DEF PlaceInv, Payable
    <2>2. /\ \A g \in Managers : g # Den => funcs'[g] = funcs[g]
          /\ funcs'[Den] = Append(funcs[Den], News(c))
        BY <1>10, <2>1
    <2>3. Range(funcs'[Den]) = Range(funcs[Den]) \cup {News(c)}
        BY <1>3, <2>2, RangeAppend
    <2>4. \A x \in Characters, g \in Managers :
              (News(x) \in Range(funcs[g]) => News(x) \in Range(funcs'[g]))
        BY <2>2, <2>3
    <2>5. \A x \in Characters : News(x) \in Range(copy) => News(x) \in Range(copy')
        BY <1>5, <1>6
    <2>6. ASSUME NEW x \in Characters, NEW g \in Managers, NewsIn(x, g)
          PROVE  NewsIn(x, g)'
        <3>1. \/ News(x) \in Range(funcs[g])
              \/ Here = g /\ News(x) \in Range(copy)
            BY <2>6, NewsInRange
        <3>2. \/ News(x) \in Range(funcs'[g])
              \/ Here = g /\ News(x) \in Range(copy')
            BY <2>4, <2>5, <3>1
        <3> QED BY <1>1, <1>7, <3>2, NewsInRangeNext
    <2>7. NewsIn(c, Den)'
        BY <1>3, <2>3, NewsInRangeNext
    <2>8. \A x \in Characters : x # c => level'[x] = level[x]
        BY <1>10 DEF TypeOK
    <2>9. \A g \in Managers : g # Den => c \notin Staying(g)
        BY <1>3, <2>1 DEF PlaceInv, InPlace, Staying
    <2>10. \A g \in Managers \ {Den}, x \in Characters : Mute(sends'[g], x)
        BY <1>1 DEF LevelInv
    <2>11. ASSUME NEW g \in Managers, NEW x \in Characters \ quiet, ~Mute(sends[g], x)
           PROVE  LastLevel(sends[g], x) = level'[x] \/ NewsIn(x, g)'
        <3>1. CASE x = c
            <4>1. g = Den
                BY <2>11 DEF LevelInv
            <4> QED BY <2>7, <3>1, <4>1
        <3>2. CASE x # c
            BY <2>6, <2>8, <2>11, <3>2 DEF LevelInv
        <3> QED BY <3>1, <3>2
    <2>12. ASSUME NEW g \in Managers, NEW d \in Reached(g) \cap Staying(g),
                  NEW x \in Staying(g) \ quiet, Mute(sends[g], x)
           PROVE  seen[d].level[x] = level'[x] \/ NewsIn(x, g)'
        <3>1. CASE x = c
            <4>1. g = Den
                BY <2>9, <3>1
            <4> QED BY <2>7, <3>1, <4>1
        <3>2. CASE x # c
            BY <1>8, <2>6, <2>8, <2>12, <3>2 DEF LevelInv
        <3> QED BY <3>1, <3>2
    <2>13. \A g \in Managers : \A x \in Characters \ quiet' :
              ~Mute(sends'[g], x) => LastLevel(sends'[g], x) = level'[x] \/ NewsIn(x, g)'
        BY <1>1, <1>10, <2>11
    <2>14. \A g \in Managers : \A d \in Reached(g)' \cap Staying(g)' :
              \A x \in Staying(g)' \ quiet' :
                  Mute(sends'[g], x) => seen'[d].level[x] = level'[x] \/ NewsIn(x, g)'
        BY <1>1, <1>8, <1>10, <2>12
    <2> QED BY <2>10, <2>13, <2>14 DEF LevelInv
<1> QED BY <1>4, <1>9, <1>10

\* News is told in the dungeon, with the level as it is when it is told.
LEMMA LevelTellLevel ==
    ASSUME TypeOK, PlaceInv, LevelInv, TellLevel
    PROVE  LevelInv'
<1> DEFINE c == Head(copy).c
           msg == [kind |-> "level", who |-> c, level |-> level[c]]
<1> USE PlaceTypes
<1>1. /\ copy \in Seq(Functions) /\ copy # <<>> /\ game.at = "functions"
      /\ copy' = Tail(copy) /\ game' = game
      /\ UNCHANGED <<at, members, erases, funcs, level, quiet, seen>>
      /\ Post(Here, msg)
    BY DEF TypeOK, TellLevel, LevelTold, moveVars, memberVars, expVars
<1>2. Head(copy) \in Functions /\ Head(copy).op = "news"
    BY <1>1 DEF TellLevel
<1>3. c \in Characters /\ Head(copy) = News(c)
    BY <1>2 DEF Functions, News
<1>4. msg \in Messages
    <2>1. level[c] \in Nat
        BY <1>3 DEF TypeOK
    <2> QED BY <1>3, <2>1 DEF Messages
<1>5. msg.level = level[c] /\ \A x : Tells(msg, x) <=> x = c
    BY DEF Tells
<1> HIDE DEF c, msg
<1>6. Range(copy) = {News(c)} \cup Range(copy')
    BY <1>1, <1>3, RangeTail
<1>7. Here = Den
    <2>1. News(c) \in Range(copy)
        BY <1>6
    <2> QED BY <1>1, <1>3, <2>1 DEF PlaceInv, OldNews
<1>8. /\ \A g \in Managers, x \in Characters : g # Den \/ x # c => SaysSame(g, x)
      /\ ~Mute(sends'[Den], c) /\ LastLevel(sends'[Den], c) = level[c]
    BY <1>1, <1>3, <1>4, <1>5, <1>7, LevelSaid
<1>9. ASSUME NEW g \in Managers, NEW x \in Characters, g # Den \/ x # c, NewsIn(x, g)
      PROVE  NewsIn(x, g)'
    <2>1. \/ News(x) \in Range(funcs[g])
          \/ Here = g /\ News(x) \in Range(copy)
        BY <1>9, NewsInRange
    <2>2. News(x) = News(c) => x = c
        BY DEF News
    <2>3. \/ News(x) \in Range(funcs[g])
          \/ Here = g /\ News(x) \in Range(copy')
        BY <1>6, <1>7, <1>9, <2>1, <2>2
    <2>4. Here' = Here
        BY <1>1 DEF Here
    <2> QED BY <1>1, <2>3, <2>4 DEF NewsIn, News, Range
<1>10. /\ \A g \in Managers : Reached(g)' = Reached(g) /\ Staying(g)' = Staying(g)
       /\ \A g \in Managers : Staying(g) \subseteq Characters
    BY <1>1, StayingKept DEF Staying
<1>11. \A g \in Managers \ {Den}, x \in Characters : Mute(sends'[g], x)
    BY <1>8 DEF LevelInv, SaysSame
<1>12. ASSUME NEW g \in Managers, NEW x \in Characters \ quiet, ~Mute(sends'[g], x)
       PROVE  LastLevel(sends'[g], x) = level[x] \/ NewsIn(x, g)'
    <2>1. CASE g = Den /\ x = c
        BY <1>8, <2>1
    <2>2. CASE g # Den \/ x # c
        BY <1>8, <1>9, <1>12, <2>2 DEF LevelInv, SaysSame
    <2> QED BY <2>1, <2>2
<1>13. ASSUME NEW g \in Managers, NEW d \in Reached(g) \cap Staying(g),
              NEW x \in Staying(g) \ quiet, Mute(sends'[g], x)
       PROVE  seen[d].level[x] = level[x] \/ NewsIn(x, g)'
    <2>1. g # Den \/ x # c
        BY <1>8, <1>13
    <2>2. Mute(sends[g], x) /\ x \in Characters
        BY <1>8, <1>10, <1>13, <2>1 DEF SaysSame
    <2> QED BY <1>9, <2>1, <2>2 DEF LevelInv
<1>14. \A g \in Managers : \A d \in Reached(g)' \cap Staying(g)' :
           \A x \in Staying(g)' \ quiet' :
               Mute(sends'[g], x) => seen'[d].level[x] = level'[x] \/ NewsIn(x, g)'
    BY <1>1, <1>10, <1>13
<1> QED BY <1>1, <1>11, <1>12, <1>14 DEF LevelInv

\* Damage, monsters, and the way to the next channel: no word of levels.
LEMMA LevelElsewhere ==
    ASSUME TypeOK, LevelInv, UNCHANGED <<level, quiet, seen, at, members, erases>>,
           game.at \in {"damage", "monsters"} \/ copy = <<>>,
           \A g \in Managers : Range(funcs[g]) \subseteq Range(funcs'[g]),
           \/ sends' = sends
           \/ \E h \in Managers, msg \in Messages : Post(h, msg) /\ msg.kind # "level"
    PROVE  LevelInv'
<1>1. \A g \in Managers, x \in Characters : SaysSame(g, x)
    BY LevelSaid, SaysUnchanged DEF Tells
<1>2. game.at = "functions" => Range(copy) = {}
    BY RangeEmpty
<1>3. \A g \in Managers, x \in Characters : NewsIn(x, g) => NewsIn(x, g)'
    BY <1>2, NewsInRange, NewsInRangeNext
<1>4. LevelEffect
    BY <1>1, <1>3, StayingKept DEF LevelEffect
<1> QED BY <1>4, LevelKept

LEMMA LevelHit ==
    ASSUME TypeOK, LevelInv, NEW m \in Monsters, NEW d \in Blows, Hit(m, d)
    PROVE  LevelInv'
<1> DEFINE k == Head(copy).by
<1> USE PlaceTypes
<1>1. /\ copy \in Seq(Requests) /\ copy # <<>> /\ game.at = "damage"
      /\ UNCHANGED <<level, quiet, seen, at, members, erases>>
    BY DEF TypeOK, Hit, moveVars, memberVars, expVars
<1>2. k \in Characters
    <2>1. Head(copy) \in Requests
        BY <1>1
    <2> QED BY <2>1 DEF Requests
<1>3. \/ funcs' = funcs
      \/ cm[k] # None /\ funcs' = [funcs EXCEPT ![cm[k]] = Append(@, Pay(k))]
    BY DEF Hit, Hurt, Pay
<1>4. \/ sends' = sends
      \/ Post(Den, [kind |-> "die", monster |-> m])
    BY DEF Hit, Hurt
<1>5. [kind |-> "die", monster |-> m] \in Messages
    BY DEF Messages
<1> HIDE DEF k
<1>6. \A g \in Managers : Range(funcs[g]) \subseteq Range(funcs'[g])
    <2>1. CASE funcs' = funcs
        BY <2>1
    <2>2. CASE cm[k] # None /\ funcs' = [funcs EXCEPT ![cm[k]] = Append(@, Pay(k))]
        <3>1. Pay(k) \in Functions /\ cm[k] \in Managers
            BY <1>2, <2>2 DEF Pay, Functions
        <3>2. /\ funcs'[cm[k]] = Append(funcs[cm[k]], Pay(k))
              /\ \A g \in Managers : g # cm[k] => funcs'[g] = funcs[g]
            BY <2>2, <3>1
        <3>3. Range(funcs'[cm[k]]) = Range(funcs[cm[k]]) \cup {Pay(k)}
            BY <3>1, <3>2, RangeAppend
        <3> QED BY <3>2, <3>3
    <2> QED BY <1>3, <2>1, <2>2
<1>7. \/ sends' = sends
      \/ \E h \in Managers, msg \in Messages : Post(h, msg) /\ msg.kind # "level"
    BY <1>4, <1>5
<1> QED BY <1>1, <1>6, <1>7, LevelElsewhere

LEMMA LevelEndDamage ==
    ASSUME TypeOK, LevelInv, EndDamage
    PROVE  LevelInv'
<1> DEFINE hit == Head(copy).hit
           msg == [kind |-> "damage", hp |-> [m \in hit |-> mon[m].hp]]
<1> USE PlaceTypes
<1>1. /\ copy \in Seq(Requests) /\ copy # <<>> /\ game.at = "damage"
      /\ UNCHANGED <<level, quiet, seen, at, members, erases, funcs>>
    BY DEF TypeOK, EndDamage, moveVars, memberVars, expVars
<1>2. hit \subseteq Monsters
    <2>1. Head(copy) \in Requests
        BY <1>1
    <2> QED BY <2>1 DEF Requests
<1>3. sends' = sends \/ Post(Den, msg)
    BY DEF EndDamage
<1> HIDE DEF hit
<1>4. msg \in Messages
    <2>1. \A m \in Monsters : mon[m].hp \in 0 .. MaxHp
        BY DEF TypeOK, MonsterType
    <2>2. msg.hp \in [hit -> 0 .. MaxHp]
        BY <1>2, <2>1
    <2>3. msg \in [kind : {"damage"}, hp : [hit -> 0 .. MaxHp]]
        BY <2>2
    <2> QED BY <1>2, <2>3 DEF Messages
<1>5. msg.kind # "level"
    OBVIOUS
<1> HIDE DEF msg
<1> QED BY <1>1, <1>3, <1>4, <1>5, LevelElsewhere

LEMMA LevelTick ==
    ASSUME TypeOK, LevelInv, NEW m \in Monsters, NEW near, NEW n, Tick(m, near, n)
    PROVE  LevelInv'
<1> USE PlaceTypes
<1>1. /\ game.at = "monsters"
      /\ UNCHANGED <<level, quiet, seen, at, members, erases, funcs>>
      /\ sends' = sends \/ Post(Den, [kind |-> "respawn", monster |-> m])
    BY DEF Tick, moveVars, memberVars, expVars
<1>2. [kind |-> "respawn", monster |-> m] \in Messages
    BY DEF Messages
<1> QED BY <1>1, <1>2, LevelElsewhere

LEMMA LevelStep ==
    ASSUME TypeOK, PlaceInv, LevelInv, [Next]_vars
    PROVE  LevelInv'
<1>1. CASE UNCHANGED vars
    <2>1. UNCHANGED <<level, quiet, seen, at, members, erases, funcs, sends, game, copy>>
        BY <1>1 DEF vars, moveVars, memberVars, expVars
    <2> QED BY <2>1 DEF LevelInv, Mute, LastLevel, NewsIn, Here, Reached, Staying
<1>2. CASE LeaveManager
    BY <1>2, LevelElsewhere DEF LeaveManager, moveVars, memberVars, expVars
<1>3. CASE StartMonsters
    BY <1>3, LevelElsewhere DEF StartMonsters, moveVars, memberVars, expVars
<1>4. CASE EndMonsters
    BY <1>4, LevelElsewhere DEF EndMonsters, moveVars, memberVars, expVars
<1> QED BY <1>1, <1>2, <1>3, <1>4, LevelClient, LevelDrainChannel, LevelDrainManager,
           LevelAddCurrentExp, LevelTellLevel, LevelHit, LevelEndDamage, LevelTick
           DEF Next, GameStep

LEMMA InitLevel == Init => LevelInv
<1> SUFFICES ASSUME Init PROVE LevelInv
    OBVIOUS
<1>1. members = [g \in Managers |-> {}]
    BY DEF Init
<1>2. PICK s \in SetToSeqs(Monsters) :
          sends = [g \in Managers |-> IF g # Den THEN <<>>
                     ELSE [i \in DOMAIN s |-> [kind |-> "respawn", monster |-> s[i]]]]
    BY DEF Init
<1>3. ASSUME NEW g \in Managers, NEW x
      PROVE  Mute(sends[g], x)
    <2>1. CASE g # Den
        BY <1>2, <2>1, NoWord
    <2>2. CASE g = Den
        <3> DEFINE t == [i \in DOMAIN s |-> [kind |-> "respawn", monster |-> s[i]]]
        <3>1. sends[g] = t
            BY <1>2, <2>2
        <3>2. s \in [1 .. Cardinality(Monsters) -> Monsters] /\ Cardinality(Monsters) \in Nat
            BY FS_CardinalityType, DungeonAssumption DEF DungeonAssumption, SetToSeqs
        <3>3. \A i \in 1 .. Len(t) : t[i].kind = "respawn"
            BY <3>2
        <3> HIDE DEF t
        <3> QED BY <3>1, <3>3 DEF Mute, OfLevel
    <2> QED BY <2>1, <2>2
<1>4. \A g \in Managers : Reached(g) = {}
    BY <1>1 DEF Reached
<1> QED BY <1>3, <1>4 DEF LevelInv

\* Clients catch up with each other's levels: what is said in the mailbox of a
\* manager of a level that was not gained quietly is true or corrected by news
\* that waits, and who is told nothing knows.  That the news finds its way takes
\* that a character with a kill to be paid points nowhere but to the dungeon
\* where it stays, or to nothing (Hit, LevelUp, Channel::PrevTick).
THEOREM LevelsAreTold == Spec => []LevelsSettle
<1>1. Init => TypeOK /\ PlaceInv /\ LevelInv
    BY InitIInv, InitPlace, InitLevel DEF IInv
<1>2. IInv /\ IInv' /\ PlaceInv /\ LevelInv /\ [Next]_vars => PlaceInv' /\ LevelInv'
    BY PlaceStep, LevelStep DEF IInv
<1>3. IInv /\ LevelInv => LevelsSettle
    BY LevelsSettled DEF IInv
<1> QED BY <1>1, <1>2, <1>3, DungeonInvariance, PTL DEF Spec
-----------------------------------------------------------------------------
(* What patient clients are promised. *)

\* Whoever is on the way into a channel has a user, and if it is still a member there
\* the erase of that membership waits.
Arriving ==
    \A c \in Characters :
        /\ c \in entering => at[c] # None
        /\ \A g \in Managers :
               at[c] = g /\ c \in entering \cup inserts[g] /\ c \in members[g]
                   => c \in erases[g]

\* Most steps move nobody.
LEMMA NobodyMoves ==
    ASSUME UNCHANGED <<at, entering, inserts, members, erases>>
    PROVE  UNCHANGED Abs!vars /\ (Arriving => Arriving')
BY DEF Abs!vars, Home, Waiting, Arriving

LEMMA AbsEnter ==
    ASSUME TypeOK, InPlace, Arriving,
           NEW c \in Characters, NEW g \in Managers, Enter(c, g)
    PROVE  Abs!Ask(c) /\ Arriving'
<1> USE PlaceTypes
<1>1. /\ at[c] \in Managers /\ at[c] # g /\ c \notin entering /\ c \notin inserts[at[c]]
      /\ at' = [at EXCEPT ![c] = g] /\ entering' = entering \cup {c}
      /\ erases' = [erases EXCEPT ![at[c]] = @ \cup {c}]
      /\ UNCHANGED <<inserts, members>>
    BY DEF Enter, Admitted, memberVars
<1>2. at'[c] = g /\ \A d \in Characters : d # c => at'[d] = at[d]
    BY <1>1
<1>3. \A d \in Characters : Home'[d] = IF d = c THEN None ELSE Home[d]
    BY <1>1, <1>2 DEF Home
<1>4. \A d \in Characters : Waiting'[d] = IF d = c THEN TRUE ELSE Waiting[d]
    BY <1>1, <1>2 DEF Waiting
<1>5. Home' = [Home EXCEPT ![c] = None] /\ Waiting' = [Waiting EXCEPT ![c] = TRUE]
    BY <1>3, <1>4 DEF Home, Waiting
<1>6. {d \in Characters : at[d] # None}' = {d \in Characters : at[d] # None}
    BY <1>1, <1>2
<1>7. c \in {d \in Characters : at[d] # None} /\ ~Waiting[c]
    BY <1>1 DEF Waiting
<1>8. Abs!Ask(c)
    BY <1>1, <1>5, <1>6, <1>7 DEF Abs!Ask
<1>9. Arriving'
    <2>1. \A h \in Managers, d \in Characters : d \in erases[h] => d \in erases'[h]
        BY <1>1
    <2>2. \A h \in Managers : c \in members[h] => at[c] = h \/ c \in erases[h]
        BY DEF InPlace
    <2> QED BY <1>1, <1>2, <2>1, <2>2 DEF Arriving
<1> QED BY <1>8, <1>9

LEMMA AbsPosted ==
    ASSUME TypeOK, Arriving, NEW c \in Characters, Ask(c)
    PROVE  at[c] \in Managers /\ Abs!Place(c, at[c]) /\ Arriving'
<1> USE PlaceTypes
<1>1. /\ c \in entering /\ entering' = entering \ {c}
      /\ inserts' = [inserts EXCEPT ![at[c]] = @ \cup {c}]
      /\ UNCHANGED <<at, members, erases>>
    BY DEF Ask, memberVars
<1>2. at[c] \in Managers
    BY <1>1 DEF Arriving
<1>3. \A h \in Managers, d \in Characters :
          d \in inserts'[h] <=> d \in inserts[h] \/ (d = c /\ h = at[c])
    BY <1>1
<1>4. \A d \in Characters : Home'[d] = IF d = c THEN at[c] ELSE Home[d]
    BY <1>1 DEF Home
<1>5. \A d \in Characters : Waiting'[d] = Waiting[d]
    BY <1>1, <1>2, <1>3 DEF Waiting
<1>6. Home' = [Home EXCEPT ![c] = at[c]] /\ Waiting' = Waiting
    BY <1>4, <1>5 DEF Home, Waiting
<1>7. c \in {d \in Characters : at[d] # None} /\ Waiting[c] /\ Home[c] = None
    BY <1>1, <1>2 DEF Waiting, Home
<1>8. Abs!Place(c, at[c])
    BY <1>1, <1>6, <1>7 DEF Abs!Place
<1>9. Arriving'
    BY <1>1, <1>3 DEF Arriving
<1> QED BY <1>2, <1>8, <1>9

LEMMA AbsLeave ==
    ASSUME TypeOK, Arriving, NEW c \in Characters, Leave(c)
    PROVE  Abs!Quit(c) /\ Arriving'
<1> USE PlaceTypes
<1>1. /\ at[c] \in Managers /\ c \notin entering /\ c \notin inserts[at[c]]
      /\ at' = [at EXCEPT ![c] = None]
      /\ erases' = [erases EXCEPT ![at[c]] = @ \cup {c}]
      /\ UNCHANGED <<inserts, members, entering>>
    BY DEF Leave, Admitted, memberVars
<1>2. at'[c] = None /\ \A d \in Characters : d # c => at'[d] = at[d]
    BY <1>1
<1>3. \A d \in Characters : Home'[d] = IF d = c THEN None ELSE Home[d]
    BY <1>1, <1>2 DEF Home
<1>4. \A d \in Characters : Waiting'[d] = Waiting[d]
    BY <1>1, <1>2 DEF Waiting
<1>5. Home' = [Home EXCEPT ![c] = None] /\ Waiting' = Waiting
    BY <1>3, <1>4 DEF Home, Waiting
<1>6. {d \in Characters : at[d] # None}' = {d \in Characters : at[d] # None} \ {c}
    BY <1>2
<1>7. c \in {d \in Characters : at[d] # None}
    BY <1>1
<1>8. Abs!Quit(c)
    BY <1>1, <1>5, <1>6, <1>7 DEF Abs!Quit
<1>9. Arriving'
    <2>1. \A h \in Managers, d \in Characters : d \in erases[h] => d \in erases'[h]
        BY <1>1
    <2> QED BY <1>1, <1>2, <2>1 DEF Arriving
<1> QED BY <1>8, <1>9
\* Who is erased has left or waits to be admitted again; who waits to be inserted was
\* placed here, and is no member or erased first.
LEMMA AbsDrain ==
    ASSUME TypeOK, InPlace, Arriving, DrainChannel
    PROVE  /\ \E out, into \in SUBSET Characters : Abs!Drain(Here, out, into)
           /\ Arriving'
<1> DEFINE left == members[Here] \cap erases[Here]
           new == inserts[Here] \ (members[Here] \ left)
<1> USE PlaceTypes
<1>1. /\ UNCHANGED <<at, entering>>
      /\ members' = [members EXCEPT ![Here] = Drained(Here)]
      /\ inserts' = [inserts EXCEPT ![Here] = {}]
      /\ erases' = [erases EXCEPT ![Here] = {}]
    BY DEF DrainChannel
<1>2. Drained(Here) = (members[Here] \ left) \cup new
    BY DEF Drained
<1>3. /\ left \in SUBSET Characters /\ new \in SUBSET Characters
      /\ left \subseteq members[Here] /\ new \cap (members[Here] \ left) = {}
    OBVIOUS
<1>4. ASSUME NEW c \in left, Home[c] = Here PROVE Waiting[c]
    <2>1. c \in Characters /\ c \in erases[Here] /\ at[c] = Here
        BY <1>4 DEF Home
    <2> QED BY <2>1 DEF InPlace, Waiting
<1>5. ASSUME NEW c \in inserts[Here]
      PROVE  c \in Characters /\ at[c] = Here /\ c \notin entering /\ c \in new
    BY DEF InPlace, Arriving
<1>6. ASSUME NEW c \in new
      PROVE  c \in {d \in Characters : at[d] # None} /\ Waiting[c] /\ Home[c] = Here
    BY <1>5 DEF Waiting, Home
<1>7. ASSUME NEW c \in Characters
      PROVE  Waiting'[c] = (Waiting[c] /\ c \notin new)
    <2>1. CASE at[c] = Here
        BY <1>1, <1>5, <2>1 DEF Waiting
    <2>2. CASE at[c] # Here
        <3>1. c \notin new
            BY <1>5, <2>2
        <3>2. at[c] # None => inserts'[at[c]] = inserts[at[c]]
            BY <1>1, <2>2
        <3> QED BY <1>1, <3>1, <3>2 DEF Waiting
    <2> QED BY <2>1, <2>2
<1>8. Waiting' = [c \in Characters |-> Waiting[c] /\ c \notin new] /\ Home' = Home
    BY <1>1, <1>7 DEF Waiting, Home
<1>9. Arriving'
    <2>1. ASSUME NEW c \in Characters, NEW g \in Managers, at[c] = g,
                 c \in entering \cup inserts'[g], c \in members'[g]
          PROVE  c \in erases'[g]
        <3>1. CASE g = Here
            BY <1>1, <1>5, <2>1, <3>1 DEF Arriving, Drained
        <3>2. CASE g # Here
            BY <1>1, <2>1, <3>2 DEF Arriving
        <3> QED BY <3>1, <3>2
    <2> QED BY <1>1, <2>1 DEF Arriving
<1>10. {d \in Characters : at[d] # None}' = {d \in Characters : at[d] # None}
    BY <1>1
<1> HIDE DEF left, new
<1>11. members' = [members EXCEPT ![Here] = (@ \ left) \cup new]
    BY <1>1, <1>2
<1>12. Abs!Drain(Here, left, new)
    BY <1>3, <1>4, <1>6, <1>8, <1>10, <1>11 DEF Abs!Drain
<1> QED BY <1>3, <1>9, <1>12

LEMMA AbsStep ==
    ASSUME TypeOK, InPlace, Arriving, [Next]_vars
    PROVE  [Abs!Next]_(Abs!vars) /\ Arriving'
<1>1. ASSUME NEW c \in Characters, NEW g \in Managers, Enter(c, g)
      PROVE  Abs!Next /\ Arriving'
    BY <1>1, AbsEnter DEF Abs!Next
<1>2. ASSUME NEW c \in Characters, Ask(c)
      PROVE  Abs!Next /\ Arriving'
    BY <1>2, AbsPosted DEF Abs!Next
<1>3. ASSUME NEW c \in Characters, Leave(c)
      PROVE  Abs!Next /\ Arriving'
    BY <1>3, AbsLeave DEF Abs!Next
<1>4. CASE DrainChannel
    BY <1>4, AbsDrain, PlaceTypes DEF Abs!Next
<1>5. ASSUME NEW c \in Characters, NEW n \in 1 .. MaxTargets, PostDamage(c, n)
      PROVE  UNCHANGED Abs!vars /\ Arriving'
    BY <1>5, NobodyMoves DEF PostDamage, moveVars, memberVars
<1>6. CASE \/ DrainManager \/ AddCurrentExp \/ TellLevel \/ LeaveManager
           \/ EndDamage \/ StartMonsters \/ EndMonsters \/ UNCHANGED vars
    BY <1>6, NobodyMoves
    DEF DrainManager, AddCurrentExp, TellLevel, LeaveManager, EndDamage, StartMonsters,
        EndMonsters, vars, moveVars, memberVars
<1>7. ASSUME NEW m \in Monsters, NEW d \in Blows, Hit(m, d)
      PROVE  UNCHANGED Abs!vars /\ Arriving'
    BY <1>7, NobodyMoves DEF Hit, moveVars, memberVars
<1>8. ASSUME NEW m \in Monsters, NEW near \in Nearest(Den), NEW n \in 0 .. MaxPoints,
             Tick(m, near, n)
      PROVE  UNCHANGED Abs!vars /\ Arriving'
    BY <1>8, NobodyMoves DEF Tick, moveVars, memberVars
<1> QED BY <1>1, <1>2, <1>3, <1>4, <1>5, <1>6, <1>7, <1>8 DEF Next, Client, GameStep

LEMMA InitAbs == Init => Abs!Init /\ Arriving
<1> SUFFICES ASSUME Init PROVE Abs!Init /\ Arriving
    OBVIOUS
<1>1. /\ at \in [Characters -> Managers] /\ entering = {}
      /\ members = [g \in Managers |-> {}]
      /\ inserts = [g \in Managers |-> {c \in Characters : at[c] = g}]
      /\ None \notin Managers
    BY DungeonAssumption DEF DungeonAssumption, Init
<1>2. ASSUME NEW c \in Characters
      PROVE  Home[c] = at[c] /\ at[c] # None /\ Waiting[c]
    BY <1>1 DEF Home, Waiting
<1>3. /\ Home \in [Characters -> Managers \cup {None}]
      /\ Waiting = [c \in Characters |-> Home[c] # None]
    BY <1>1, <1>2 DEF Home, Waiting
<1>4. {c \in Characters : at[c] # None} = Characters
    BY <1>2
<1>5. Abs!Init
    BY <1>1, <1>3, <1>4 DEF Abs!Init
<1>6. Arriving
    BY <1>1 DEF Arriving
<1> QED BY <1>5, <1>6

\* Seen by who changes channels, fighting with everything it brings about keeps the
\* promise of MembershipAbs, to which Membership was reduced as well: Enter asks,
\* the posted insert places, and Channel::PrevTick, though it erases and inserts at
\* once all that waited, admits each character once, where it asked to be, and puts
\* nobody out that has its answer.
THEOREM Implementation == Spec => ImplementsAbs
<1>1. TypeOK /\ PlaceInv /\ Arriving /\ [Next]_vars
          => [Abs!Next]_(Abs!vars) /\ Arriving'
    BY AbsStep DEF PlaceInv
<1>2. Init => PlaceInv
    BY InitPlace
<1>3. IInv /\ PlaceInv /\ [Next]_vars => PlaceInv'
    BY PlaceStep DEF IInv
<1>4. IInv => TypeOK
    BY DEF IInv
<1> QED BY <1>1, <1>2, <1>3, <1>4, InitAbs, DungeonInvariance, PTL
        DEF Spec, Abs!Spec, ImplementsAbs
\* The steps of MembershipAbs keep what follows from them for answered clients.
LEMMA AnsweredStep ==
    ASSUME TypeOK, Abs!AnsweredIsInside, [Abs!Next]_(Abs!vars)
    PROVE  Abs!AnsweredIsInside'
<1> DEFINE There == {d \in Characters : at[d] # None}
           Answered(c, g) == Home[c] = g /\ ~Waiting[c]
<1>1. /\ members \in [Managers -> SUBSET Characters]
      /\ DOMAIN Home = Characters /\ DOMAIN Waiting = Characters
      /\ None \notin Managers
    BY PlaceTypes DEF Home, Waiting
<1>2. \A c \in There, g \in Managers : Answered(c, g) => c \in members[g]
    BY DEF Abs!AnsweredIsInside
<1>3. SUFFICES ASSUME NEW c \in There', NEW g \in Managers, Answered(c, g)'
               PROVE  c \in members'[g]
    BY DEF Abs!AnsweredIsInside
<1>4. c \in Characters
    OBVIOUS
<1>5. CASE UNCHANGED Abs!vars
    BY <1>2, <1>3, <1>5 DEF Abs!vars
<1>6. ASSUME NEW d \in Characters, Abs!Ask(d) PROVE c \in members'[g]
    BY <1>1, <1>2, <1>3, <1>4, <1>6 DEF Abs!Ask
<1>7. ASSUME NEW d \in Characters, Abs!Quit(d) PROVE c \in members'[g]
    BY <1>1, <1>2, <1>3, <1>4, <1>7 DEF Abs!Quit
<1>8. ASSUME NEW d \in Characters, NEW h \in Managers, Abs!Place(d, h)
      PROVE  c \in members'[g]
    BY <1>1, <1>2, <1>3, <1>4, <1>8 DEF Abs!Place
<1>9. ASSUME NEW h \in Managers, NEW out \in SUBSET Characters,
             NEW into \in SUBSET Characters, Abs!Drain(h, out, into)
      PROVE  c \in members'[g]
    <2>1. members'[g] = IF g = h THEN (members[h] \ out) \cup into ELSE members[g]
        BY <1>1, <1>9 DEF Abs!Drain
    <2>2. c \in There /\ Home[c] = g /\ (c \in into \/ ~Waiting[c])
        BY <1>3, <1>4, <1>9 DEF Abs!Drain
    <2>3. c \in into => g = h
        BY <1>9, <2>2 DEF Abs!Drain
    <2>4. c \in out /\ g = h => Waiting[c]
        BY <1>9, <2>2 DEF Abs!Drain
    <2> QED BY <1>2, <2>1, <2>2, <2>3, <2>4
<1> QED BY <1>5, <1>6, <1>7, <1>8, <1>9 DEF Abs!Next, Abs!Fail

\* So the guard of Enter and Leave that their character is a member (Admitted) keeps
\* no client from moving that has its answer: where no request of its own waits, the
\* drains of Channel::PrevTick have made it a member, and left it one.
THEOREM AnsweredAreMembers == Spec => []Abs!AnsweredIsInside
<1>1. Init => PlaceInv /\ Abs!AnsweredIsInside
    <2> SUFFICES ASSUME Init PROVE PlaceInv /\ Abs!AnsweredIsInside
        OBVIOUS
    <2>1. Abs!Init
        BY InitAbs
    <2>2. Abs!AnsweredIsInside
        BY <2>1, DungeonAssumption
        DEF Abs!Init, Abs!AnsweredIsInside, DungeonAssumption
    <2> QED BY <2>2, InitPlace
<1>2. IInv /\ PlaceInv /\ Arriving /\ Abs!AnsweredIsInside /\ [Next]_vars
          => PlaceInv' /\ Arriving' /\ Abs!AnsweredIsInside'
    BY PlaceStep, AbsStep, AnsweredStep DEF IInv, PlaceInv
<1> QED BY <1>1, <1>2, InitAbs, DungeonInvariance, PTL DEF Spec

===============================================================================
