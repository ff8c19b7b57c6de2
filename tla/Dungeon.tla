------------------------------ MODULE Dungeon -------------------------------
(***************************************************************************)
(* Fighting in a channel of a dungeon: monsters, the damage that clients   *)
(* ask for, the experience for a kill, and what clients are told.          *)
(*                                                                         *)
(* IO threads put requests into mailboxes: admissions and erases into the  *)
(* one of a channel, damage into the one of the MonsterManager.  The game  *)
(* thread walks over the channels of Order; in each it drains the channel, *)
(* then the CharacterManager, then, in the dungeon, the MonsterManager,    *)
(* and then runs the behaviour tree of every monster.  Everything below is *)
(* done by the game thread but PostDamage, Enter, Ask and Leave.           *)
(*                                                                         *)
(* A channel and its manager have one name here.  Positions are left out:  *)
(* which character is nearest, and at which distance, is chosen anew at    *)
(* every look.  Clients are patient: they move again when they were        *)
(* admitted (module Membership has the others).                            *)
(***************************************************************************)
EXTENDS Integers, Sequences, FiniteSets, SequencesExt

CONSTANTS
    Characters, Monsters,
    Order,      \* the channels, as the game thread visits them
    Den,        \* the one with monsters
    None,       \* no channel, no character
    MaxHp,      \* health of a monster
    Blows,      \* what a hit may take; 0: out of range, or no formula
    Exp,        \* experience for a kill
    Table,      \* expReqInfos[1 ..]: what a level requires
    Garbage,    \* what memory behind expReqInfos may hold
    Saved,      \* level and experience of a character in the database
    IdleTime, RespawnTime, CoolTime, \* in frames
    Zones,      \* bound: distances of the nearest character
    MaxPoints,  \* bound: points of a path
    MaxHits,    \* bound: requests of damage
    MaxTargets, \* bound: targets of one
    MaxMoves    \* bound: changes of channel

Managers == Range(Order)

ASSUME DungeonAssumption ==
    /\ None \notin Managers \cup Characters
    /\ IsFiniteSet(Monsters)
    /\ Order \in Seq(Managers) /\ Order # <<>> /\ IsInjective(Order)
    /\ Den \in Managers
    /\ MaxHp \in Nat \ {0} /\ Blows \subseteq Nat
    /\ Exp \in Nat /\ Garbage \subseteq Int
    /\ Table \in Seq(Nat) /\ Table # <<>>
    /\ \A c \in Characters : Saved[c].level \in DOMAIN Table /\ Saved[c].exp \in Nat
    /\ Zones \subseteq {"reach", "sight", "away"}
    /\ {IdleTime, RespawnTime, CoolTime, MaxPoints} \subseteq Nat
    /\ {MaxHits, MaxTargets, MaxMoves} \subseteq Nat

VARIABLES
    game,       \* the game thread: [at, turn, todo]
    copy,       \* the functions it took from a mailbox
    at,         \* the channel of a character; None when its user has gone
    entering,   \* characters whose handler has yet to post the admission
    moves,      \* changes of channel made so far
    members,    \* characters of a CharacterManager
    cm,         \* the manager a character points to, or None
    erases, inserts, \* mailbox of a Channel
    sends, funcs,    \* mailbox of a CharacterManager
    hits,       \* mailbox of the MonsterManager
    asked,      \* requests of damage made so far
    mon,        \* the monsters
    level, exp, req, \* level, currentExp and reqExp of a character
    quiet,      \* history: characters that gained a level without a manager
    overtaken,  \* history: characters in a channel that the erase of another,
                \* which they had left before, has reached since
    earned,     \* history: what a character had and all its kills are worth
    excused,    \* history: kills by one that stayed in no channel or was overtaken
    seen        \* history: what the client of a character was told last

moveVars == <<at, entering, moves, erases, inserts>>
memberVars == <<members, cm, overtaken>>
killVars == <<earned, excused>>
expVars == <<level, exp, req, quiet>>
hitVars == <<hits, asked>>
vars == <<game, copy, moveVars, memberVars, sends, funcs, hitVars, mon,
          expVars, killVars, seen>>

-----------------------------------------------------------------------------
(* What the IO threads do. *)

PostDamage(c, n) ==
    /\ at[c] = Den /\ c \notin entering
    /\ asked < MaxHits
    /\ asked' = asked + 1
    /\ hits' = Append(hits, [by |-> c, n |-> n, hit |-> {}])
    /\ UNCHANGED <<game, copy, moveVars, memberVars, sends, funcs, mon, expVars,
                   killVars, seen>>

Admitted(c) ==
    /\ at[c] # None /\ c \notin entering
    /\ c \in members[at[c]] \ inserts[at[c]]

\* A change of channel posts an erase to the old one and then, with the game
\* thread between, an admission to the new one.
Enter(c, g) ==
    /\ Admitted(c) /\ at[c] # g
    /\ moves < MaxMoves
    /\ moves' = moves + 1
    /\ at' = [at EXCEPT ![c] = g]
    /\ entering' = entering \cup {c}
    /\ erases' = [erases EXCEPT ![at[c]] = @ \cup {c}]
    /\ UNCHANGED <<game, copy, inserts, memberVars, sends, funcs, hitVars, mon,
                   expVars, killVars, seen>>

Ask(c) ==
    /\ c \in entering
    /\ entering' = entering \ {c}
    /\ inserts' = [inserts EXCEPT ![at[c]] = @ \cup {c}]
    /\ UNCHANGED <<game, copy, at, moves, erases, memberVars, sends, funcs, hitVars,
                   mon, expVars, killVars, seen>>

\* The user goes; requests of damage keep the character alive.
Leave(c) ==
    /\ Admitted(c)
    /\ at' = [at EXCEPT ![c] = None]
    /\ erases' = [erases EXCEPT ![at[c]] = @ \cup {c}]
    /\ UNCHANGED <<game, copy, entering, moves, inserts, memberVars, sends, funcs,
                   hitVars, mon, expVars, killVars, seen>>

-----------------------------------------------------------------------------
(* What clients are told. *)

\* Whether msg tells of the health of m, and which it tells.
OfHealth(msg, m) == \/ msg.kind = "damage" /\ m \in DOMAIN msg.hp
                    \/ msg.kind \in {"die", "respawn"} /\ msg.monster = m
Health(msg, m) == CASE msg.kind = "damage" -> msg.hp[m]
                    [] msg.kind = "die" -> 0
                    [] msg.kind = "respawn" -> MaxHp

\* The messages of s that tell of the health of m; of the level of x.
OfMonster(s, m) == {i \in 1 .. Len(s) : OfHealth(s[i], m)}
OfLevel(s, x) == {i \in 1 .. Len(s) : s[i].kind = "level" /\ s[i].who = x}

\* A client's knowledge v after the messages s: the last word counts.
Told(v, s) ==
    [hp |-> [m \in Monsters |->
                IF OfMonster(s, m) = {} THEN v.hp[m]
                ELSE Health(s[Max(OfMonster(s, m))], m)],
     level |-> [x \in Characters |->
                IF OfLevel(s, x) = {} THEN v.level[x]
                ELSE s[Max(OfLevel(s, x))].level]]

\* SendAllCharacter reaches the members of g whose user is there.
Reached(g) == {c \in members[g] : at[c] # None}

Post(g, msg) == sends' = [sends EXCEPT ![g] = Append(@, msg)]

-----------------------------------------------------------------------------
(* Channel and CharacterManager. *)

Here == Order[game.turn]

Goto(p) == game' = [game EXCEPT !.at = p]

\* The health of m that a newcomer is sent; the full one, as for characters.
Snapshot_Full(m) == MaxHp
Snapshot(m) == mon[m].hp

\* Members of g that stay.
Staying(g) == members[g] \ erases[g]

\* The members of g when its mailbox was worked through; with inserts first.
Drained_InsertsFirst(g) == (members[g] \cup inserts[g]) \ erases[g]
Drained(g) == (members[g] \ erases[g]) \cup inserts[g]

\* Channel::PrevTick, erases before inserts.  Who is admitted is sent the
\* monsters and the members, and the members are sent the newcomer.
DrainChannel ==
    /\ game.at = "channel"
    /\ LET g == Here
           left == members[g] \cap erases[g]
           new == inserts[g] \ (members[g] \ left)
           all == Drained(g)
       IN  /\ members' = [members EXCEPT ![g] = all]
           /\ cm' = [c \in Characters |-> IF c \in new THEN g
                                          ELSE IF c \in left THEN None ELSE cm[c]]
           /\ overtaken' = (overtaken \ (left \cup new)) \cup
                 {c \in left \ new : \E h \in Managers \ {g} : c \in Staying(h)}
           /\ seen' = [c \in Characters |->
                 IF c \notin all \/ at[c] = None THEN seen[c]
                 ELSE [hp |-> IF c \in new /\ g = Den
                              THEN [m \in Monsters |-> Snapshot(m)]
                              ELSE seen[c].hp,
                       level |-> [x \in Characters |->
                              IF x \in new \/ (c \in new /\ x \in all)
                              THEN level[x] ELSE seen[c].level[x]]]]
           /\ erases' = [erases EXCEPT ![g] = {}]
           /\ inserts' = [inserts EXCEPT ![g] = {}]
    /\ Goto("manager")
    /\ UNCHANGED <<copy, at, entering, moves, sends, funcs, hitVars, mon, expVars,
                   killVars>>

\* CharacterManager::PrevTick sends what is queued, then runs functions.
DrainManager ==
    /\ game.at = "manager"
    /\ seen' = [c \in Characters |-> IF c \in Reached(Here)
                                     THEN Told(seen[c], sends[Here])
                                     ELSE seen[c]]
    /\ sends' = [sends EXCEPT ![Here] = <<>>]
    /\ copy' = funcs[Here]
    /\ funcs' = [funcs EXCEPT ![Here] = <<>>]
    /\ Goto("functions")
    /\ UNCHANGED <<moveVars, memberVars, hitVars, mon, expVars, killVars>>

\* What SetStatus finds for a level: behind the table, whatever is there.
Required(l) == IF l \in DOMAIN Table THEN {Table[l]} ELSE Garbage

\* LevelUp posts the news to the manager the character points to now, if any.
LevelUp(c) ==
    /\ exp' = [exp EXCEPT ![c] = @ + Exp - req[c]]
    /\ level' = [level EXCEPT ![c] = @ + 1]
    /\ \E r \in Required(level[c] + 1) : req' = [req EXCEPT ![c] = r]
    /\ funcs' = IF cm[c] = None THEN funcs
                ELSE [funcs EXCEPT ![cm[c]] = Append(@, [op |-> "news", c |-> c])]
    /\ quiet' = IF cm[c] = None THEN quiet \cup {c} ELSE quiet

\* Whether one more kill is enough for a level; too late by one.
Enough_Late(c) == exp[c] + Exp > req[c]
Enough(c) == exp[c] + Exp >= req[c]

AddCurrentExp ==
    /\ game.at = "functions" /\ copy # <<>> /\ Head(copy).op = "exp"
    /\ LET c == Head(copy).c
       IN  IF Enough(c) THEN LevelUp(c)
           ELSE /\ exp' = [exp EXCEPT ![c] = @ + Exp]
                /\ UNCHANGED <<level, req, funcs, quiet>>
    /\ copy' = Tail(copy)
    /\ UNCHANGED <<game, moveVars, memberVars, sends, hitVars, mon, killVars, seen>>

\* The level that clients are told; the one before.
LevelTold_Before(c) == level[c] - 1
LevelTold(c) == level[c]

\* The function that LevelUp posted: the level is read when it runs.
TellLevel ==
    /\ game.at = "functions" /\ copy # <<>> /\ Head(copy).op = "news"
    /\ LET c == Head(copy).c
       IN  Post(Here, [kind |-> "level", who |-> c, level |-> LevelTold(c)])
    /\ copy' = Tail(copy)
    /\ UNCHANGED <<game, moveVars, memberVars, funcs, hitVars, mon, expVars, killVars,
                   seen>>

NextChannel ==
    game' = [at |-> "channel", todo |-> {}, turn |-> (game.turn % Len(Order)) + 1]

\* On to the MonsterManager, or to the next channel.
LeaveManager ==
    /\ game.at = "functions" /\ copy = <<>>
    /\ IF Here = Den
       THEN Goto("damage") /\ copy' = hits /\ hits' = <<>>
       ELSE NextChannel /\ UNCHANGED <<copy, hits>>
    /\ UNCHANGED <<moveVars, memberVars, sends, funcs, asked, mon, expVars, killVars,
                   seen>>

-----------------------------------------------------------------------------
(* Damage. *)

\* History: a kill by c, and whether it is one that need not be paid.
CountKill(c) ==
    /\ earned' = [earned EXCEPT ![c] = @ + Exp]
    /\ excused' = IF c \in overtaken \/ \A g \in Managers : c \notin Staying(g)
                  THEN [excused EXCEPT ![c] = @ + 1] ELSE excused

\* One target of the request that is being worked off: GetDamage of m by its
\* attacker c.  A kill goes to the manager that c points to now, if any.
Hurt(m, c, d) ==
    LET hp == IF mon[m].hp > d THEN mon[m].hp - d ELSE 0
    IN  IF hp > 0
        THEN /\ mon' = [mon EXCEPT ![m].hp = hp]
             /\ UNCHANGED <<sends, funcs, killVars>>
        ELSE /\ mon' = [mon EXCEPT ![m].hp = 0, ![m].alive = FALSE, ![m].dead = 0]
             /\ Post(Den, [kind |-> "die", monster |-> m])
             /\ funcs' = IF cm[c] = None THEN funcs
                         ELSE [funcs EXCEPT ![cm[c]] =
                                  Append(@, [op |-> "exp", c |-> c])]
             /\ IF mon[m].alive THEN CountKill(c) ELSE UNCHANGED killVars

\* A dead monster is not hurt; without the test of bAlive.
Strikes_Dead(m, d) == d > 0
Strikes(m, d) == mon[m].alive /\ d > 0

Hit(m, d) ==
    /\ game.at = "damage" /\ copy # <<>> /\ Head(copy).n > 0
    /\ LET r == Head(copy)
           struck == Strikes(m, d)
       IN  /\ IF struck THEN Hurt(m, r.by, d)
              ELSE UNCHANGED <<mon, sends, funcs, killVars>>
           /\ copy' = <<[r EXCEPT !.n = @ - 1,
                                  !.hit = IF struck THEN @ \cup {m} ELSE @]>>
                      \o Tail(copy)
    /\ UNCHANGED <<game, moveVars, memberVars, hitVars, expVars, seen>>

\* The end of a request: the members are told of the health of those it hit.
EndDamage ==
    /\ game.at = "damage" /\ copy # <<>> /\ Head(copy).n = 0
    /\ LET hit == Head(copy).hit
       IN  IF hit = {} THEN UNCHANGED sends
           ELSE Post(Den, [kind |-> "damage", hp |-> [m \in hit |-> mon[m].hp]])
    /\ copy' = Tail(copy)
    /\ UNCHANGED <<game, moveVars, memberVars, funcs, hitVars, mon, expVars, killVars,
                   seen>>

StartMonsters ==
    /\ game.at = "damage" /\ copy = <<>>
    /\ game' = [game EXCEPT !.at = "monsters", !.todo = Monsters]
    /\ UNCHANGED <<copy, moveVars, memberVars, sends, funcs, hitVars, mon, expVars,
                   killVars, seen>>

-----------------------------------------------------------------------------
(* The behaviour tree of a monster.  The operators take a monster x and     *)
(* give what the node leaves of it.                                         *)

\* A path of n points, behind what is left of the last one.  gap is 0 when the
\* first point is reached, which it is when the path begins where x stands.
FindPath(x, n) == [x EXCEPT !.points = @ + n]

\* Patrol and Chase: a frame's way to the next point, if x may move.
Walk(x) ==
    LET y == IF x.points > 0 /\ x.gap = 0
             THEN [x EXCEPT !.points = @ - 1, !.gap = 1] ELSE x
    IN  IF y.points > 0 /\ y.move THEN [y EXCEPT !.gap = 0]
        ELSE IF y.points = 0 THEN [y EXCEPT !.gap = 0] ELSE y

\* The new place is away from what is left of a path.  Without resetting
\* curRespawnTime.
Respawn_Counted(x) ==
    [x EXCEPT !.alive = TRUE, !.hp = MaxHp, !.state = "IDLE", !.attacking = FALSE,
              !.gap = IF x.points > 0 THEN 1 ELSE 0]
Respawn(x) ==
    [x EXCEPT !.alive = TRUE, !.hp = MaxHp, !.state = "IDLE", !.attacking = FALSE,
              !.respawn = 0, !.gap = IF x.points > 0 THEN 1 ELSE 0]

\* When a dead monster comes back.
Due(x) == x.respawn > RespawnTime

\* Nobody is in sight; the state is kept.
Lose_Kept(x) == x
Lose(x) == [x EXCEPT !.state = "IDLE"]

\* near is the nearest character and its distance, n a number of points.
UpdateState(x, near, n) ==
    IF ~x.alive
    THEN IF Due(x) THEN Respawn(x) ELSE [x EXCEPT !.state = "DIE"]
    ELSE LET y == [x EXCEPT !.move = @ /\ ~x.attacking]
         IN  CASE near.zone = "sight" ->
                    FindPath([y EXCEPT !.state = "CHASE", !.move = TRUE,
                                       !.target = near.c, !.points = 0, !.gap = 0], n)
               [] near.zone = "reach" ->
                    [y EXCEPT !.state = "ATTACK", !.move = FALSE, !.target = near.c]
               [] near.zone = "away" -> Lose(y)

UpdateIdle(x, n) ==
    IF x.idle = "PATROL"
    THEN IF x.points = 0 THEN [x EXCEPT !.idle = "HOLD", !.idling = 0, !.move = TRUE]
         ELSE x
    ELSE IF IdleTime > x.idling THEN x
         ELSE FindPath([x EXCEPT !.idle = "PATROL", !.move = TRUE], n)

\* Hold; without counting.
Hold_Uncounted(x) == x
Hold(x) == [x EXCEPT !.idling = @ + 1]

Idle(x, n) ==
    LET y == UpdateIdle(x, n)
    IN  IF y.idle = "PATROL" THEN Walk(y) ELSE Hold(y)

Attack(x) ==
    IF ~x.attacking THEN [x EXCEPT !.attacking = TRUE, !.cool = 0]
    ELSE IF x.cool < CoolTime THEN x ELSE [x EXCEPT !.attacking = FALSE]

\* Without counting.
Die_Uncounted(x) == x
Die(x) == [x EXCEPT !.respawn = @ + 1]

Tree(x, near, n) ==
    LET y == UpdateState(x, near, n)
    IN  CASE y.state = "IDLE" -> Idle(y, n)
          [] y.state = "CHASE" -> Walk(y)
          [] y.state = "ATTACK" -> Attack(y)
          [] y.state = "DIE" -> Die(y)

\* Time goes on: attackCoolTime is a while ago; history, how long x is dead.
Pass(x) ==
    [x EXCEPT !.cool = IF x.cool < CoolTime THEN @ + 1 ELSE @,
              !.dead = IF ~x.alive /\ @ <= RespawnTime THEN @ + 1 ELSE @]

\* SearchNearPlayer: the nearest member, if there is one.
Nearest(g) == [c : members[g], zone : Zones]
                  \cup {[c |-> None, zone |-> "away"]}

Tick(m, near, n) ==
    /\ game.at = "monsters" /\ m \in game.todo
    /\ near \in Nearest(Den)
    /\ mon' = [mon EXCEPT ![m] = Tree(Pass(@), near, n)]
    /\ IF mon'[m].alive /\ ~mon[m].alive
       THEN Post(Den, [kind |-> "respawn", monster |-> m]) ELSE UNCHANGED sends
    /\ game' = [game EXCEPT !.todo = @ \ {m}]
    /\ UNCHANGED <<copy, moveVars, memberVars, funcs, hitVars, expVars, killVars, seen>>

EndMonsters ==
    /\ game.at = "monsters" /\ game.todo = {}
    /\ NextChannel
    /\ UNCHANGED <<copy, moveVars, memberVars, sends, funcs, hitVars, mon, expVars,
                   killVars, seen>>

-----------------------------------------------------------------------------
\* What the levels below l require, all of them together.
Spent(l) == Cardinality(UNION {{k} \X (1 .. Table[k]) : k \in 1 .. l - 1})

Spawned ==
    [alive |-> TRUE, hp |-> MaxHp, state |-> "IDLE", idle |-> "HOLD", idling |-> 0,
     move |-> FALSE, attacking |-> FALSE, cool |-> CoolTime, respawn |-> 0,
     target |-> None, points |-> 0, gap |-> 0, dead |-> 0]

\* The first frame is over; characters have asked to be admitted.
Init ==
    /\ game = [at |-> "channel", turn |-> 1, todo |-> {}]
    /\ copy = <<>> /\ hits = <<>> /\ asked = 0 /\ moves = 0
    /\ at \in [Characters -> Managers] /\ entering = {}
    /\ members = [g \in Managers |-> {}] /\ cm = [c \in Characters |-> None]
    /\ erases = [g \in Managers |-> {}]
    /\ inserts = [g \in Managers |-> {c \in Characters : at[c] = g}]
    /\ \E s \in SetToSeqs(Monsters) :
           sends = [g \in Managers |-> IF g # Den THEN <<>>
                      ELSE [i \in DOMAIN s |-> [kind |-> "respawn", monster |-> s[i]]]]
    /\ funcs = [g \in Managers |-> <<>>]
    /\ mon = [m \in Monsters |-> Spawned]
    /\ level = [c \in Characters |-> Saved[c].level]
    /\ exp = [c \in Characters |-> Saved[c].exp]
    /\ req = [c \in Characters |-> Table[level[c]]]
    /\ quiet = {}
    /\ overtaken = {} /\ excused = [c \in Characters |-> 0]
    /\ earned = [c \in Characters |-> exp[c] + Spent(level[c])]
    /\ seen = [c \in Characters |-> [hp |-> [m \in Monsters |-> MaxHp],
                                     level |-> level]]

Client ==
    \E c \in Characters :
        \/ \E n \in 1 .. MaxTargets : PostDamage(c, n)
        \/ \E g \in Managers : Enter(c, g)
        \/ Ask(c) \/ Leave(c)

GameStep ==
    \/ DrainChannel \/ DrainManager \/ AddCurrentExp \/ TellLevel \/ LeaveManager
    \/ \E m \in Monsters, d \in Blows : Hit(m, d)
    \/ EndDamage \/ StartMonsters
    \/ \E m \in Monsters, near \in Nearest(Den), n \in 0 .. MaxPoints : Tick(m, near, n)
    \/ EndMonsters

Next == Client \/ GameStep

Spec == Init /\ [][Next]_vars

\* The game thread waits for nobody.
FairSpec == Spec /\ WF_vars(GameStep)

-----------------------------------------------------------------------------
(* Properties. *)

Messages ==
    [kind : {"die", "respawn"}, monster : Monsters]
        \cup [kind : {"level"}, who : Characters, level : Nat]
        \cup UNION {[kind : {"damage"}, hp : [h -> 0 .. MaxHp]] : h \in SUBSET Monsters}

Functions == [op : {"exp", "news"}, c : Characters]
Requests == [by : Characters, n : 0 .. MaxTargets, hit : SUBSET Monsters]

MonsterType ==
    [alive : BOOLEAN, hp : 0 .. MaxHp, state : {"IDLE", "CHASE", "ATTACK", "DIE"},
     idle : {"HOLD", "PATROL"}, idling : 0 .. IdleTime + 1, move : BOOLEAN,
     attacking : BOOLEAN, cool : 0 .. CoolTime, respawn : 0 .. RespawnTime + 1,
     target : Characters \cup {None}, points : 0 .. 2 * MaxPoints, gap : {0, 1},
     dead : 0 .. RespawnTime + 1]

\* The variables have their types, but for the histories earned and seen.
TypeOK ==
    /\ game \in [at : {"channel", "manager", "functions", "damage", "monsters"},
                 turn : DOMAIN Order, todo : SUBSET Monsters]
    /\ IF game.at = "damage" THEN copy \in Seq(Requests) ELSE copy \in Seq(Functions)
    /\ at \in [Characters -> Managers \cup {None}] /\ moves \in 0 .. MaxMoves
    /\ entering \subseteq Characters
    /\ members \in [Managers -> SUBSET Characters]
    /\ cm \in [Characters -> Managers \cup {None}]
    /\ erases \in [Managers -> SUBSET Characters]
    /\ inserts \in [Managers -> SUBSET Characters]
    /\ sends \in [Managers -> Seq(Messages)] /\ funcs \in [Managers -> Seq(Functions)]
    /\ hits \in Seq(Requests) /\ asked \in 0 .. MaxHits
    /\ mon \in [Monsters -> MonsterType]
    /\ level \in [Characters -> Nat \ {0}] /\ exp \in [Characters -> Int]
    /\ req \in [Characters -> Int]
    /\ quiet \subseteq Characters
    /\ overtaken \subseteq Characters /\ excused \in [Characters -> Nat]

\* Kills by c that are on their way to AddCurrentExp.
In(s, c) == {i \in 1 .. Len(s) : s[i] = [op |-> "exp", c |-> c]}
Posted(c) == UNION {{g} \X In(funcs[g], c) : g \in Managers}
Running(c) == IF game.at = "functions" THEN In(copy, c) ELSE {}
Underway(c) == Cardinality(Posted(c)) + Cardinality(Running(c))

\* A kill is paid once, to whom it is due, however many attackers hit the monster
\* in one frame and whichever manager the killer has moved to since: what a
\* character had and all its kills come to its experience, what its levels have
\* cost and what is under way (GetDamage, AddCurrentExp, LevelUp).  Two sorts of
\* kills, and no others, may be lost, as GetDamage finds no manager: those by who
\* is in no channel or has left it, and those by a member that was overtaken: the
\* erase of a channel it had left before has emptied its pointer (EraseCharacter).
ExpAccounts ==
    \A c \in Characters : level[c] <= Len(Table) + 1 =>
        \E lost \in 0 .. excused[c] :
            earned[c] = exp[c] + Spent(level[c]) + (Underway(c) + lost) * Exp

\* What a character may have ahead of its level: what the database gave it, and
\* what a kill is worth more than each of the levels it has reached since.
Ahead(c) ==
    UNION {{l} \X (IF l = Saved[c].level THEN Table[l] .. Saved[c].exp
                   ELSE Table[l] + 1 .. Exp) : l \in Saved[c].level .. level[c]}

\* One LevelUp per kill (AddCurrentExp, LevelUp) loses no level, up to the end of
\* the table: a character has the experience for a level it does not have only as
\* far as kills were worth more than the levels they led to, which a row of the
\* table that is missing makes 0; and no level is paid with what it has not.
LevelKeepsUp ==
    \A c \in Characters : level[c] \in DOMAIN Table =>
        /\ req[c] = Table[level[c]]
        /\ 0 <= exp[c] /\ exp[c] < req[c] + Cardinality(Ahead(c))

\* What the client of c will know when the mailbox of g has been drained.
Coming(c, g) == Told(seen[c], sends[g])

\* Clients catch up with the monsters.  A client that came in between a message and
\* its delivery is sent a snapshot that is newer than messages it gets later
\* (InsertCharacter, SendAllCharacter, Dead, Respawn); with what is queued, it
\* still ends up with the health the monsters have, and a dead one has none.
HealthSettles ==
    /\ \A c \in Reached(Den) : \A m \in Monsters :
           IF game.at = "damage" /\ copy # <<>> /\ m \in Head(copy).hit
           THEN TRUE ELSE Coming(c, Den).hp[m] = mon[m].hp
    /\ \A m \in Monsters : mon[m].alive = (mon[m].hp > 0)

\* The channel of c once its handler has posted the admission, and whether its
\* client waits, from the request to the drain that admits it.
Home == [c \in Characters |-> IF c \in entering THEN None ELSE at[c]]
Waiting ==
    [c \in Characters |-> at[c] # None /\ c \in entering \cup inserts[at[c]]]

Abs == INSTANCE MembershipAbs
           WITH Chars <- Characters, Chans <- Managers,
                there <- {c \in Characters : at[c] # None},
                home <- Home, waits <- Waiting, inside <- members, down <- FALSE

\* Whoever changes channels for a fight, and drains that erase and insert many at
\* once (Channel::PrevTick), keep what MembershipAbs promises: admitted once, where
\* it was asked for, and by no older erase put out again.
ImplementsAbs == Abs!Spec

\* News of x's level that LevelUp posted to g.
NewsIn(x, g) ==
    LET news == [op |-> "news", c |-> x]
    IN  \/ \E i \in DOMAIN funcs[g] : funcs[g][i] = news
        \/ game.at = "functions" /\ Here = g /\ \E i \in DOMAIN copy : copy[i] = news

\* Clients catch up with each other's levels, through two rounds of the mailbox
\* (LevelUp, Make_Fbb_Character), though characters come and go meanwhile: of two
\* members that stay each knows the level of the other, or news of it is under way.
\* Not so of a character whose pointer was empty when it gained a level, as the
\* channel it left had reset it (EraseCharacter): nobody is told, and news from
\* before may come in later than the snapshot that has the new level.
LevelsSettle ==
    \A g \in Managers : \A c \in Reached(g) \cap Staying(g) :
        \A x \in Staying(g) \ quiet :
            Coming(c, g).level[x] = level[x] \/ NewsIn(x, g)

\* A monster that begins an attack (Attack) aims at a member of the channel: the
\* target of an earlier look (UpdateState) may have left since.
AttacksMembers ==
    [][\A m \in Monsters : ~mon[m].attacking /\ mon'[m].attacking =>
           mon'[m].target \in members[Den]]_vars

\* A monster stays dead for its respawnTime, each time anew (Die, Respawn).
StaysDead ==
    [][\A m \in Monsters : ~mon[m].alive /\ mon'[m].alive =>
           mon[m].dead > RespawnTime]_vars

\* A dead monster comes back (UpdateState, Die), whatever is asked meanwhile.
ComesBack == \A m \in Monsters : ~mon[m].alive ~> mon[m].alive

\* A monster left in peace strolls on: between HOLD and PATROL (UpdateIdle, Patrol,
\* Hold).  This takes that it may move and is not in the middle of an attack; see
\* the README for monsters to which neither applies.
StrollsOn ==
    \A m \in Monsters :
        <>[](mon[m].state = "IDLE" /\ mon[m].move /\ ~mon[m].attacking)
            => []<>(mon[m].idle = "HOLD") /\ []<>(mon[m].idle = "PATROL")

=============================================================================
