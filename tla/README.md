# ASIOGameServer: models, checks and proofs

ASIOGameServer is the server of an online role-playing game. Clients keep one
TCP connection each; characters live in maps, a map is split into channels, and
whoever is in the same channel sees the others move, fight and talk. This
directory holds TLA+ models of its concurrent core, the TLC configurations that
check them on small instances, and proofs for TLAPS.

Paths below are relative to `src/ASIOGameServer/`.

## The system

**Threads.** `main.cpp:27-38` starts four IO threads, which run one
`asio::io_service`, and stays itself as the game thread in `GameManager::Run`
(`Component::Run`). IO threads run the handlers of completed reads and writes,
the functions posted to a session's strand and to the one of `WorkerGroup`, and
accept connections. The game thread walks the component tree again and again:
`PrevTick` of a component, then its children, then `Tick`. What an IO thread
wants of a channel, a character manager or a monster manager it puts into that
component's mailbox with one of its `Async_` functions.

### Inventory

| Component | State | Operations | Interacts with | Hard behaviour | What makes it correct |
|---|---|---|---|---|---|
| Channel membership: `Channel`, `CharacterManager`, `MapInfo`, `React` | the table and the child list of channels, their `ComponentState` and idle time, `characters`, the `req_` lists; in a character `mapKey`, `channel`, `cm` | enter a map or channel, portal, escape, leave; create, age and destroy a channel; tell clients who comes and goes | IO threads write the React members and post; the game thread drains | two mailboxes visited in either order, erases before inserts, unlocked tables, users that go while requests wait | nobody is lost, nobody stays behind, a destroyed channel is deserted, clients are told the truth |
| Mailbox: `CharacterManager`, `Channel`, `MonsterManager` | `req_` lists, `mt`, copies | `Async_X`, `PrevTick` | all threads | a thread per request, dropped futures, functions that post again while PrevTick runs | every request once, in the caller's order; PrevTick never waits for itself |
| `MysqlPool`, `MySQLManager` | queue of connections, `connect_count`, `poollock` | get, create, ping, close, query | every thread that queries | error paths, exhausted pool, uninitialised count, dead connections | one owner per connection, the limit, calls end |
| `Session` | `recv_buffer`, `com_recvSize`, `send_buffers`, strand | read, write, `PushSend` | socket, `On_Read`, every thread that sends | packets cut or joined, partial writes, handlers beside the strand | packets whole and once, buffers in order, none forgotten |
| `Character` | level, experience, position, `bMove`, `bChangePosition`, events | `AddCurrentExp`, `LevelUp`, `Moving`, events of `Init` | manager, database | a level-up posts to the mailbox being drained; moves of an earlier channel arrive late | experience and level agree, clients learn positions |
| `User`, `UserManager` | the user table, character, session | create, remove, load | database, sessions | removal is posted behind other work | a user that is gone leaves nothing behind |
| `LoginState` | `charcode` | select a character | database, user | two requests before the state changes, failed queries, a shared counter | one character per user |
| `InGameState` | none | every request of a client | character, channel, monsters | stale channel numbers | a request acts where the character is |
| `Asio`, `SessionManager`, `WorkerGroup` | session table, key | accept, remove | users | the first read is posted before key and user are set | handlers see a complete session |
| `Component` | parent, children, tags, state; static tables | attach, detach, remove, update | all components | IO threads add channels while the game thread walks and erases | the tree stays a tree |
| `Monster`, `MonsterManager`, `MonsterBuilder` | health, damage per character, state | damage, die, respawn, move | manager of the attacker | a kill paid through a pointer that went stale | each kill is paid once |
| `BehaviorTree`, `BehaviorTreeBuilder` | nodes, pointers to keys | build, evaluate | monsters | what a node makes of the result of its child | the built tree decides as it was meant to |
| `GameManager`, `MapManager` | maps | read once | database | none | |
| `StatusManager`, `DamageFormula`, `ItemManager`, `MonsterBuilder` | tables read at the start | look up | database | the last level | |
| `Inventory`, `TimerManager`, `EventManager`, `CipherManager`, `MongoDB` | | | not used by the rest | | |
| `Navigation`, `Packet.h`, `FlatBuffer`, `Flag.h`, `Math`, `Time`, `ConvertUTF8`, `Include/` | | geometry, serialisation, conversions, vendored code | | | |

`PROJECT.json` gives the status of each.

## Modules

| Module | Models |
|---|---|
| `Membership` | which channel a character is in, seen from the handlers and from the game thread |
| `MembershipProofs` | theorems about `Membership`, and that it implements `MembershipAbs` |
| `MembershipAbs` | what patient clients are promised: placed in one channel, taken in once, not put out; implemented by `Membership`, `Dungeon` and `Moves` |
| `Mailbox` | the `Async_` functions and `PrevTick`, with threads, mutex and copies |
| `MailboxAbs` | what a mailbox promises: every request once, in order |
| `MailboxProofs` | theorems about `Mailbox`, and that it implements `MailboxAbs` |
| `Login` | from the accepted socket to the character in the game, and the removal of both |
| `LoginProofs` | theorems about `Login` |
| `MysqlPool` | the connection pool and the calls that use it |
| `MysqlPoolProofs` | theorems about `MysqlPool` |
| `Session` | the receive buffer, the strand and the send queue of one session |
| `SessionProofs` | theorems about `Session` |
| `ComponentTree` | the walk over the tree of components while channels are opened and components removed |
| `ComponentTreeProofs` | theorems about `ComponentTree` |
| `Dungeon` | damage, death, experience and levels, the behaviour of monsters, and what clients are told of these |
| `DungeonProofs` | theorems about `Dungeon`, and that it implements `MembershipAbs` |
| `BehaviorTree` | the builder and the nodes of behaviour trees |
| `MonsterAI` | the tree that `MonsterBuilder` builds, run node by node on a monster of `Dungeon` |
| `Moves` | positions: who is marked, when they are sent, what each client knows |
| `MovesProofs` | theorems about `Moves`, and that it implements `MembershipAbs` |
| `MCMembership`, `MCMailbox`, `MCLogin`, `MCMysqlPool`, `MCSession`, `MCComponentTree`, `MCDungeon`, `MCMoves` | small instances |

How they fit together. `Membership` is the core: it has the walk of the game
thread over maps and channels and the handlers of the clients, and takes from
`Mailbox` that requests of one caller keep their order. `Login` is the part
before and behind it (a connection gets a user and a character, and loses
them) with one channel drained in a step. `ComponentTree` looks at the same
walk from below, at the lists and tables that `Membership` treats as sound.
`Dungeon` and `Moves` are two views of what members of a channel do there; both
drain the mailbox of a channel in one step and then the functions of the
manager one by one. That these coarser walks over the channels move characters about as
`Membership` does is not taken on faith: all three are proved to implement
`MembershipAbs`. `MonsterAI` extends `Dungeon` and instantiates
`BehaviorTree`. `MysqlPool` and `Session` are used by all through calls that
either return or not, and stand alone.

### Membership

One handler per character runs at a time, because `Session::do_read` posts the
next read only when `On_Read` has returned. `EnterMap` and `EnterChannel` are
the beginning of a handler: the previous events of `mapKey` and `channel`
(`Character.cpp:39-101`) put an erase into the mailbox of the channel being
left. `Choose`, `Open` and `Admit` are the rest: the loop over the channels
(`MapInfo.cpp:134-159`), the creation of one, and the event that looks the
number up again and posts the insert (`Character.cpp:103-119`). These are steps
of their own because the code takes no lock between them, so handlers of other
characters and the game thread come in between. `CloseSession` and `DropUser`
are the two functions that a read of length 0 brings about.

The game thread is a program counter `game`. `ScanMap` is `MapInfo::PrevTick`;
`BeginPlay`, `Drain`, `Remove` are `Component::Update` of a child by its state;
`RunErase`, `RunInsert`, `RunEscape` are the three loops of
`Channel::PrevTick`, one request at a time; `MoveAll` is
`CharacterManager::Tick`; `NextMap` ends the children of a map. The position
in the list of children (`game.next`) is kept while other threads append.

What the module abstracts:
- Mailboxes are sets. A repeated insert or erase has no effect in the code, and
  the order between characters does not matter. That an erase of a character
  comes before its later insert is what `MailboxAbs` says for one caller and
  two lists, and `Mailbox` is proved to implement it.
- The `CharacterManager` of a channel is identified with the channel, which
  owns its only strong pointer. Its own mailbox carries requests that do not
  change membership.
- The tables of channels and children are unlocked in the code. Here each
  access is one step; a torn access of a `std::map` or `std::list` is undefined
  behaviour and left out.
- The process dies (`crash`) where the code follows a pointer without a test:
  `no_manager` (`MapInfo.cpp:142`), `no_channel` (`Character.cpp:115`),
  `no_session` (`Channel.cpp:145-146`), `no_manager_to_escape`
  (`Channel.cpp:60`), `expired_member` (`CharacterManager.cpp:244-245`).
- `REQ_ENTER_CHANNEL` (`InGameState.cpp:55-66`) takes any number a client sends,
  0 and numbers without a channel included, and so does `EnterChannel`. The event
  of `channel` does nothing more for 0 (`Character.cpp:106`): the character has
  left and is in no channel. For a number without a channel it follows the null
  pointer, and the process ends (`crash = "no_channel"`).
- `MembershipAbs` has none of this but `home`, the answers, the members and whether
  the process lives. A client asks, is placed in a channel and is taken into
  it; of the one it left it may still be a member for a while, and is dropped from
  there at some time. One action, `Drain`, lets characters out of a channel and takes
  others in; here one at a time, in `Dungeon` and `Moves` all at once. The promise is in what is missing: nobody is taken in
  where it was not placed, twice, or without having asked, and who has its
  answer is not dropped. It is kept although the erase and the insert of one move
  go to two mailboxes, because every erase that reaches a mailbox is followed
  there by the insert of whoever comes back. It holds for the channels pushed out
  of the table, too. The pointer `cm` is no part of it (`OwnManager`).
- Idle time is counted in frames; `IdleLimit` stands for the 60 seconds.
- `home` is a history variable: the channel object that last admitted the
  character.

Options: `Patient` clients wait for `ENTER_NEW_CHARACTER_VECTOR` before they
ask again. The server does not enforce it. A hasty client can leave and enter
between two drains, and then stays a member of a channel it left, because
erases run before inserts; hence `OnlyResidents` and `EscapeInOwnChannel` are
checked for patient clients only, everything else for hasty ones.

### Mailbox

`Async_X` starts a thread with `std::async` and drops the future, so the caller
waits in its destructor until that thread is done (`Waits`). The thread locks
`mt`, appends, unlocks: `Acquire`, `PushBack`, `Release`. `PrevTick` locks,
assigns and clears list after list, unlocks, and runs the copies in order. A
function may call `Async_X` of the same manager, as `Character::LevelUp` does
(`CallFromFunction`). Locks are modelled, so a missing one would be seen.

### Login

Functions posted on the strand of `WorkerGroup` are a queue; one is taken at a
time and runs step by step: `NewUser`, the posted half of
`REQ_DUMMIY_CHARACTER`, and the two halves of removing a user. The read handler
of a session (`Reads`, then the steps of `LoginState::On_Read` or the first
request in the game) runs beside it on another of `IOThreads` threads. A
handler that asks the database waits for the answer, since it drops the future;
therefore the queries are steps of the handler and may fail. `charcode` is a
static that handlers read and write in two steps (`decrement`, `store`) and
read again (`copy`), so a handler of another session comes in between; the
history variable `raced` records it. Codes are counted upwards instead of
downwards; `Rows` are the codes that the database still holds from an earlier
run of the server, for which no row is made again.

`start()` posts the first read before `key`, the entry in `sessions` and the
user are set (`SessionManager.cpp:18`), so `Reads` is enabled from there.
`Drain` is the game thread with the one channel of the map: erases, then
inserts, in one step.

What the module abstracts: a read brings one packet (`Session` has the rest);
a request to enter the map is one step of its handler, with one map and one
channel; `Patient` clients wait for the answer to a request, hasty ones do
not, and the server does not enforce either. `NoGhosts` and the second half of
`Forgotten` are about patient clients: one that asks twice before the state
changes gets two `Character` objects, and the first, replaced one may stay
behind in the channel. `crash` is what the process dies of: `no_character`,
`no_row` (the character is not in the answer of `LoadCharacterInfo`),
`no_session`.

### MysqlPool

The steps of a call belong to the calling thread: it either runs the query
itself or waits for the thread that does. `getContinueConnect` is the edge from
`Leave` back to `get`. `lost` records the connections that
`executeSql_Vector(sql, QVector&)` does not give back (`MysqlPool.cpp:267`).
`start` is the value that the never initialised `connect_count` begins with.
It is unsigned (`MysqlPool.h:49-50`), so any natural number. If it is
`MAX_CONNECT` or more no call ever gets a connection; `CountAccounts` holds all
the same, and `EveryCallEnds` says under which count a call must end. Not modelled: `executeSql_Map` and
`executeSql_Vector(sql)`, which have no caller, the destructor, and a result
without rows in `executeSql(sql, string&)`, whose queries return one.

### Session

Strand functions run in the order of the posts, each as one step: `RunRead`,
`RunPush`, `RunRequeue`, `RunWrite`. Handlers of completed operations do not go
through the strand and interleave with it. `Receive` is a completed read up to
the loop of `EResult::OVER`; the loop is `OverRead` (with `On_Read`),
`OverMove` and `OverEnd`. A byte in `buf` is its position in the client's
stream, so losing, repeating or misplacing one is visible; only the bytes of a
size have a value, in base `Base` for 256. A cell that memmove leaves behind
keeps its old byte, which is what the loop reads when one byte is left.

`SocketTakes` is the socket: it begins with the writes in the order in which
they were started and may take a part of one. A buffer has `Parts` parts.
`PING_TEST` copies when the strand comes to it (`echoes`). The copy is also
four bytes too long, since `size` counts the header (`InGameState.cpp:293`);
the property is about the payload. The stream is `ends`, the position at which
each packet of the client ends. `Room` is the length of `recv_buffer` and bounds
what the client sends in all; what a read does behind `BUFSIZE` is not modelled.

`LoopEnds` joins `OneWaits` and `SpinsOnSplitSize`, `WireInOrder` joins
`PartsInOrder` and `BegunInOrder`: in each pair both say what remains true of
one thing.

### ComponentTree

One map. IO threads run `MapInfo::InsertCharacter` as far as it creates and
attaches a channel (`OpenChannel`, `Creates`, `Attach`, `Link`); the game
thread walks frame after frame. The recursion of `Component::Update` is a stack
`loops` of pairs of a node and the child its iterator points to, or `None` for
`end()`; since the list is a `std::list`, a child pushed behind the end of the
walk is not visited in this frame, and an erase invalidates only iterators to
the erased child. `Tick`, `BeginPlay`, `Remove`, `Descend` and `Return` are the
steps of the walk by the state of the child. A channel of a dungeon stands for
all: its `BeginPlay` makes the manager and the manager's the monster, so that
the walk gets three levels deep and components are created by the game thread,
too. `Detached` is the list without the child that `Detach` erases. There may be
any finite number of IO threads.

`CreateComponent` makes four accesses to the static `count` and `Components`
without a lock; each is a step, so two threads may give one id twice and
`Registered` excepts that (`raced`). A torn access of the table itself is
undefined behaviour and left out. `Attach` sets the parent and then pushes the
child into the list; when another thread changes the list meanwhile, the push
may be lost (`torn`, `lost`), which is a choice.

### Dungeon

The game thread is `game`: in each channel of `Order` it drains the channel
(`DrainChannel`), the manager (`DrainManager`, then a step per function:
`AddCurrentExp`, `TellLevel`), in the dungeon the damage requests (`Hit` per
target, `EndDamage` per request) and then ticks the monsters (`Tick`). IO
threads post between any two steps: `PostDamage`, `Enter` and `Ask` (a change
of channel is an erase and then, later, an admission) and `Leave`. This is the
step-by-step walk of `Membership` seen from the fight: mailboxes of channels
are drained at once, one channel object per map, patient clients. `Home` and
`Waiting` say where a character was placed and whether its client waits, and with these
`Enter` is the `Ask` of `MembershipAbs`, `Ask` its `Place`, `DrainChannel` its `Drain`, and
`Leave` its `Quit`; everything else moves nobody.

`Tree` is what the tree that `MonsterBuilder::InsertAI` builds for monsters of
code 1 does in a frame, the sequence and selectors written as the cases they
choose; `UpdateState`,
`Idle`, `Walk` (Patrol and Chase), `Attack`, `Die` are its actors. A monster is
a record with the variables of `Monster`. Abstractions:
- Positions are left out. `near` is the answer of `SearchNearPlayer`: any
  member, in reach (100), in sight (1000) or away. A path is a number of
  points, and `gap` is 0 when the next one is reached, which takes a frame in
  which the monster may move (`bMove`).
- A hit takes any health of `Blows`; 0 is a target out of range. Health below
  zero is zero.
- Time is counted in frames: `IdleTime`, `RespawnTime`, `CoolTime`. The code
  draws `idleTime` anew between 3 and 5 seconds; here it is constant.
- `Table` is `expReqInfos[1..]`, any numbers: rows that the database lacks are 0
  (`StatusManager.cpp:57-60`). Behind its end the code reads what memory holds:
  `Garbage`, any value.
- A way point is reached in one moving frame. The code adds a step of the speed and
  tests a radius (`Monster.cpp:184`, `377`); that a step goes too far is left out.
- `seen` is what the client of a character was told last: health of monsters
  (`RESPAWN_MONSTER_VEC`, `RESPAWN_MONSTER`, `CON_DAMAGE`, `DIE`) and levels
  (`ENTER_NEW_CHARACTER...`, `LEVEL_UP`).
- `earned` is what a character had in the database and all its kills are worth,
  whether or not `GetDamage` finds a manager to pay them through
  (`Monster.cpp:147-148`). `excused` counts the kills by a character that stays in no
  channel when it makes them, and by one that is `overtaken`: in a channel, but the
  erase of another one that it had left before has come after and emptied its
  pointer (the finding `OwnManager`). `ExpAccounts` lets at most so many kills be
  unpaid; a kill by any other member that is not paid, or any that is paid twice or
  to another, breaks it. Both histories go by the mailboxes and the members, not by
  the pointer that the payment tests.
- The attack messages of monsters are seen in the step that begins the attack.
- Patient clients only: one changes channels or leaves when it was told that it is
  in the one it is in, and no admission waits (`Admitted`).
- `quiet` names the characters that gained a level while they pointed to no manager
  (`Character.cpp:189-191`), of which nobody is told; `LevelsSettle` excepts them.

### BehaviorTree and MonsterAI

`BehaviorTree` is `BehaviorTreeBuilder` and the nodes: a tree is a sequence of
nodes with their children, the builder keeps a stack of open composites, and
`Run` evaluates a node on a context and gives the context back with the result
that the node returns, as `Sequence`, `Selector` and the actor do. `MonsterAI`
builds the tree with the calls of `InsertAI`, gives each actor its operator of
`Dungeon`, and `TreeDecides` compares: in every state in which the game thread
is about to tick monsters, and for every answer of `SearchNearPlayer` and every
length of a path, the built tree leaves the monster as `Tree` says. So the
cases of `Tree`, on which the other properties of `Dungeon` rest, are not taken
on faith: a child linked to the wrong parent or key, or a result that cuts a
sequence short, would show. `Run` and the fold of the builder are recursive,
which keeps them out of the modules with proofs.

### Moves

`Tick` of a `CharacterManager` moves those who walk and marks them
(`bChangePosition`); every 0.4 s (`FlushTime` frames) those marked are sent to
the members in packets of `Slice` (10 in the code) at once. The
`MonsterManager` does the same, but what it sends goes through the mailbox of
the `CharacterManager` and is delivered in the next frame, beside
`RESPAWN_MONSTER` and `CON_ESCAPE`. Whoever is admitted gets the roster and the
monsters. `AskMove`, `AskList` and `AskEscape` are `MOVING`,
`REQ_CHARACTER_LIST` and `REQ_ESCAPE`; `Enter` and `Ask` a change of channel.

Positions are left out: `knows[d]` is the set of things whose present position
the client of `d` was told. Moving a thing takes it out of every `knows` and
out of the `now` of every message under way, since these carry the old
position; a message delivered puts its `now` in, and of several about a thing
the last counts (`Told`). What moves and how far is chosen in each frame (which monsters may move is in `Dungeon`). `walks` names
the channel in which a walk was asked for. Heights are left out:
`SetPositionZ` marks nothing. Patient clients only: one changes channels when
it was told that it is in the one it is in, and no admission waits; users that leave are in
`Membership`; the position inside `LEVEL_UP` is left out. As in `Dungeon`, `Home` and
`Waiting` map it to `MembershipAbs`; nobody quits here. `Enter` sets the position and
posts the erase in one step (`InGameState.cpp:262-263`). In the code there is a moment
between the two in which the members of the old channel have an old position and
nothing that corrects it; it ends with the erase, and `PositionsSettle` is not about
it. All counters of `saveTime` begin with one value, any of those there are, though
channels open at different times: no property depends on how far apart they are.

## Runs

Every property of a passing run has a mutant of the mapped code in
`PROJECT.json` that breaks it.

| Run | Checks | Bounds |
|---|---|---|
| `MembershipPatient` | `OnlyResidents`, `EscapeInOwnChannel`, `ImplementsAbs`: a member that left has its erase on the way; an escape runs in the channel it was asked in or not at all; who has its answer stays in the channel it was placed in | 2 characters, 2 maps, 3 channels, 2 moves each |
| `MembershipHasty` | `OneChannelViews`, `DestroyedIsDeserted`, `NoLostAdmission`, `NumberHolds`, `AdmissionSettles`: admissions to living channels are kept and settle, clients are told the truth about one channel, the numbers that the server chose lead to their channels | 2 hasty characters, 1 map, 1 channel object, 2 moves each, numbers 0 and 1, channels age, fair |
| `MembershipOwnManager` | finding: `OwnManager` | 2 maps |
| `Mailbox` | `ImplementsAbs`, `EveryRequestIsExecuted` | an IO thread and the game thread, 2 calls each, 2 lists, fair |
| `Login` | `HandlersFindUser`, `TablesAgree`, `NoGhosts`, `CodesDistinct`, `Forgotten`, `Answered` | a patient and a hasty client, 2 packets each, 2 IO threads, queries fail, 1 old row, fair |
| `MysqlPool` | `OneOwner`, `CountAccounts`, `EveryCallEnds` | 2 threads, `MaxConnect` 2, 3 MYSQL objects, initial count 0, 1 or 7, refused and dropped connections, fair |
| `MysqlPoolCallback` | finding: `CallbackComes` | 2 threads, `MaxConnect` 2 |
| `Session` | `WholePackets`, `LoopEnds`, `EveryBufferHasWrite`, `WireInOrder`, `EchoOfOnePacket` | 3 packets of 3 or 4 bytes cut anywhere, 1 ping, 1 push, 2 parts |
| `ComponentTree` | `IteratorsValid`, `Registered`, `RunsItsCourse` | 2 IO threads, 2 channels with manager and monster, fair |
| `Dungeon` | `ExpAccounts`, `HealthSettles`, `LevelsSettle`, `ImplementsAbs`: a kill is paid once, and unpaid only where it is excused, clients end up with the health and levels there are, who was admitted is not put out by an older erase | 2 characters, 1 monster that sees nobody, a dungeon and a town, 2 requests of 1 or 2 targets, 2 changes of channel |
| `DungeonLive` | `TreeDecides`, `LevelKeepsUp`, `AttacksMembers`, `StaysDead`, `ComesBack`, `StrollsOn` | 1 character, 1 monster with its whole tree, paths of up to 2 points, 3 requests, fair |
| `Moves` | `PositionsSettle`, `WalksAsAsked`, `PositionsArrive`: nobody is left with an old position, a walk ends with its channel | 2 characters, 1 monster, town before dungeon, `Slice` 2, `FlushTime` 1, 1 request waiting, 1 change of channel, fair |

**Bounds and why they are enough.** *Membership:* the races are between the
handler of one character, that of another and the game thread. Two moves let a
character enter, leave and come back while an earlier erase waits; in
`MembershipPatient` three channel objects and `Cap = 1` make moves open new
channels before and behind the one the game thread visits. `MembershipHasty`
has one channel object, which two characters enter and leave twice and
which expires when they are out; `IdleLimit = 3` is the least limit with which a
first channel can get a member before it expires. The safety properties of
both runs are proved for every number of characters, channels, maps and moves,
channels that age and numbers that are used again included.
`MaxChan` cuts
behaviours in which a handler would open one channel more. *Mailbox:* two
requests per thread are needed for order, the game thread's own calls for
contention, two lists for the order of the loops; the proof of `ImplementsAbs`
covers every number. *Login:* the second packet of the
patient client is its request to enter the map, of the hasty one that or a second
request to select before the first is done; two threads let two handlers, or a
handler and the strand, overlap, and let all threads be busy; the row that the
database holds is the code the first client would get. *MysqlPool:* two threads
compete; with a count of 0 there are two connections, with 1 one, and with 7
none; a third MYSQL object can be made while two are dead or lost. The proofs
cover every number. *ComponentTree:* two channels, so that one is pushed while
the walk is at, before or behind the other, and two threads create at once;
three levels let a removal happen below, at and above the loop that waits.
*Session:* three packets let a read end within a size, at a packet's end and
behind two packets; 4 is a multiple of `Base`, the size whose first byte is 0.
*Dungeon:* health 2 and blows of 1 and 2 let a monster be hurt, killed, hit when
dead, and killed twice; the two characters are alike; one kill brings exactly a
level, and the next one a level behind the table; two changes of channel let a
character be hit-and-gone, arrive with messages under way, or leave and come
back before the erase has run, so that a drain has its erase and its insert at
once. The tree does not depend on who is paid, so it is left to `DungeonLive`,
with one character, as is the arithmetic of levels: there the first kill brings
no level, the second exactly one, and the third one that leaves the experience
of another. Each timer has a value that tells counting from expiring, and a path
can be left with a point on it. *Moves:* with `Slice` 2 the roster of two
characters fills a packet exactly, which is where the flush behind the loop
matters, and of one leaves a rest; `FlushTime` 1 tells counting from flushing;
one change of channel brings a newcomer between a message and its delivery, in
both directions (`Order` has the town first, so a monster's message waits for a
whole frame). With two changes of channel, or two requests waiting, the two
safety properties hold as well; the run keeps to one so that `PositionsArrive`
can be checked.

Deadlock is checked but in three runs, where the system really stops:
`Session` (a closed session), `Login` (all clients have come and gone) and
`Moves` (an `Escape` of a character without a manager ends the process).

**Fairness.** `Membership`: the game thread never blocks on anything a client
does, so its steps are weakly fair; a handler that has begun is run to its end.
Nothing obliges clients to move. `Mailbox`: `std::mutex` does not withhold
itself from one waiter for ever, because the game thread spends most of a frame
without it: strong fairness of `Acquire` and of `PrevTick`. `MysqlPool`: the
same for the two places that lock `poollock`; a query ends; the server does not
refuse a thread for ever. `EveryCallEnds` says nothing when there is no
connection for each thread (five threads, `MAX_CONNECT` 50). `Login`: threads that have
begun a handler or a function go on with it, the strand is served, the game
thread drains; no client has to send anything. `ComponentTree`: the game
thread walks on and an IO thread finishes the channel it is opening. `Dungeon`
and `Moves`: the game thread waits for nobody; which character is nearest is
left to chance, without fairness.

**What the findings show.**
- `OwnManager` (`CharacterManager.cpp:151`): the erase of the channel left
  resets `cm` whichever manager it points to. When the game thread visits the
  new channel first, the character ends up without a manager until it moves
  again.
- `CallbackComes` (`MysqlPool.cpp:267`): a successful `executeSql_Vector`
  keeps its connection. Start-up makes about six such calls and each login one
  (`User::LoadCharacterInfo`), so a pool of 50 is used up after some 44 logins,
  and the next call spins.

Two states of a monster last, which is why `StrollsOn` excepts them
(`Dungeon`): `bAttacking` is reset by `Attack` only, so when the target leaves
during an attack, `UpdateState` resets `bMove` in every frame and the monster
stays where it is (`Monster.cpp:285-289`); and one that was in `PATROL` when it
was distracted keeps `bMove = false` and a path that never empties
(`Monster.cpp:318`, `335`). Either ends when a character comes by. Death and
respawn end the first but not the second, since `Respawn` leaves `idleState`,
`paths` and `bMove` alone. Monsters of another code than 1 have no tree and
never come back. Besides, a character whose pointer was reset (`OwnManager`) is
not paid for its kills, and members do not hear of its levels: the run `Dungeon`
reaches such kills, and `ExpAccounts` excepts them by name. One level for a kill
leaves a character ahead of its level when kills are worth more than levels, by as much
as `Ahead` in `LevelKeepsUp` adds up; a level behind the table takes its requirement
from behind the vector.

What the models show besides, without a statement of the repository to hold it
against:
- *Membership.* A channel number that a client makes up, or that has expired, ends
  the process (`Character.cpp:114-115`; `NumberHolds` is about the numbers that
  `InsertCharacter` chose). An idle channel is destroyed with an admission in its mailbox
  (`MapInfo.cpp:103`; `NoLostAdmission` is about living channels and
  `AdmissionSettles` has the end of the channel as one of its ends). Two
  handlers may take the same free number (`MapInfo.cpp:164`); the first channel
  lives on where no move and no scan finds it.
- *Session.* Several packets in one read leave an exactly complete last one waiting
for more bytes (`OneWaits` says one, not none); a size split after a zero low
byte can make the read handler loop for ever (`SpinsOnSplitSize` says only
then; the state is reached in the run); the answer to a `PING_TEST` that came
  together with others may carry other bytes (`EchoOfOnePacket` excepts it, and
  the run reaches it); a partial write lets a later buffer onto the wire before
  the rest (`PartsInOrder` and `BegunInOrder` are what remains true).
- *Membership.* A client that moved together with another may be told to drop it
  by the erase in the old channel (`OneChannelViews` is about one channel).
- *Login.* Two overlapping decrements of `charcode` give two characters one
  code (`CodesDistinct` excepts it); a client that asks twice leaves its first
  character behind.
- *Dungeon.* A kill is paid a frame later, when the killer may be between two
  channels. The level it gains then is told to nobody, though the members of the next
  channel get it with the character; and a `LEVEL_UP` that was queued in the dungeon
  before may reach a client that comes back there behind the roster with the newer
  level. This takes two monsters and two changes of channel, and the run `Dungeon` has
  one monster; `LevelsSettle` excepts such a character (`quiet`), and the proof
  shows that there is no other way.
- *Moves.* A walk that was queued in the channel a character left may set it
  walking in the next one, but only when its pointer was reset as in
  `OwnManager` (`WalksAsAsked`). A newcomer gets as many roster packets as there
  are members, since the flush of the rest stands inside the loop
  (`CharacterManager.cpp:131`). That a character stopped may never be told
  when its mark is clear already. An `Escape` without a manager ends the
  process (`Channel.cpp:60`).

## Theorems

`tlapm` proves these for every value of the constants that satisfies the named
assumption of the module: `MembershipAssumption`, `MailboxAssumption`,
`MysqlPoolAssumption`, `LoginAssumption`, `DungeonAssumption`,
`SessionAssumption`, `ComponentTreeAssumption`, `MovesAssumption`. Nothing else
is assumed. Each follows from an inductive invariant `IInv` of its module and, where
said, from a further one that is inductive together with it; TLC has checked these on
small instances before. The types of these modules, and
`PointerImpliesMember` and `NothingLost`, are proved and need no run of their own.

**MembershipProofs.** `TypeCorrect`, `PointersAreMembers`,
`AdmissionsAreKept`, `DestroyedChannelsAreDeserted`, all from the inductive
invariant `IInv` of `Invariance`. None of the properties is inductive alone:
- types need `Sessions`, that a handler runs only for a live session and that a
  character whose user exists is in a map, so that `LeaveChannel` looks up a
  channel of a map there is;
- `DestroyedIsDeserted` needs where the game thread is (`GameAt`) and that a
  mailbox is worked through only for a channel in state `Alive`, the only state
  with members; channel objects not yet made must be untouched, so that `Open`
  begins with an empty one (`ChannelLife`);
- `NoLostAdmission` needs `EraseBeforeInsert`: an erase that is still under way
  for a character at home in the channel has an insert behind it, so the loop
  over the erases cannot be the last word.

Each is shown to be kept by one lemma (`TypeStep`, `ChannelLifeStep`,
`PointerStep`, `AdmissionStep`) with a step per action.

`ViewsOfOneChannel` proves `OneChannelViews` from `IInv`; what it needs of it is
that the game thread works for the one channel there is.

`NumbersHold` proves `NumberHolds`, for hasty clients that send any number, too: the
pointer that the post event of `channel` follows without a test is null, for a number
that the server itself chose, only when the scan has destroyed a channel with that
number. Between the choice of a number and its lookup
other handlers may open, overwrite and enter channels and the game thread may visit
them. The invariant is `NumberInv`: a number that `InsertCharacter` chose has a channel
or had one that was destroyed (`Chosen`), which the scan keeps because a listed channel
is listed where it was created (`TablePlaces`). Of a number that a client sent nothing
is claimed. The instance of `MembershipHasty` reaches null channels of both kinds, so
the exception does occur.

`MembersAreResidents` and `EscapesInOwnChannel` have `Patient` as their
hypothesis and follow from `PatientInv`, which `PatientInvariance` shows to be
inductive together with `IInv`, while the process lives:
- `TablePlaces`, `HomePlaces`: a listed channel is listed where it was created, and
  `mapKey` and `channel` of a character at home somewhere are its place. So
  `LeaveChannel` finds the channel and the erase goes there (`LeaveErases`);
  this is where a channel that was pushed out of the table falls out;
- `OneRequest`: an insert request of a character that is present is the one its
  client waits for, and is for its home. So an insertion makes a member of
  someone at home. A hasty client breaks this part;
- `Settled`: a client that waits for nothing is at home where its pointer points;
  one that waits for a channel it is still a member of is erased there first;
- `Escapes`: an `Escape` that waits in a mailbox is of a member, and no erase copied
  earlier takes it out; one that was copied for a character whose pointer is to
  another manager has its erase copied with it, and the erase runs first.

`Implementation` (`Spec => ImplementsAbs`, again for `Patient`) maps every step to
one of `MembershipAbs` or a stutter: `EnterMap` and `EnterChannel` to `Ask`,
`Admit` to `Place`, `RunInsert` and `RunErase` to a `Drain` of one character, `DropUser`
to `Quit`, the steps that follow a null pointer to `Fail`. The insertion may happen by
`OneRequest`; the erase may by `EraseBeforeInsert` and `OneRequest`: a character at
home that is erased has an insert under way, so its client still waits.
`AnsweredAreMembers` follows from the steps of `MembershipAbs`.

Most steps move nobody (`Calm`); leaving, opening, admitting, asking to escape,
draining, erasing and inserting have a lemma each.

**MailboxProofs.** `MailboxTypeCorrect`, `NoRequestLost`, `Implementation`
(`Spec => ImplementsAbs`), from `MailboxInvariance`. Its `IInv` says besides
the types: at most one thread is at work under `mt` (`Mutex`); a request's
number is that of a call that was made, and only a caller's last call is still
under way (`Numbered`); while PrevTick copies, lists before the current one are
cleared and those behind are not yet copied (`Copying`); every list is sorted
by the numbers of each caller (`InOrder`), what is queued is younger than what
is taken (`Younger`), and no request is in two places (`Once`). For the
refinement every step is a submission (`PushBack`), an execution (`Run`) or a
stutter; that `Run` may execute its request follows from `InOrder` and
`Younger`.

**MysqlPoolProofs.** `PoolTypeCorrect`, `OneOwnerEach`, `CountIsRight`, from
`PoolInvariance`. `OneOwner` alone is not inductive: that a thread which takes
the front of the queue becomes its only owner needs that it is the only thread
inside the mutex and that the queue is not empty where it pops. `IInv` says who
holds the lock at which stage (`Locking`), where a thread holds a connection
(`Holding`), that whatever was made is kept somewhere (`Kept`) and that the
places do not overlap (`Apart`). The count is
compared with the cardinality of the connections there are, so that a creation
has a free object comes from the bound on `Conns` in the assumption.

**LoginProofs.** `LoginTypeCorrect`, `UserIsFound`, `TablesInStep`,
`CodesAreDistinct`, `NobodyHaunts`. The first three follow from `LoginInvariance`. `IInv` is `TypeOK` and `Control`, five parts: what may be
queued for a connection and how often (`Queue`), how a handler relates to the
function that started its session (`Begun`), that keys given are below
`nextKey` and distinct but while `NewUser` runs (`Keys`), which connection is
in which table at which step (`Entered`), and that whoever plays has a
character (`Playing`). `HandlersFindUser` needs all of them: the read is posted
before the session is complete, and it is the order of the strand, `NewUser`
before the posted half of a request before the removal, that saves it.

`CodesAreDistinct` and `NobodyHaunts` need a second invariant, `GInv`, which
`GuestInvariance` shows to be kept together with the first. `Codes` says where a code is
between the decrement and the character (`Held`): with the handler, in a posted
function, in the one that runs; while no two decrements overlapped, each is held by one
client and none is beyond `charcode`. `Once` says that a client that waits
has at most one request under way and no character before its answer, so
`LoadCharacterInfo` replaces nobody. `Guests` is the half of `NoGhosts` about
the mailbox: whoever waits to be inserted plays on, or its user is gone for
good, and then the insertion ends the process (`no_session`).

**DungeonProofs.** `DungeonTypeCorrect`, `LevelsKeepUp`, `DeadStayDead`,
`AttacksAreOfMembers`, from `DungeonInvariance`, and with further invariants
`ClientsCatchUp`, `KillsArePaid`, `LevelsAreTold`. `IInv` strengthens the types
by `SoundMonster`: one in `HOLD` has at most one path before it (the next is
appended there), a living one has not counted towards its return, and a dead one has counted no further than
it has been dead. `StaysDead` is an action property: with the last of these, the
step in which a monster comes back is one in which it has been dead longer than
`RespawnTime`.

- `LevelsKeepUp` (`LevelKeepsUp`) assumes nothing of the table but numbers: rows may be
  0 and kills worth any number of levels. One level-up for a kill (`Character.cpp`,
  `AddCurrentExp`) may then leave a character with the experience of further levels,
  by at most what kills were worth more than the levels they led to, and what the
  database gave it. These excesses are the set `Ahead`, and `AheadMore` says what one
  more level adds to it. That no level is paid with experience a character does not have
  is a part of `IInv` (`Rows`).

- `ClientsCatchUp` (`HealthSettles`) needs `HealthInv`: whatever a client knows, the
  last word on a monster in the mailbox of the dungeon's manager is its health, and
  where the mailbox is silent the members know; other managers say nothing of
  monsters. The lemmas on `Told` say what one more message does to a last word.
- `KillsArePaid` (`ExpAccounts`) needs `Connected`: whoever stays in a channel points
  to a manager, unless an erase has overtaken it. So a kill that finds no manager is one
  of those that are excused, whatever handlers and drains come between the request of
  damage and the blow. `AccountInv` is the equation itself with `earned` a number; then
  there are lemmas on counting: what a post adds to the kills under way and a run
  takes away (`PostedMore`, `PostedLess`, `InTail`), and what a further level has
  cost (`SpentMore`).
- `LevelsAreTold` (`LevelsSettle`) needs `PlaceInv` and `LevelInv`. `LevelInv` says
  of levels what `HealthInv` says of health, with news under way for a way out. That
  the news is posted where the member is that must hear it rests on `PlaceInv`, five
  parts: a membership that ends has its erase waiting, and a pointer is to a channel
  that has the character (`InPlace`); members of the channel that is visited stay
  nowhere else (`InTurn`); whoever attacks in this visit points to the dungeon, to
  nothing, or to a channel that will erase it before the dungeon admits it
  (`InDen`); hence a kill is paid while its killer points to the dungeon or to
  nothing, since the game thread gets to that other channel first (`Payable`,
  `Soon`), and news is told in the dungeon only (`OldNews`). `Soon` is about the order
  in which the game thread walks over the channels, for any number of them; it takes that no channel
  is visited twice in a frame.
- `Implementation` (`Spec => ImplementsAbs`) needs for the drain that nobody is put out
  who has its answer, and nobody is taken in twice. The first is `InPlace`: an erase that waits
  where the character is has a request to come back behind it. The second is `Arriving`:
  who asks to come in and is still a member there has its erase before it. A drain that
  inserted before it erased would lose such a character, which is the mutant
  `Drained_InsertsFirst`. `AnsweredAreMembers` is what `MembershipAbs` makes of it.

**SessionProofs.** `SessionTypeCorrect`, `PacketsAreWhole`, `OverLoopEnds`,
`BuffersHaveWrites`, `WireIsInOrder`, `EchoIsThePacket`, `PushedIsSent`, from
`SessionInvariance`. The receive side needs that the `com` bytes of `recv_buffer`
are the last ones taken, from the first byte of a packet on (`Aligned`), and
what each stage of the handler says of them (`Reading`): from this, the size that
the loop reads is that of the front packet but where only one byte of it is there.
`OneRead` and `EchoReady` say that a read is posted behind the answer that copies from
the buffer. The send side needs to know where every message is: in a function on
the strand, in `send_buffers`, in a write, in a completed write (`OnTheWay`), each
in one place (`Once`, `Apart`), with as many parts on the wire as its place says
(`Counted`). A partial write comes back behind later buffers, which is why the
order holds only of messages that have not begun: those in a write are older
than those in `send_buffers`, and these are older than those on the strand
(`InLine`). `PushedIsSent` follows as well and has no run: it says of `IInv`'s parts
that nothing falls out between them while the client is there.

**ComponentTreeProofs.** `ComponentTypeCorrect`, `IteratorsStayValid`,
`ComponentsRegistered`, from `ComponentTreeInvariance`.
`IInv` has five groups of parts:
- a node between its constructor and its list is held by one thread, and the
  game thread makes nodes only while a channel at the end of the walk begins
  (`Making`, `Unborn`, `Transit`);
- a child is once in one list, that of its parent; what hangs below a destroyed
  node is destroyed; the tree is no deeper than a monster (`Lists`, `Family`);
- the loops are a path from the map down, but for nodes that have removed
  themselves, no node twice, and a loop that waits has stepped past the child it
  waits for (`Walk`). `IteratorsValid` is not inductive without the last: the one
  child that a removal erases is the one whose update runs, and that the walk is
  a path says that no other loop points to it;
- unless calls overlapped, one thread is inside `CreateComponent`, keys are below
  `count`, and a key is the id of one component (`Table`). `count` is raised twice
  for a component, and the entry that `Remove` erases is found by its id;
- three nodes for each channel: what has been made and what the channels that are
  under way still need stay below (`Budget`). The types rest on it.

**MovesProofs.** `MovesTypeCorrect`, `NoPositionIsForgotten`,
`WalksEndWithTheChannel`, `EscapesDoNotWait`, from `MovesInvariance`. The lemmas
begin with the packets: `PacketsOfAll` says that the flush in the loop and the
one behind it send the whole sequence for every length and `Slice`,
`RosterIsAll` that a newcomer's roster is complete though a builder is pushed
once for each member, `ToldInTurn` and `ToldAll` what messages one behind the
other do. `PositionsSettle` is not inductive alone. It needs
- `Places`: a member that stays has its requests behind it, what is to be erased is
  a member, and once the mailbox of a channel was worked through its members stay
  nowhere else, so what `PrevTick` and `Tick` of its manager do reaches no member
  of another channel;
- `Pointers` and `Mail`: an escape is announced where the character stays, and by
  the drain that comes next, so a message about a character never overtakes a
  roster or a flush, which are sent at once;
- `MonstersSettle`: the messages that wait are enough to correct whoever starts
  from the monsters' positions of now. This is what a newcomer needs that comes in
  between a message and its delivery.

For `WalksAsAsked`, `Requests` says that a function left behind in a channel is
worked through while the erase waits there, too, or in the same frame.

`Implementation` (`Spec => ImplementsAbs`, with `MembershipAbs`) and
`AnsweredAreMembers` follow from `Places` as in `DungeonProofs`. TLC has checked
both on the instance of the run `Moves`, with one and with two changes of channel; the
run leaves them to the proof.

Only model-checked:
- liveness, which is out of the prover's reach: `AdmissionSettles`,
  `EveryRequestIsExecuted`, `EveryCallEnds`, `Forgotten`, `Answered`,
  `ComesBack`, `StrollsOn`, `RunsItsCourse`, `PositionsArrive`;
- `TreeDecides`, which rests on the recursive `Run`.

## Plan

Done, in the order of the plan: `Membership` with `MembershipAbs`, `Mailbox` with
`MailboxAbs`, `MysqlPool`, `Session`, `Dungeon`, `Login`, `ComponentTree`,
`BehaviorTree` with `MonsterAI`, `Moves`, and the proofs: every safety property of
the runs but `TreeDecides`, and every refinement: of `MailboxAbs` by `Mailbox`, and of
`MembershipAbs` by `Membership`, `Dungeon` and `Moves`.

Worth adding:
- the room of `recv_buffer` in `Session`, and the loss of heights in `Moves`.

## Not modelled

- *Vendored code.* `src/Include/` is most of the repository's 256 thousand lines: asio, flatbuffers, spdlog, the MySQL
  client, Crypto++, json, Detour. The server's own code is about nine thousand
  lines, of which a large part is generated (`Packet.h`, the
  FlatBuffer schemas) or data.
- *Serialisation and packets.* What a message contains is generated code; the
  models have which message goes to whom and when.
- *Navigation and formulas.* Paths come from Detour and are a number of points
  here; distances are the answers of searches; damage is any of a set.
- *Tables read once.* `StatusManager`, `ItemManager`, `MapManager` and
  `MonsterBuilder` read the database at the start, before any other thread runs.
- *Not used by the rest.* `Inventory`, `EventManager`, `TimerManager`,
  `CipherManager`, `MongoDB`, and functions without a caller
  (`executeSql_Map`, `SendAllUsers`, `LoopFunction`).
- *Logging, wording, conversions* (`ConvertUTF8`, `Time`, `Math`): no property
  is about them.
- *Requests that only post one message* (chat, animation): these add nothing to
  `Mailbox`.
- *Torn accesses* of unlocked standard containers are undefined behaviour with
  no outcome worth enumerating; the models take each access as one step.
