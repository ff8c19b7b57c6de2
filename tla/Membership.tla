----------------------------- MODULE Membership -----------------------------
(***************************************************************************)
(* Which channel a character is in, as the IO threads and the game thread  *)
(* see it.  A handler on an IO thread changes the character's React<int>   *)
(* members mapKey and channel; their events put an erase request into the  *)
(* mailbox of the channel left and an insert request into the mailbox of   *)
(* the channel entered, and may create that channel.  The game thread      *)
(* visits map after map: it ages and destroys empty channels, and lets     *)
(* every channel work through its mailbox (erases, then inserts, then      *)
(* functions) and its CharacterManager step over the members.              *)
(*                                                                         *)
(* A channel object is its number in the order of creation, which is also  *)
(* its place in the map's list of children.  The CharacterManager that a   *)
(* channel creates in BeginPlay is identified with the channel.  Mailboxes *)
(* are sets: repeating a request has no effect, and requests of different  *)
(* characters may be worked through in any order.  The lists of channels   *)
(* and children, which the code leaves without a lock, change atomically.  *)
(***************************************************************************)
EXTENDS Integers, FiniteSets

CONSTANTS
    Chars,      \* characters; one User and one Session each
    MapCount,   \* maps, visited in the order 1 .. MapCount
    MaxChan,    \* bound: channel objects ever created
    MaxMoves,   \* bound: requests to enter a map or a channel, per character
    Cap,        \* int(maxUserCount * 0.8)
    IdleLimit,  \* frames without members after which a channel is destroyed
    Patient,    \* clients wait for the answer to a move before
                \* they ask again
    Leaving,    \* clients may close their connection
    Escaping,   \* clients may ask to escape
    Aging       \* the run is long enough for a channel to expire

ASSUME MembershipAssumption ==
    /\ MapCount \in Nat \ {0}
    /\ MaxChan \in Nat \ {0}
    /\ MaxMoves \in Nat
    /\ Cap \in Nat \ {0}
    /\ IdleLimit \in Nat \ {0}
    /\ Patient \in BOOLEAN
    /\ Leaving \in BOOLEAN
    /\ Escaping \in BOOLEAN
    /\ Aging \in BOOLEAN

VARIABLES
    conn,       \* "live", "closed" (RemoveSocket ran), "gone" (~User ran)
    mapKey,     \* Character::mapKey
    channel,    \* Character::channel, a number within the map, 0 for none
    cm,         \* Character::cm, 0 for an empty weak_ptr
    io,         \* what is left of the handler running for the character
    awaiting,   \* the client has not had ENTER_NEW_CHARACTER_VECTOR yet
    moves,      \* requests made, for the bound MaxMoves
    home,       \* history: the channel object that last admitted it, 0 if left
    channels,   \* MapInfo::channels, number to object, 0 for no entry
    made,       \* channel objects created so far
    place,      \* the map and number of a channel object
    life,       \* ComponentState of a channel object
    idle,       \* Channel::time in frames
    eraseQ,     \* Channel::req_erase_list
    insertQ,    \* Channel::req_Insert_list
    funcQ,      \* Channel::req_func_list, all of them Channel::Escape
    members,    \* CharacterManager::characters
    known,      \* the characters the client was told of and not told to drop
    game,       \* where the game thread is
    batch,      \* the lists Channel::PrevTick has copied
    crash       \* the null pointer the process died of, "no" while it runs

charVars == <<conn, mapKey, channel, io, moves>>
chanVars == <<channels, made, place, life>>
mailVars == <<eraseQ, insertQ, funcQ>>
vars == <<conn, mapKey, channel, cm, io, awaiting, moves, home, channels, made,
          place, life, idle, eraseQ, insertQ, funcQ, members, known, game,
          batch, crash>>

Maps == 1 .. MapCount
Chans == 1 .. MaxChan
Numbers == 1 .. MaxChan

NoBatch == [erase |-> {}, insert |-> {}, func |-> {}]
Idle == [at |-> "idle", num |-> 0]

-----------------------------------------------------------------------------
(* Reading the shared structures. *)

\* The CharacterManager is attached by BeginPlay and leaves with the channel.
HasCM(o) == life[o] = "Alive"

\* Mutant of GetChannel: a channel counts once it has begun.
GetChannel_Begun(m, n) ==
    IF n \in Numbers /\ channels[m][n] # 0
    THEN IF HasCM(channels[m][n]) THEN channels[m][n] ELSE 0
    ELSE 0

\* GetChannel(number) of the map, 0 for nullptr.
GetChannel(m, n) == IF n \in Numbers THEN channels[m][n] ELSE 0

Children(m) == {o \in Chans : life[o] \notin {"None", "Removed"}
                              /\ place[o].map = m}

\* n is the smallest member of S.
First(n, S) == n \in S /\ \A k \in S : n <= k

\* std::list iteration: p is the child after o, 0 at the end of the list.
After(m, o, p) == LET later == {q \in Children(m) : q > o}
                  IN  First(p, later) \/ (later = {} /\ p = 0)

\* The game thread goes on to the child after o.
WalkOn(o, at, cur) ==
    \E p \in 0 .. MaxChan :
        /\ After(game.map, o, p)
        /\ game' = [game EXCEPT !.at = at, !.cur = cur, !.next = p]

Listed(o) == \E m \in Maps, n \in Numbers : channels[m][n] = o

\* A User that is gone leaves an expired weak_ptr<Character> in members.
Present(c) == conn[c] # "gone"

\* The prev event without the erase.
LeaveChannel_NoErase(c) == home' = [home EXCEPT ![c] = 0] /\ UNCHANGED eraseQ

\* The prev event of React channel: an erase to the channel being left.
LeaveChannel(c) ==
    LET o == GetChannel(mapKey[c], channel[c])
    IN  /\ eraseQ' = IF o = 0 THEN eraseQ
                     ELSE [eraseQ EXCEPT ![o] = @ \cup {c}]
        /\ home' = [home EXCEPT ![c] = 0]

-----------------------------------------------------------------------------
(* IO threads: one handler per character at a time. *)

CanAsk(c) == /\ crash = "no"
             /\ conn[c] = "live"
             /\ io[c] = Idle
             /\ moves[c] < MaxMoves
             /\ Patient => ~awaiting[c]

\* REQ_ENTER_MAP and REQ_PORTAL up to the call of MapInfo::InsertCharacter.
EnterMap(c, m) ==
    /\ CanAsk(c)
    /\ LeaveChannel(c)
    /\ channel' = [channel EXCEPT ![c] = 0]
    /\ mapKey' = [mapKey EXCEPT ![c] = m]
    /\ io' = [io EXCEPT ![c] = [at |-> "choose", num |-> 0]]
    /\ moves' = [moves EXCEPT ![c] = @ + 1]
    /\ awaiting' = [awaiting EXCEPT ![c] = TRUE]
    /\ UNCHANGED <<conn, cm, chanVars, idle, insertQ, funcQ, members, known,
                   game, batch, crash>>

\* REQ_ENTER_CHANNEL: SetChannel with the number the client sent, whether or
\* not there is such a channel and whether or not it has room.
EnterChannel(c, n) ==
    /\ CanAsk(c)
    /\ LeaveChannel(c)
    /\ io' = [io EXCEPT ![c] = [at |-> "enter", num |-> n]]
    /\ moves' = [moves EXCEPT ![c] = @ + 1]
    /\ awaiting' = [awaiting EXCEPT ![c] = TRUE]
    /\ UNCHANGED <<conn, mapKey, channel, cm, chanVars, idle, insertQ, funcQ,
                   members, known, game, batch, crash>>

\* MapInfo::InsertCharacter, the loop over the channels: the first one that
\* has room, or that stops the loop because BeginPlay has not run for it.
Stops(m) == {n \in Numbers :
               LET o == channels[m][n]
               IN  o # 0 /\ (~HasCM(o) \/ Cardinality(members[o]) < Cap)}

FreeNumbers(m) == {n \in Numbers : channels[m][n] = 0}

Choose(c) ==
    /\ crash = "no"
    /\ io[c].at = "choose"
    /\ LET m == mapKey[c]
       IN  \/ \E n \in Numbers :
                 /\ First(n, Stops(m))
                 /\ HasCM(channels[m][n])
                 /\ io' = [io EXCEPT ![c] = [at |-> "admit", num |-> n]]
                 /\ UNCHANGED crash
           \/ \E n \in Numbers :
                 /\ First(n, Stops(m))
                 /\ ~HasCM(channels[m][n])
                 /\ crash' = "no_manager"
                 /\ UNCHANGED io
           \/ \E n \in Numbers :
                 /\ Stops(m) = {}
                 /\ First(n, FreeNumbers(m))
                 /\ io' = [io EXCEPT ![c] = [at |-> "open", num |-> n]]
                 /\ UNCHANGED crash
    /\ UNCHANGED <<conn, mapKey, channel, cm, awaiting, moves, home, chanVars,
                   idle, mailVars, members, known, game, batch>>

\* ... CreateComponent, Attach and the entry in the map's table.
Open(c) ==
    /\ crash = "no"
    /\ io[c].at = "open"
    /\ made < MaxChan
    /\ LET o == made + 1
           n == io[c].num
       IN  /\ made' = o
           /\ place' = [place EXCEPT ![o] = [map |-> mapKey[c], num |-> n]]
           /\ life' = [life EXCEPT ![o] = "Create"]
           /\ channels' = [channels EXCEPT ![mapKey[c]][n] = o]
    /\ io' = [io EXCEPT ![c].at = "admit"]
    /\ UNCHANGED <<conn, mapKey, channel, cm, awaiting, moves, home, idle,
                   mailVars, members, known, game, batch, crash>>

\* SetChannel(number): the assignment and the post event, which looks up any
\* number but 0 and does not test what it finds.
Admit(c) ==
    /\ crash = "no"
    /\ io[c].at \in {"enter", "admit"}
    /\ LET o == GetChannel(mapKey[c], io[c].num)
       IN  IF o = 0
           THEN /\ crash' = IF io[c].num = 0 THEN crash ELSE "no_channel"
                /\ UNCHANGED <<insertQ, home>>
           ELSE /\ insertQ' = [insertQ EXCEPT ![o] = @ \cup {c}]
                /\ home' = [home EXCEPT ![c] = o]
                /\ UNCHANGED crash
    /\ channel' = [channel EXCEPT ![c] = io[c].num]
    /\ io' = [io EXCEPT ![c] = Idle]
    /\ UNCHANGED <<conn, mapKey, cm, awaiting, moves, chanVars, idle, eraseQ,
                   funcQ, members, known, game, batch>>

\* REQ_ESCAPE: sent to the channel that owns the character's manager.
Escape(c) ==
    /\ crash = "no"
    /\ Escaping
    /\ conn[c] = "live"
    /\ io[c] = Idle
    /\ Patient => ~awaiting[c]
    /\ cm[c] # 0
    /\ funcQ' = [funcQ EXCEPT ![cm[c]] = @ \cup {c}]
    /\ UNCHANGED <<charVars, cm, awaiting, home, chanVars, idle, eraseQ,
                   insertQ, members, known, game, batch, crash>>

\* The read handler saw length 0: SessionManager::RemoveSocket.
CloseSession(c) ==
    /\ crash = "no"
    /\ Leaving
    /\ conn[c] = "live"
    /\ io[c] = Idle
    /\ conn' = [conn EXCEPT ![c] = "closed"]
    /\ UNCHANGED <<mapKey, channel, cm, io, awaiting, moves, home, chanVars,
                   idle, mailVars, members, known, game, batch, crash>>

\* UserManager::RemoveUser released the User: User::~User.
DropUser(c) ==
    /\ crash = "no"
    /\ conn[c] = "closed"
    /\ LeaveChannel(c)
    /\ channel' = [channel EXCEPT ![c] = 0]
    /\ mapKey' = [mapKey EXCEPT ![c] = 0]
    /\ conn' = [conn EXCEPT ![c] = "gone"]
    /\ UNCHANGED <<cm, io, awaiting, moves, chanVars, idle, insertQ, funcQ,
                   members, known, game, batch, crash>>

-----------------------------------------------------------------------------
(* The game thread. *)

\* MapInfo::PrevTick over the channels the table lists.
Deserted_OneLeft(o) == ~HasCM(o) \/ Cardinality(members[o]) <= 1
Deserted(o) == ~HasCM(o) \/ members[o] = {}
Expires(o) == Deserted(o) /\ Aging /\ idle[o] + 1 >= IdleLimit

ScanMap ==
    /\ crash = "no"
    /\ game.at = "scan"
    /\ LET m == game.map
           mine == {o \in Chans : \E n \in Numbers : channels[m][n] = o}
       IN  /\ idle' = [o \in Chans |->
                          IF o \notin mine THEN idle[o]
                          ELSE IF Deserted(o) /\ Aging /\ ~Expires(o)
                               THEN idle[o] + 1
                          ELSE 0]
           /\ life' = [o \in Chans |->
                          IF o \in mine /\ Expires(o) THEN "Destroy"
                          ELSE life[o]]
           /\ channels' = [channels EXCEPT ![m] = [n \in Numbers |->
                IF channels[m][n] # 0 /\ Expires(channels[m][n]) THEN 0
                ELSE channels[m][n]]]
           /\ WalkOn(0, "walk", 0)
    /\ UNCHANGED <<charVars, cm, awaiting, home, made, place, mailVars,
                   members, known, batch, crash>>

\* The end of the map's children: the next map, or the next frame.
NextMap ==
    /\ crash = "no"
    /\ game.at = "walk"
    /\ game.next = 0
    /\ game' = [at |-> "scan", map |-> IF game.map = MapCount THEN 1
                                       ELSE game.map + 1,
                cur |-> 0, next |-> 0]
    /\ UNCHANGED <<charVars, cm, awaiting, home, chanVars, idle, mailVars,
                   members, known, batch, crash>>

Visit(o, state) ==
    /\ crash = "no"
    /\ game.at = "walk"
    /\ o = game.next
    /\ o # 0
    /\ life[o] = state

\* Component::Update in state Create: BeginPlay attaches the manager.
BeginPlay(o) ==
    /\ Visit(o, "Create")
    /\ life' = [life EXCEPT ![o] = "Alive"]
    /\ WalkOn(o, "walk", 0)
    /\ UNCHANGED <<charVars, cm, awaiting, home, channels, made, place, idle,
                   mailVars, members, known, batch, crash>>

\* ... in state Destroy: EndPlay and Remove, the manager with it.
Remove(o) ==
    /\ Visit(o, "Destroy")
    /\ life' = [life EXCEPT ![o] = "Removed"]
    /\ WalkOn(o, "walk", 0)
    /\ UNCHANGED <<charVars, cm, awaiting, home, channels, made, place, idle,
                   mailVars, members, known, batch, crash>>

\* Mutant of Drain: an erase in the mailbox cancels an insert beside it.
Drain_Cancels(o) ==
    /\ Visit(o, "Alive")
    /\ batch' = [erase |-> eraseQ[o], insert |-> insertQ[o] \ eraseQ[o],
                 func |-> funcQ[o]]
    /\ eraseQ' = [eraseQ EXCEPT ![o] = {}]
    /\ insertQ' = [insertQ EXCEPT ![o] = {}]
    /\ funcQ' = [funcQ EXCEPT ![o] = {}]
    /\ WalkOn(o, "run", o)
    /\ UNCHANGED <<charVars, cm, awaiting, home, chanVars, idle, members,
                   known, crash>>

\* Mutant of Drain: the list of erases is copied but not cleared.
Drain_KeepsErases(o) ==
    /\ Visit(o, "Alive")
    /\ batch' = [erase |-> eraseQ[o], insert |-> insertQ[o], func |-> funcQ[o]]
    /\ insertQ' = [insertQ EXCEPT ![o] = {}]
    /\ funcQ' = [funcQ EXCEPT ![o] = {}]
    /\ WalkOn(o, "run", o)
    /\ UNCHANGED <<charVars, cm, awaiting, home, chanVars, idle, eraseQ,
                   members, known, crash>>

\* ... in state Alive: Channel::PrevTick copies and clears under the lock.
Drain(o) ==
    /\ Visit(o, "Alive")
    /\ batch' = [erase |-> eraseQ[o], insert |-> insertQ[o], func |-> funcQ[o]]
    /\ eraseQ' = [eraseQ EXCEPT ![o] = {}]
    /\ insertQ' = [insertQ EXCEPT ![o] = {}]
    /\ funcQ' = [funcQ EXCEPT ![o] = {}]
    /\ WalkOn(o, "run", o)
    /\ UNCHANGED <<charVars, cm, awaiting, home, chanVars, idle, members,
                   known, crash>>

\* CharacterManager::EraseCharacter takes the manager pointer away, whichever
\* manager it points to.
ResetPointer(c) == cm' = [cm EXCEPT ![c] = 0]

\* The order of the three loops of Channel::PrevTick, and mutants without it.
InsertTurn_Any == TRUE
InsertTurn == batch.erase = {}
EscapeTurn_Any == TRUE
EscapeTurn == batch.erase = {} /\ batch.insert = {}

\* Channel::EraseCharacter, with LEAVE_CHARACTER to those who remain.
RunErase(c) ==
    LET o == game.cur
    IN  /\ crash = "no"
        /\ game.at = "run"
        /\ c \in batch.erase
        /\ batch' = [batch EXCEPT !.erase = @ \ {c}]
        /\ IF c \in members[o]
           THEN /\ members' = [members EXCEPT ![o] = @ \ {c}]
                /\ ResetPointer(c)
                /\ known' = [d \in Chars |->
                               IF d \in members[o] \ {c} THEN known[d] \ {c}
                               ELSE known[d]]
           ELSE UNCHANGED <<members, cm, known>>
        /\ UNCHANGED <<charVars, awaiting, home, chanVars, idle, mailVars,
                       game, crash>>

\* Make_FBB_All_CharacterInfo after the insertion of c, or by mistake before it.
Roster_Before(o, c) == {d \in members[o] : Present(d)}
Roster(o, c) == {d \in members[o] : Present(d)} \cup {c}

\* Channel::InsertCharacter: the newcomer is sent everyone who is there and
\* everyone is sent the newcomer.  User and session are not tested.
RunInsert(c) ==
    LET o == game.cur
        there == Roster(o, c)
    IN  /\ crash = "no"
        /\ game.at = "run"
        /\ InsertTurn
        /\ c \in batch.insert
        /\ batch' = [batch EXCEPT !.insert = @ \ {c}]
        /\ IF c \in members[o]
           THEN UNCHANGED <<members, cm, known, awaiting, crash>>
           ELSE /\ members' = [members EXCEPT ![o] = @ \cup {c}]
                /\ cm' = [cm EXCEPT ![c] = o]
                /\ IF conn[c] = "live"
                   THEN /\ known' = [d \in Chars |->
                               IF d = c THEN there
                               ELSE IF d \in there THEN known[d] \cup {c}
                               ELSE known[d]]
                        /\ awaiting' = [awaiting EXCEPT ![c] = FALSE]
                        /\ UNCHANGED crash
                   ELSE /\ crash' = "no_session"
                        /\ UNCHANGED <<known, awaiting>>
        /\ UNCHANGED <<charVars, home, chanVars, idle, mailVars, game>>

\* Channel::Escape: moves the character to the escape point of this map and
\* tells the members of the manager the character points to.
RunEscape(c) ==
    /\ crash = "no"
    /\ Escaping
    /\ game.at = "run"
    /\ EscapeTurn
    /\ c \in batch.func
    /\ batch' = [batch EXCEPT !.func = @ \ {c}]
    /\ crash' = IF cm[c] = 0 THEN "no_manager_to_escape" ELSE crash
    /\ UNCHANGED <<charVars, cm, awaiting, home, chanVars, idle, mailVars,
                   members, known, game>>

\* CharacterManager::Tick: every member is locked and moved.
MoveAll ==
    /\ crash = "no"
    /\ game.at = "run"
    /\ batch = NoBatch
    /\ IF \A c \in members[game.cur] : Present(c)
       THEN /\ game' = [game EXCEPT !.at = "walk", !.cur = 0]
            /\ UNCHANGED crash
       ELSE /\ crash' = "expired_member"
            /\ UNCHANGED game
    /\ UNCHANGED <<charVars, cm, awaiting, home, chanVars, idle, mailVars,
                   members, known, batch>>

\* The process is gone.
Crashed == crash # "no" /\ UNCHANGED vars

-----------------------------------------------------------------------------
\* After login: mapKey was set before Init installed the events.
Init ==
    /\ conn = [c \in Chars |-> "live"]
    /\ mapKey = [c \in Chars |-> 1]
    /\ channel = [c \in Chars |-> 0]
    /\ cm = [c \in Chars |-> 0]
    /\ io = [c \in Chars |-> Idle]
    /\ awaiting = [c \in Chars |-> FALSE]
    /\ moves = [c \in Chars |-> 0]
    /\ home = [c \in Chars |-> 0]
    /\ channels = [m \in Maps |-> [n \in Numbers |-> 0]]
    /\ made = 0
    /\ place = [o \in Chans |-> [map |-> 0, num |-> 0]]
    /\ life = [o \in Chans |-> "None"]
    /\ idle = [o \in Chans |-> 0]
    /\ eraseQ = [o \in Chans |-> {}]
    /\ insertQ = [o \in Chans |-> {}]
    /\ funcQ = [o \in Chans |-> {}]
    /\ members = [o \in Chans |-> {}]
    /\ known = [c \in Chars |-> {}]
    /\ game = [at |-> "scan", map |-> 1, cur |-> 0, next |-> 0]
    /\ batch = NoBatch
    /\ crash = "no"

Handler(c) ==
    \/ \E m \in Maps : EnterMap(c, m)
    \/ \E n \in 0 .. MaxChan : EnterChannel(c, n)
    \/ Choose(c)
    \/ Open(c)
    \/ Admit(c)
    \/ Escape(c)
    \/ CloseSession(c)
    \/ DropUser(c)

GameStep ==
    \/ ScanMap
    \/ NextMap
    \/ \E o \in Chans : BeginPlay(o) \/ Remove(o) \/ Drain(o)
    \/ \E c \in Chars : RunErase(c) \/ RunInsert(c) \/ RunEscape(c)
    \/ MoveAll

Next == (\E c \in Chars : Handler(c)) \/ GameStep \/ Crashed

Spec == Init /\ [][Next]_vars

\* The game thread never blocks and a handler that has begun is run to its
\* end by its IO thread; clients owe nothing.
Fairness == /\ WF_vars(GameStep)
            /\ \A c \in Chars : WF_vars(Choose(c) \/ Open(c) \/ Admit(c))
            /\ \A c \in Chars : WF_vars(DropUser(c))

FairSpec == Spec /\ Fairness

-----------------------------------------------------------------------------
TypeOK ==
    /\ conn \in [Chars -> {"live", "closed", "gone"}]
    /\ mapKey \in [Chars -> 0 .. MapCount]
    /\ channel \in [Chars -> 0 .. MaxChan]
    /\ cm \in [Chars -> 0 .. MaxChan]
    /\ io \in [Chars -> [at : {"idle", "choose", "open", "enter", "admit"},
                         num : 0 .. MaxChan]]
    /\ awaiting \in [Chars -> BOOLEAN]
    /\ moves \in [Chars -> 0 .. MaxMoves]
    /\ home \in [Chars -> 0 .. MaxChan]
    /\ channels \in [Maps -> [Numbers -> 0 .. MaxChan]]
    /\ made \in 0 .. MaxChan
    /\ place \in [Chans -> [map : 0 .. MapCount, num : 0 .. MaxChan]]
    /\ life \in [Chans -> {"None", "Create", "Alive", "Destroy", "Removed"}]
    /\ idle \in [Chans -> 0 .. (IdleLimit - 1)]
    /\ eraseQ \in [Chans -> SUBSET Chars]
    /\ insertQ \in [Chans -> SUBSET Chars]
    /\ funcQ \in [Chans -> SUBSET Chars]
    /\ members \in [Chans -> SUBSET Chars]
    /\ known \in [Chars -> SUBSET Chars]
    /\ game \in [at : {"scan", "walk", "run"}, map : Maps,
                 cur : 0 .. MaxChan, next : 0 .. MaxChan]
    /\ batch \in [erase : SUBSET Chars, insert : SUBSET Chars,
                  func : SUBSET Chars]
    /\ crash \in {"no", "no_manager", "no_channel", "no_session",
                  "no_manager_to_escape", "expired_member"}

-----------------------------------------------------------------------------
(* Safety. *)

\* A character whose manager pointer is set is a member of that manager, so
\* what handlers send through the pointer also reaches the character itself
\* (EraseCharacter resets the pointer, InsertCharacter sets it).
PointerImpliesMember ==
    \A c \in Chars, o \in Chans : cm[c] = o => c \in members[o]

Inserting(c, o) ==
    \/ c \in members[o]
    \/ c \in insertQ[o]
    \/ game.cur = o /\ c \in batch.insert

Erasing(c, o) == c \in eraseQ[o] \/ (game.cur = o /\ c \in batch.erase)

\* A character that was admitted to a channel and has not left is a member or
\* will be: no order of enter, leave and drain loses it while the channel
\* object lives, although every drain runs the erases before the inserts.
NoLostAdmission ==
    \A c \in Chars, o \in Chans :
        home[c] = o /\ life[o] \notin {"Destroy", "Removed"} => Inserting(c, o)

\* A member that is not at home in the channel, because it left or its user is
\* gone, has an erase on its way, if clients wait for the answer to a move.
\* Hence a weak_ptr expires in a manager only between the drain and the tick.
\* Channels that a second Open of the same number pushed out of the map's
\* table are excepted: erases no longer find them.
OnlyResidents ==
    crash = "no" =>
        \A o \in Chans : Listed(o) =>
            \A c \in members[o] : home[c] = o \/ Erasing(c, o)

\* The scan that destroys a channel counts the members on the game thread, the
\* only one that inserts: a destroyed channel never has a member, and no
\* character points to its manager.
DestroyedIsDeserted ==
    \A o \in Chans : life[o] \in {"Destroy", "Removed"} => members[o] = {}

\* The number that InsertCharacter chose or opened is looked up again by the
\* events of channel, while other handlers open channels, also two the same one,
\* and the scan destroys some: a channel is found under it, unless the scan has
\* destroyed one of this number.  For the number that a client sent, nothing of
\* the kind holds.
NumberHolds ==
    \A c \in Chars :
        io[c].at = "admit" =>
            \/ GetChannel(mapKey[c], io[c].num) # 0
            \/ \E o \in Chans :
                  /\ life[o] \in {"Destroy", "Removed"}
                  /\ place[o] = [map |-> mapKey[c], num |-> io[c].num]

\* Channel::Escape runs for a character that is in the channel or in none, if
\* clients wait: a move made after REQ_ESCAPE has its erase run before the
\* function or in a later drain, so the escape point of one map is not applied
\* to a character in another.
EscapeInOwnChannel ==
    [][\A c \in Chars : RunEscape(c) /\ Listed(game.cur)
                            => cm[c] \in {0, game.cur}]_vars

\* While there has been one channel only, every member's client knows all the
\* members that are present, and nobody who is no member.
OneChannelViews ==
    made = 1 /\ crash = "no" =>
        \A c \in members[1] : conn[c] = "live" =>
            /\ {d \in members[1] : Present(d)} \subseteq known[c]
            /\ known[c] \subseteq members[1]

\* What the server promises to patient clients, with the handlers' steps, the
\* mailboxes, the copied lists and the frames hidden: MembershipAbs.
Abs == INSTANCE MembershipAbs
           WITH None <- 0,
                there <- {c \in Chars : Present(c)},
                waits <- awaiting,
                inside <- members,
                down <- crash # "no"

\* A character is taken into the channel that SetChannel placed it in, which is
\* when ENTER_NEW_CHARACTER_VECTOR goes out; from then on no erase that was
\* asked for earlier takes it out, until the client moves or its user goes.
ImplementsAbs == Abs!Spec

-----------------------------------------------------------------------------
(* Liveness. *)

\* An admission is answered: the character becomes a member of the channel it
\* was admitted to, unless it moves on, or its user goes, or the channel is
\* destroyed, or the process dies.
AdmissionSettles ==
    \A c \in Chars, o \in Chans :
        (home[c] = o /\ crash = "no") ~>
            \/ c \in members[o] /\ ~Erasing(c, o)
            \/ home[c] # o
            \/ life[o] \in {"Destroy", "Removed"}
            \/ crash # "no"

-----------------------------------------------------------------------------
(* What comments in the source say, and what does not hold. *)

\* Character.h:88, "its own user and manager": a character that is a member of
\* the channel it is at home in, with nothing under way, points to the manager.
OwnManager ==
    \A c \in Chars, o \in Chans :
        /\ home[c] = o /\ c \in members[o]
        /\ \A p \in Chans : ~Erasing(c, p) /\ c \notin insertQ[p]
        /\ game.at = "scan"
        => cm[c] = o
=============================================================================
