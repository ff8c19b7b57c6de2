-------------------------------- MODULE Moves --------------------------------
(***************************************************************************)
(* Where things are and what clients are told of it.                       *)
(*                                                                         *)
(* Members and monsters that move are marked (bChangePosition), and every  *)
(* 0.4 s those that are marked are sent to the members, in packets of      *)
(* Slice.  The CharacterManager sends at once; what the MonsterManager has *)
(* waits in the mailbox of the CharacterManager for the next frame, beside *)
(* RESPAWN_MONSTER and CON_ESCAPE.  Who is admitted is sent all positions, *)
(* at once.                                                                *)
(*                                                                         *)
(* Positions are left out: knows[d] holds the things of which the client   *)
(* of d was last told the position they have now, and a message what it is *)
(* about and of which things it (still) has the position.  How far a       *)
(* character is from its destination is chosen anew in every frame; which  *)
(* monsters may move is decided in Dungeon.  Heights are left out, as are  *)
(* users that leave (Membership) and the position in LEVEL_UP.  Clients    *)
(* are patient: they change channels when they were admitted and have no   *)
(* escape under way.                                                       *)
(***************************************************************************)
EXTENDS Integers, Sequences, FiniteSets, FiniteSetsExt, SequencesExt

CONSTANTS
    Characters, Monsters,
    Order,      \* the channels, as the game thread visits them
    Den,        \* the one with monsters
    None,
    Slice,      \* entries of a packet
    FlushTime,  \* in frames
    MaxAsked,   \* bound: requests in the mailboxes
    MaxMoves    \* bound: changes of channel

Managers == Range(Order)
Things == Characters \cup Monsters

ASSUME MovesAssumption ==
    /\ Order \in Seq(Managers) /\ Order # <<>> /\ IsInjective(Order)
    /\ None \notin Managers
    /\ Characters \cap Monsters = {}
    /\ IsFiniteSet(Characters) /\ IsFiniteSet(Monsters)
    /\ Slice \in Nat \ {0} /\ {FlushTime, MaxAsked, MaxMoves} \subseteq Nat

VARIABLES
    game,       \* the game thread: [at, turn]
    at,         \* the channel of a character
    entering,   \* characters whose handler has yet to post the admission
    moves,      \* changes of channel made so far
    erases, inserts, escapes, \* mailbox of a Channel
    sends, funcs, \* mailbox of a CharacterManager
    members,    \* characters of a CharacterManager
    cm,         \* the manager a character points to, or None
    walks,      \* the channel in which a walk was asked for; None: ~bMove
    changed,    \* things with bChangePosition
    since,      \* saveTime of a CharacterManager, and of the MonsterManager
    knows       \* history: of what a client was told the present position

placeVars == <<at, entering, moves, erases, inserts>>
toldVars == <<sends, knows>>
memberVars == <<members, cm>>
vars == <<game, placeVars, escapes, funcs, memberVars, walks, changed, since,
          toldVars>>

-----------------------------------------------------------------------------
(* Messages and packets. *)

\* What the messages of s from the i-th on are about.
About(s, i) == UNION {s[j].about : j \in i .. Len(s)}

\* What a client that knows k knows after the messages s: of each thing, what the
\* last message about it says.
Told(k, s) == (k \ About(s, 1))
                  \cup UNION {s[i].now \ About(s, i + 1) : i \in 1 .. Len(s)}

\* The things X are somewhere else now.
Away(k, X) == [d \in Characters |-> k[d] \ X]
AwayIn(s, X) ==
    [g \in Managers |-> [i \in DOMAIN s[g] |-> [s[g][i] EXCEPT !.now = @ \ X]]]

\* The k-th builder takes Slice things of the sequence s, the last the rest.
Builder(s, k) ==
    Range(SubSeq(s, (k - 1) * Slice + 1, Min({k * Slice, Len(s)})))

\* Tick flushes full builders in its loop and the rest behind it; without that.
Packets_Full(s) == [k \in 1 .. Len(s) \div Slice |-> Builder(s, k)]
Packets(s) == [k \in 1 .. (Len(s) + Slice - 1) \div Slice |-> Builder(s, k)]

\* Make_FBB_All_... pushes the builder a thing is in for every thing, since the
\* flush of the rest stands inside the loop; its content is what it is in the end.
Roster(X) ==
    LET s == SetToSeq(X)
        pushed == [i \in DOMAIN s |-> Builder(s, (i - 1) \div Slice + 1)]
    IN  UNION Range(pushed)

-----------------------------------------------------------------------------
(* What the IO threads do. *)

\* The client of c was told that it is in its channel.
Admitted(c) ==
    c \notin entering /\ c \in members[at[c]] /\ c \notin inserts[at[c]]

\* Fewer than MaxAsked requests wait.
Room == MapThenSumSet(LAMBDA g : Len(funcs[g]) + Cardinality(escapes[g]), Managers)
            < MaxAsked

\* MOVING: a function for the manager of the character's channel.
AskMove(c, walk) ==
    /\ c \notin entering
    /\ Room
    /\ funcs' = [funcs EXCEPT ![at[c]] =
                    Append(@, [op |-> "move", c |-> c, walk |-> walk])]
    /\ UNCHANGED <<game, placeVars, escapes, memberVars, walks, changed, since,
                   toldVars>>

\* REQ_CHARACTER_LIST: one for the manager the character points to.
AskList(c) ==
    /\ Admitted(c) /\ cm[c] # None
    /\ Room
    /\ funcs' = [funcs EXCEPT ![cm[c]] =
                    Append(@, [op |-> "list", c |-> c, walk |-> FALSE])]
    /\ UNCHANGED <<game, placeVars, escapes, memberVars, walks, changed, since,
                   toldVars>>

\* REQ_ESCAPE: one for the channel of that manager.
AskEscape(c) ==
    /\ Admitted(c) /\ cm[c] # None
    /\ Room
    /\ escapes' = [escapes EXCEPT ![cm[c]] = @ \cup {c}]
    /\ UNCHANGED <<game, placeVars, funcs, memberVars, walks, changed, since,
                   toldVars>>

\* A change of channel: REQ_PORTAL sets the position first, on this thread; the
\* other requests do not, but nobody could tell, for all are told anew when c is
\* admitted.  The client of c starts from nothing.
Enter(c, g) ==
    /\ Admitted(c) /\ at[c] # g
    /\ \A h \in Managers : c \notin escapes[h]
    /\ moves < MaxMoves /\ moves' = moves + 1
    /\ at' = [at EXCEPT ![c] = g]
    /\ entering' = entering \cup {c}
    /\ erases' = [erases EXCEPT ![at[c]] = @ \cup {c}]
    /\ knows' = [Away(knows, {c}) EXCEPT ![c] = {}]
    /\ sends' = AwayIn(sends, {c})
    /\ UNCHANGED <<game, inserts, escapes, funcs, memberVars, walks, changed,
                   since>>

Ask(c) ==
    /\ c \in entering
    /\ entering' = entering \ {c}
    /\ inserts' = [inserts EXCEPT ![at[c]] = @ \cup {c}]
    /\ UNCHANGED <<game, at, moves, erases, escapes, funcs, memberVars, walks, changed,
                   since, toldVars>>

-----------------------------------------------------------------------------
(* The game thread: Channel. *)

Here == Order[game.turn]
Goto(p) == game' = [game EXCEPT !.at = p]

\* SetMoveCancel; without it.
Cancel_Forgotten(X) == UNCHANGED <<walks, changed>>
Cancel(X) ==
    /\ walks' = [c \in Characters |-> IF c \in X THEN None ELSE walks[c]]
    /\ changed' = changed \ X

\* Channel::PrevTick: erases, inserts, then Escape, which sets the position and
\* posts CON_ESCAPE to the manager the character points to.  Without a manager
\* the process dies.  SetWarpPosition does not change the position.
DrainChannel ==
    /\ game.at = "channel"
    /\ LET g == Here
           rest == members[g] \ erases[g]
           new == inserts[g] \ rest
           all == rest \cup new
           roster == Roster(all) \cup (IF g = Den THEN Roster(Monsters) ELSE {})
           fled == escapes[g]
           cm2 == [c \in Characters |->
                      IF c \in new THEN g
                      ELSE IF c \in members[g] \cap erases[g] THEN None ELSE cm[c]]
           escape(h) == LET X == {c \in fled : cm2[c] = h}
                        IN  IF X = {} THEN <<>> ELSE <<[about |-> X, now |-> X]>>
           told == [d \in Characters |-> IF d \in new THEN roster
                                         ELSE IF d \in rest THEN knows[d] \cup new
                                         ELSE knows[d]]
       IN  /\ members' = [members EXCEPT ![g] = all]
           /\ cm' = cm2
           /\ Cancel(inserts[g])
           /\ knows' = Away(told, fled)
           /\ sends' = [h \in Managers |-> AwayIn(sends, fled)[h] \o escape(h)]
           /\ erases' = [erases EXCEPT ![g] = {}]
           /\ inserts' = [inserts EXCEPT ![g] = {}]
           /\ escapes' = [escapes EXCEPT ![g] = {}]
           /\ Goto(IF \E c \in fled : cm2[c] = None THEN "dead" ELSE "manager")
    /\ UNCHANGED <<at, entering, moves, funcs, since>>

-----------------------------------------------------------------------------
(* CharacterManager. *)

\* What the functions s leave of walks: the last that c asked for counts.
Moved(s, c) == {i \in 1 .. Len(s) : s[i].op = "move" /\ s[i].c = c}
Run(s) == [c \in Characters |-> IF Moved(s, c) = {} THEN walks[c]
                                ELSE IF s[Max(Moved(s, c))].walk THEN Here
                                ELSE None]

\* PrevTick: messages to the members, then functions, which send lists at once.
DrainManager ==
    /\ game.at = "manager"
    /\ LET g == Here
           listed == {f.c : f \in {x \in Range(funcs[g]) : x.op = "list"}}
           heard == [d \in Characters |->
                        IF d \in members[g] THEN Told(knows[d], sends[g])
                        ELSE knows[d]]
       IN  /\ knows' = [d \in Characters |-> IF d \in listed
                                             THEN heard[d] \cup Roster(members[g])
                                             ELSE heard[d]]
           /\ walks' = Run(funcs[g])
           /\ sends' = [sends EXCEPT ![g] = <<>>]
           /\ funcs' = [funcs EXCEPT ![g] = <<>>]
    /\ Goto("tick")
    /\ UNCHANGED <<placeVars, escapes, memberVars, changed, since>>

\* saveTime counts up to FlushTime, then it is time for a flush; uncounted.
Due(n) == n >= FlushTime
Later_Uncounted(n) == IF Due(n) THEN 0 ELSE n
Later(n) == IF Due(n) THEN 0 ELSE n + 1

\* Tick: X move.  Who walks does (clients ask for walks at a speed), and who does not
\* may go on to where its client said it is.  A flush sends those that are marked
\* and takes the mark away.
Tick(X) ==
    /\ game.at = "tick"
    /\ LET g == Here
           marked == changed \cup X
           sent == marked \cap UNION Range(Packets(SetToSeq(members[g])))
           moved == Away(knows, X)
       IN  /\ X \subseteq members[g]
           /\ \A c \in members[g] : walks[c] # None => c \in X
           /\ IF Due(since.chars[g])
              THEN /\ changed' = marked \ members[g]
                   /\ knows' = [d \in Characters |-> IF d \in members[g]
                                                     THEN moved[d] \cup sent
                                                     ELSE moved[d]]
              ELSE /\ changed' = marked
                   /\ knows' = moved
           /\ sends' = AwayIn(sends, X)
           /\ since' = [since EXCEPT !.chars[g] = Later(@)]
           /\ game' = IF g = Den THEN [game EXCEPT !.at = "monsters"]
                      ELSE [at |-> "channel", turn |-> (game.turn % Len(Order)) + 1]
    /\ UNCHANGED <<placeVars, escapes, funcs, memberVars, walks>>

-----------------------------------------------------------------------------
(* Monsters. *)

\* MonsterManager::Tick posts the marked ones, packet by packet.
FlushMonsters ==
    /\ game.at = "monsters"
    /\ LET packets == Packets(SetToSeq(Monsters))
           Message(p) == [about |-> p \cap changed, now |-> p \cap changed]
       IN  IF Due(since.mons)
           THEN /\ sends' = [sends EXCEPT ![Den] = @ \o
                               [k \in DOMAIN packets |-> Message(packets[k])]]
                /\ changed' = changed \ Monsters
           ELSE UNCHANGED <<sends, changed>>
    /\ since' = [since EXCEPT !.mons = Later(@)]
    /\ Goto("trees")
    /\ UNCHANGED <<placeVars, escapes, funcs, memberVars, walks, knows>>

\* The behaviour trees: X move and are marked, Y come back elsewhere and are not;
\* these are announced, one by one.
MonstersTick(X, Y) ==
    /\ game.at = "trees"
    /\ X \cap Y = {}
    /\ changed' = changed \cup X
    /\ knows' = Away(knows, X \cup Y)
    /\ sends' = [AwayIn(sends, X \cup Y) EXCEPT ![Den] =
                    IF Y = {} THEN @ ELSE Append(@, [about |-> Y, now |-> Y])]
    /\ game' = [at |-> "channel", turn |-> (game.turn % Len(Order)) + 1]
    /\ UNCHANGED <<placeVars, escapes, funcs, memberVars, walks, since>>

-----------------------------------------------------------------------------
\* Characters have asked to be admitted; channels began together.
Init ==
    /\ game = [at |-> "channel", turn |-> 1]
    /\ at \in [Characters -> Managers] /\ entering = {} /\ moves = 0
    /\ erases = [g \in Managers |-> {}] /\ escapes = [g \in Managers |-> {}]
    /\ inserts = [g \in Managers |-> {c \in Characters : at[c] = g}]
    /\ sends = [g \in Managers |-> <<>>] /\ funcs = [g \in Managers |-> <<>>]
    /\ members = [g \in Managers |-> {}] /\ cm = [c \in Characters |-> None]
    /\ walks = [c \in Characters |-> None] /\ changed = {}
    /\ \E n \in 0 .. FlushTime : since = [chars |-> [g \in Managers |-> n], mons |-> n]
    /\ knows = [c \in Characters |-> {}]

Client == game.at # "dead" /\
    \E c \in Characters :
        \/ \E walk \in BOOLEAN : AskMove(c, walk)
        \/ AskList(c) \/ AskEscape(c)
        \/ \E g \in Managers : Enter(c, g)
        \/ Ask(c)

GameStep ==
    \/ DrainChannel \/ DrainManager
    \/ \E X \in SUBSET Characters : Tick(X)
    \/ FlushMonsters
    \/ \E X, Y \in SUBSET Monsters : MonstersTick(X, Y)

Next == Client \/ GameStep

Spec == Init /\ [][Next]_vars

\* The game thread waits for nobody.
FairSpec == Spec /\ WF_vars(GameStep)

-----------------------------------------------------------------------------
(* Properties. *)

\* The members that have not left since.
Staying(g) == members[g] \ erases[g]

\* The things a member of g is to know.
Around(g) == Staying(g) \cup (IF g = Den THEN Monsters ELSE {})

\* What the client of d will know when the mailbox of g has been drained.
Coming(d, g) == Told(knows[d], sends[g])

\* No position is forgotten: whatever moves (Moving, Respawn, Escape), whoever
\* comes in between a message and its delivery, and however the flush is split
\* into packets, a member knows the position of what is around it, or will when
\* the mailbox is drained, or the thing is marked for the next flush.
PositionsSettle ==
    game.at # "dead" => \A g \in Managers : \A d \in Staying(g) :
        Around(g) \subseteq Coming(d, g) \cup changed

\* A member walks because its client asked for it in this channel: admission
\* (SetMoveCancel) puts an end to walks of before.  A function that is still queued
\* in the channel it left may set it off again, but only where the erase of that
\* channel came late enough to take the manager pointer away, too.
WalksAsAsked ==
    \A g \in Managers : \A c \in Staying(g) : walks[c] \in {None, g} \/ cm[c] = None

\* The channel of c once its handler has posted the admission, and whether its
\* client waits, from the request to the drain that admits it.
Home == [c \in Characters |-> IF c \in entering THEN None ELSE at[c]]
Waiting == [c \in Characters |-> c \in entering \/ c \in inserts[at[c]]]

\* An Escape that kills the process runs behind the inserts, and nothing moves then.
Abs == INSTANCE MembershipAbs
           WITH Chars <- Characters, Chans <- Managers, there <- Characters,
                home <- Home, waits <- Waiting, inside <- members, down <- FALSE

\* Characters that walk, escape and change channels keep what MembershipAbs promises:
\* Channel::PrevTick admits them once, where they asked to be, and no older erase
\* puts them out again.
ImplementsAbs == Abs!Spec

\* Members that stay together are told of each other's positions for ever, how
\* ever much they move (Tick), as long as the process lives.
PositionsArrive ==
    \A g \in Managers : \A c, d \in Characters :
        <>[](game.at # "dead" /\ {c, d} \subseteq Staying(g))
            => []<>(c \in knows[d])
===============================================================================
