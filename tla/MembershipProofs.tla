-------------------------- MODULE MembershipProofs --------------------------
(***************************************************************************)
(* Theorems about Membership, for every set of characters and every value  *)
(* of the bounds.                                                          *)
(***************************************************************************)
EXTENDS Membership, TLAPS

(* A handler runs for a live session only, and a character whose user is   *)
(* still there is in one of the maps.                                      *)
Sessions ==
    \A c \in Chars : /\ conn[c] # "gone" => mapKey[c] \in Maps
                     /\ io[c] # Idle => conn[c] = "live"

TInv == TypeOK /\ Sessions

(* The game thread works through a mailbox exactly while it has a channel. *)
GameAt == game.at = "run" <=> game.cur # 0

Handlers == {"idle", "choose", "open", "enter", "admit"}
GameType == [at : {"scan", "walk", "run"}, map : Maps,
             cur : 0 .. MaxChan, next : 0 .. MaxChan]

LEMMA WalkOnType ==
    ASSUME TypeOK, NEW o, NEW at \in {"scan", "walk", "run"},
           NEW cur \in 0 .. MaxChan, WalkOn(o, at, cur)
    PROVE  /\ game' \in GameType
           /\ game'.at = at
           /\ game'.cur = cur
  BY DEF WalkOn, TypeOK, GameType

LEMMA GetChannelType ==
    ASSUME TypeOK, NEW m \in Maps, NEW n
    PROVE  GetChannel(m, n) \in 0 .. MaxChan
<1>1. channels \in [Maps -> [Numbers -> 0 .. MaxChan]]
  BY DEF TypeOK
<1>2. 0 \in 0 .. MaxChan
  BY MembershipAssumption
<1> QED
  BY <1>1, <1>2 DEF GetChannel

LEMMA LeaveChannelType ==
    ASSUME TInv, NEW c \in Chars, conn[c] # "gone", LeaveChannel(c)
    PROVE  /\ eraseQ' \in [Chans -> SUBSET Chars]
           /\ home' \in [Chars -> 0 .. MaxChan]
           /\ home' = [home EXCEPT ![c] = 0]
           /\ \A o \in Chans : eraseQ'[o] \subseteq eraseQ[o] \cup {c}
<1>1. GetChannel(mapKey[c], channel[c]) \in 0 .. MaxChan
  BY GetChannelType DEF TInv, Sessions
<1> DEFINE o == GetChannel(mapKey[c], channel[c])
<1>2. /\ eraseQ \in [Chans -> SUBSET Chars]
      /\ home \in [Chars -> 0 .. MaxChan]
  BY DEF TInv, TypeOK
<1>3. /\ home' = [home EXCEPT ![c] = 0]
      /\ eraseQ' = IF o = 0 THEN eraseQ ELSE [eraseQ EXCEPT ![o] = @ \cup {c}]
  BY DEF LeaveChannel
<1>4. home' \in [Chars -> 0 .. MaxChan]
  BY <1>2, <1>3, MembershipAssumption
<1> HIDE DEF o
<1>5. CASE o = 0
  BY <1>2, <1>3, <1>4, <1>5
<1>6. CASE o # 0
  BY <1>2, <1>3, <1>4, <1>6
<1> QED
  BY <1>5, <1>6

(* Every action keeps the types.                                           *)
LEMMA TypeStep == TInv /\ GameAt /\ [Next]_vars => TInv'
<1> SUFFICES ASSUME TInv, GameAt, [Next]_vars PROVE TInv'
  OBVIOUS
<1> USE MembershipAssumption
<1>0. TypeOK /\ Sessions
  BY DEF TInv
<1>1. ASSUME NEW c \in Chars, NEW m \in Maps, EnterMap(c, m) PROVE TInv'
  <2>1. eraseQ' \in [Chans -> SUBSET Chars] /\ home' \in [Chars -> 0 .. MaxChan]
    BY <1>1, LeaveChannelType DEF EnterMap, CanAsk
  <2>a. /\ channel' \in [Chars -> 0 .. MaxChan]
        /\ mapKey' \in [Chars -> 0 .. MapCount]
    BY <1>0, <1>1 DEF EnterMap, TypeOK, Maps
  <2>b. io' \in [Chars -> [at : Handlers, num : 0 .. MaxChan]]
    BY <1>0, <1>1 DEF EnterMap, TypeOK, Handlers
  <2>c. /\ moves' \in [Chars -> 0 .. MaxMoves]
        /\ awaiting' \in [Chars -> BOOLEAN]
    BY <1>0, <1>1 DEF EnterMap, CanAsk, TypeOK
  <2>d. UNCHANGED <<conn, cm, chanVars, idle, insertQ, funcQ, members, known,
                    game, batch, crash>>
    BY <1>1 DEF EnterMap
  <2>2. TypeOK'
    BY <1>0, <2>1, <2>a, <2>b, <2>c, <2>d DEF TypeOK, chanVars, Handlers
  <2>3. Sessions'
    BY <1>0, <1>1 DEF EnterMap, TypeOK, Sessions, CanAsk
  <2> QED BY <2>2, <2>3 DEF TInv
<1>2. ASSUME NEW c \in Chars, NEW n \in 0 .. MaxChan, EnterChannel(c, n)
      PROVE  TInv'
  <2>1. eraseQ' \in [Chans -> SUBSET Chars] /\ home' \in [Chars -> 0 .. MaxChan]
    BY <1>2, LeaveChannelType DEF EnterChannel, CanAsk
  <2>a. io' \in [Chars -> [at : Handlers, num : 0 .. MaxChan]]
    BY <1>0, <1>2 DEF EnterChannel, TypeOK, Handlers
  <2>b. /\ moves' \in [Chars -> 0 .. MaxMoves]
        /\ awaiting' \in [Chars -> BOOLEAN]
    BY <1>0, <1>2 DEF EnterChannel, CanAsk, TypeOK
  <2>c. UNCHANGED <<conn, mapKey, channel, cm, chanVars, idle, insertQ, funcQ,
                    members, known, game, batch, crash>>
    BY <1>2 DEF EnterChannel
  <2>2. TypeOK'
    BY <1>0, <2>1, <2>a, <2>b, <2>c DEF TypeOK, chanVars, Handlers
  <2>3. Sessions'
    BY <1>0, <1>2 DEF EnterChannel, TypeOK, Sessions, CanAsk
  <2> QED BY <2>2, <2>3 DEF TInv
<1>3. ASSUME NEW c \in Chars, Choose(c) PROVE TInv'
  <2>a. io \in [Chars -> [at : Handlers, num : 0 .. MaxChan]]
    BY <1>0 DEF TypeOK, Handlers
  <2>b. \/ io' = io /\ crash' = "no_manager"
        \/ \E n \in Numbers, at \in Handlers :
              io' = [io EXCEPT ![c] = [at |-> at, num |-> n]] /\ crash' = "no"
    BY <1>3 DEF Choose, Handlers
  <2>1. /\ io' \in [Chars -> [at : Handlers, num : 0 .. MaxChan]]
        /\ crash' \in {"no", "no_manager"}
        /\ \A d \in Chars \ {c} : io'[d] = io[d]
    BY <2>a, <2>b DEF Numbers
  <2>c. UNCHANGED <<conn, mapKey, channel, cm, awaiting, moves, home, chanVars,
                    idle, mailVars, members, known, game, batch>>
    BY <1>3 DEF Choose
  <2>d. /\ io' \in [Chars -> [at : Handlers, num : 0 .. MaxChan]]
        /\ crash' \in {"no", "no_manager"}
    BY <2>1
  <2>2. TypeOK'
    <3>1. crash' \in {"no", "no_manager", "no_channel", "no_session",
                    "no_manager_to_escape", "expired_member"}
      BY <2>d
    <3> QED
      BY <1>0, <2>c, <2>d, <3>1 DEF TypeOK, chanVars, mailVars, Handlers
  <2>3. Sessions'
    <3>1. io[c] # Idle /\ UNCHANGED <<conn, mapKey>>
      BY <1>3 DEF Choose, Idle
    <3> QED
      BY <1>0, <2>1, <3>1 DEF Sessions
  <2> QED BY <2>2, <2>3 DEF TInv
<1>4. ASSUME NEW c \in Chars, Open(c) PROVE TInv'
  <2>1. made' \in 0 .. MaxChan /\ made + 1 \in Chans
    BY <1>0, <1>4 DEF Open, TypeOK, Chans
  <2>2. io' \in [Chars -> [at : Handlers, num : 0 .. MaxChan]]
    BY <1>0, <1>4 DEF Open, TypeOK, Handlers
  <2>3. place' \in [Chans -> [map : 0 .. MapCount, num : 0 .. MaxChan]]
    BY <1>0, <1>4 DEF Open, TypeOK
  <2>4. channels' \in [Maps -> [Numbers -> 0 .. MaxChan]]
    BY <1>0, <1>4, <2>1 DEF Open, TypeOK, Chans
  <2>5. life' \in [Chans -> {"None", "Create", "Alive", "Destroy", "Removed"}]
    BY <1>0, <1>4 DEF Open, TypeOK
  <2>a. UNCHANGED <<conn, mapKey, channel, cm, awaiting, moves, home, idle,
                    mailVars, members, known, game, batch, crash>>
    BY <1>4 DEF Open
  <2>6. TypeOK'
    BY <1>0, <2>1, <2>2, <2>3, <2>4, <2>5, <2>a DEF TypeOK, mailVars, Handlers
  <2>7. Sessions'
    BY <1>0, <1>4 DEF Open, TypeOK, Sessions, Idle
  <2> QED BY <2>6, <2>7 DEF TInv
<1>5. ASSUME NEW c \in Chars, Admit(c) PROVE TInv'
  <2> DEFINE o == GetChannel(mapKey[c], io[c].num)
  <2>1. o \in 0 .. MaxChan
    <3>1. mapKey[c] \in Maps
      BY <1>0, <1>5 DEF Admit, Sessions, Idle
    <3> QED
      BY <1>0, <3>1, GetChannelType
  <2>2. /\ insertQ' \in [Chans -> SUBSET Chars]
        /\ home' \in [Chars -> 0 .. MaxChan]
        /\ crash' \in {"no", "no_channel"}
    <3>1. CASE o = 0
      BY <1>0, <1>5, <3>1 DEF Admit, TypeOK
    <3>2. CASE o # 0
      <4> HIDE DEF o
      <4>1. /\ insertQ' = [insertQ EXCEPT ![o] = @ \cup {c}]
            /\ home' = [home EXCEPT ![c] = o]
            /\ crash' = "no"
        BY <1>5, <3>2 DEF Admit, o
      <4> QED
        BY <1>0, <2>1, <4>1 DEF TypeOK
    <3> QED BY <3>1, <3>2
  <2>3. /\ channel' \in [Chars -> 0 .. MaxChan]
        /\ io' \in [Chars -> [at : Handlers, num : 0 .. MaxChan]]
    BY <1>0, <1>5 DEF Admit, TypeOK, Idle, Handlers
  <2>4. TypeOK'
    BY <1>0, <1>5, <2>2, <2>3 DEF Admit, TypeOK, chanVars, Handlers
  <2>5. Sessions'
    BY <1>0, <1>5 DEF Admit, TypeOK, Sessions, Idle
  <2> QED BY <2>4, <2>5 DEF TInv
<1>6. ASSUME NEW c \in Chars, Escape(c) PROVE TInv'
  BY <1>0, <1>6 DEF Escape, TypeOK, TInv, Sessions, charVars, chanVars
<1>7. ASSUME NEW c \in Chars, CloseSession(c) PROVE TInv'
  <2>1. TypeOK'
    BY <1>0, <1>7 DEF CloseSession, TypeOK, chanVars, mailVars
  <2>2. Sessions'
    BY <1>0, <1>7 DEF CloseSession, TypeOK, Sessions
  <2> QED BY <2>1, <2>2 DEF TInv
<1>8. ASSUME NEW c \in Chars, DropUser(c) PROVE TInv'
  <2>1. eraseQ' \in [Chans -> SUBSET Chars] /\ home' \in [Chars -> 0 .. MaxChan]
    BY <1>8, LeaveChannelType DEF DropUser
  <2>2. TypeOK'
    <3>1. /\ channel' = [channel EXCEPT ![c] = 0]
          /\ mapKey' = [mapKey EXCEPT ![c] = 0]
          /\ conn' = [conn EXCEPT ![c] = "gone"]
          /\ UNCHANGED <<cm, io, awaiting, moves, chanVars, idle, insertQ,
                         funcQ, members, known, game, batch, crash>>
      BY <1>8 DEF DropUser
    <3>2. /\ channel' \in [Chars -> 0 .. MaxChan]
          /\ mapKey' \in [Chars -> 0 .. MapCount]
          /\ conn' \in [Chars -> {"live", "closed", "gone"}]
      BY <1>0, <3>1 DEF TypeOK
    <3> QED
      BY <1>0, <2>1, <3>1, <3>2 DEF TypeOK, chanVars
  <2>3. Sessions'
    BY <1>0, <1>8 DEF DropUser, TypeOK, Sessions
  <2> QED BY <2>2, <2>3 DEF TInv
<1>9. ASSUME ScanMap PROVE TInv'
  <2>1. game' \in GameType
    BY <1>0, <1>9, WalkOnType DEF ScanMap
  <2>2. idle' \in [Chans -> 0 .. (IdleLimit - 1)]
    BY <1>0, <1>9 DEF ScanMap, TypeOK, Expires
  <2>3. life' \in [Chans -> {"None", "Create", "Alive", "Destroy", "Removed"}]
    BY <1>0, <1>9 DEF ScanMap, TypeOK
  <2>4. channels' \in [Maps -> [Numbers -> 0 .. MaxChan]]
    BY <1>0, <1>9 DEF ScanMap, TypeOK
  <2>5. TypeOK'
    BY <1>0, <1>9, <2>1, <2>2, <2>3, <2>4
    DEF ScanMap, TypeOK, GameType, charVars, mailVars
  <2>6. Sessions'
    BY <1>0, <1>9 DEF ScanMap, Sessions, charVars
  <2> QED BY <2>5, <2>6 DEF TInv
<1>10. ASSUME NextMap PROVE TInv'
  BY <1>0, <1>10
  DEF NextMap, TypeOK, TInv, Sessions, Maps, charVars, chanVars, mailVars
<1>11. ASSUME NEW o \in Chans, BeginPlay(o) PROVE TInv'
  <2>1. game' \in GameType
    BY <1>0, <1>11, WalkOnType DEF BeginPlay
  <2> QED
    BY <1>0, <1>11, <2>1
    DEF BeginPlay, TypeOK, TInv, Sessions, GameType, charVars, mailVars
<1>12. ASSUME NEW o \in Chans, Remove(o) PROVE TInv'
  <2>1. game' \in GameType
    BY <1>0, <1>12, WalkOnType DEF Remove
  <2> QED
    BY <1>0, <1>12, <2>1
    DEF Remove, TypeOK, TInv, Sessions, GameType, charVars, mailVars
<1>13. ASSUME NEW o \in Chans, Drain(o) PROVE TInv'
  <2>1. game' \in GameType
    BY <1>0, <1>13, WalkOnType DEF Drain, Chans
  <2> QED
    BY <1>0, <1>13, <2>1
    DEF Drain, TypeOK, TInv, Sessions, GameType, charVars, chanVars
<1>14. ASSUME NEW c \in Chars, RunErase(c) PROVE TInv'
  <2> DEFINE o == game.cur
  <2>1. o \in Chans
    BY <1>0, <1>14 DEF RunErase, ResetPointer, TypeOK, GameAt, Chans
  <2>2. /\ members \in [Chans -> SUBSET Chars]
        /\ cm \in [Chars -> 0 .. MaxChan]
        /\ known \in [Chars -> SUBSET Chars]
    BY <1>0 DEF TypeOK
  <2>3. /\ members' \in [Chans -> SUBSET Chars]
        /\ cm' \in [Chars -> 0 .. MaxChan]
        /\ known' \in [Chars -> SUBSET Chars]
    <3>1. CASE c \in members[o]
      <4>1. /\ members' = [members EXCEPT ![o] = @ \ {c}]
            /\ cm' = [cm EXCEPT ![c] = 0]
            /\ known' = [d \in Chars |->
                            IF d \in members[o] \ {c} THEN known[d] \ {c}
                            ELSE known[d]]
        BY <1>14, <3>1 DEF RunErase, ResetPointer
      <4> HIDE DEF o
      <4> QED BY <2>1, <2>2, <4>1
    <3>2. CASE c \notin members[o]
      BY <1>14, <2>2, <3>2 DEF RunErase, ResetPointer
    <3> QED BY <3>1, <3>2
  <2>4. /\ batch' = [batch EXCEPT !.erase = @ \ {c}]
        /\ UNCHANGED <<charVars, awaiting, home, chanVars, idle, mailVars,
                       game, crash>>
    BY <1>14 DEF RunErase, ResetPointer
  <2>5. batch' \in [erase : SUBSET Chars, insert : SUBSET Chars,
                    func : SUBSET Chars]
    BY <1>0, <2>4 DEF TypeOK
  <2>6. TypeOK'
    BY <1>0, <2>3, <2>4, <2>5 DEF TypeOK, charVars, chanVars, mailVars
  <2>7. Sessions'
    BY <1>0, <2>4 DEF Sessions, charVars
  <2> QED BY <2>6, <2>7 DEF TInv
<1>15. ASSUME NEW c \in Chars, RunInsert(c) PROVE TInv'
  <2> DEFINE o == game.cur
             there == Roster(o, c)
  <2>1. o \in Chans
    BY <1>0, <1>15 DEF RunInsert, InsertTurn, TypeOK, GameAt, Chans
  <2>2. /\ members \in [Chans -> SUBSET Chars]
        /\ cm \in [Chars -> 0 .. MaxChan]
        /\ known \in [Chars -> SUBSET Chars]
        /\ awaiting \in [Chars -> BOOLEAN]
    BY <1>0 DEF TypeOK
  <2>3. there \subseteq Chars
    BY <2>1, <2>2 DEF Roster
  <2>4. /\ \/ UNCHANGED <<members, cm>>
           \/ /\ members' = [members EXCEPT ![o] = @ \cup {c}]
              /\ cm' = [cm EXCEPT ![c] = o]
        /\ \/ UNCHANGED <<known, awaiting>>
           \/ /\ known' = [d \in Chars |->
                              IF d = c THEN there
                              ELSE IF d \in there THEN known[d] \cup {c}
                              ELSE known[d]]
              /\ awaiting' = [awaiting EXCEPT ![c] = FALSE]
        /\ crash' \in {"no", "no_session"}
    BY <1>15 DEF RunInsert, InsertTurn
  <2> HIDE DEF o, there
  <2>5. /\ members' \in [Chans -> SUBSET Chars]
        /\ cm' \in [Chars -> 0 .. MaxChan]
    BY <2>1, <2>2, <2>4 DEF Chans
  <2>6. /\ known' \in [Chars -> SUBSET Chars]
        /\ awaiting' \in [Chars -> BOOLEAN]
    <3>1. CASE UNCHANGED <<known, awaiting>>
      BY <2>2, <3>1
    <3>2. CASE ~UNCHANGED <<known, awaiting>>
      <4>1. /\ known' = [d \in Chars |->
                            IF d = c THEN there
                            ELSE IF d \in there THEN known[d] \cup {c}
                            ELSE known[d]]
            /\ awaiting' = [awaiting EXCEPT ![c] = FALSE]
        BY <2>4, <3>2
      <4>2. \A d \in Chars :
              (IF d = c THEN there
               ELSE IF d \in there THEN known[d] \cup {c} ELSE known[d])
                  \in SUBSET Chars
        BY <2>2, <2>3
      <4>3. known' \in [Chars -> SUBSET Chars]
        BY <4>1, <4>2
      <4>4. awaiting' \in [Chars -> BOOLEAN]
        BY <2>2, <4>1
      <4> QED BY <4>3, <4>4
    <3> QED BY <3>1, <3>2
  <2>7. /\ batch' = [batch EXCEPT !.insert = @ \ {c}]
        /\ UNCHANGED <<charVars, home, chanVars, idle, mailVars, game>>
    BY <1>15 DEF RunInsert, InsertTurn
  <2>8. batch' \in [erase : SUBSET Chars, insert : SUBSET Chars,
                    func : SUBSET Chars]
    BY <1>0, <2>7 DEF TypeOK
  <2>c. crash' \in {"no", "no_session"}
    BY <2>4
  <2>9. TypeOK'
    BY <1>0, <2>c, <2>5, <2>6, <2>7, <2>8
    DEF TypeOK, charVars, chanVars, mailVars
  <2>10. Sessions'
    BY <1>0, <2>7 DEF Sessions, charVars
  <2> QED BY <2>9, <2>10 DEF TInv
<1>16. ASSUME NEW c \in Chars, RunEscape(c) PROVE TInv'
  BY <1>0, <1>16
  DEF RunEscape, TypeOK, TInv, Sessions, charVars, chanVars, mailVars
<1>17. ASSUME MoveAll PROVE TInv'
  <2>1. /\ game' = game \/ game' = [game EXCEPT !.at = "walk", !.cur = 0]
        /\ crash' \in {"no", "expired_member"}
        /\ UNCHANGED <<charVars, cm, awaiting, home, chanVars, idle, mailVars,
                       members, known, batch>>
    BY <1>17 DEF MoveAll
  <2>a. game \in GameType
    BY <1>0 DEF TypeOK, GameType
  <2>b. [game EXCEPT !.at = "walk", !.cur = 0] \in GameType
    BY <2>a, 0 \in 0 .. MaxChan DEF GameType
  <2>2. game' \in GameType
    BY <2>1, <2>a, <2>b
  <2>3. TypeOK'
    BY <1>0, <2>1, <2>2
    DEF TypeOK, GameType, charVars, chanVars, mailVars
  <2>4. Sessions'
    BY <1>0, <2>1 DEF Sessions, charVars
  <2> QED BY <2>3, <2>4 DEF TInv
<1>18. CASE UNCHANGED vars
  BY <1>0, <1>18 DEF TypeOK, TInv, Sessions, vars
<1> QED
  BY <1>1, <1>2, <1>3, <1>4, <1>5, <1>6, <1>7, <1>8, <1>9, <1>10, <1>11,
     <1>12, <1>13, <1>14, <1>15, <1>16, <1>17, <1>18
  DEF Next, Handler, GameStep, Crashed

-----------------------------------------------------------------------------
(* The game thread and the life of the channels.                           *)

(* Channel objects are created in order; a mailbox is worked through for a *)
(* channel in state Alive, and only such a channel has members.            *)
ChannelLife ==
    /\ GameAt
    /\ \A o \in Chans : o > made => life[o] = "None"
    /\ \A m \in Maps, n \in Numbers : channels[m][n] <= made
    /\ game.at = "run" => life[game.cur] = "Alive"
    /\ \A o \in Chans : life[o] # "Alive" => members[o] = {}

(* What the handlers leave alone of the game thread's state.               *)
LEMMA HandlerFrame ==
    ASSUME NEW c \in Chars, Handler(c)
    PROVE  UNCHANGED <<game, batch, members, cm, idle>>
  BY DEF Handler, EnterMap, EnterChannel, Choose, Open, Admit, Escape,
         CloseSession, DropUser

(* ... and of the channels' states, all but Open.                          *)
LEMMA HandlerLife ==
    ASSUME NEW c \in Chars, Handler(c)
    PROVE  Open(c) \/ UNCHANGED <<made, life, channels>>
  BY DEF Handler, EnterMap, EnterChannel, Choose, Admit, Escape,
         CloseSession, DropUser, chanVars

(* Open takes an object that was not in use.                               *)
LEMMA OpenFresh ==
    ASSUME TypeOK, ChannelLife, NEW c \in Chars, Open(c)
    PROVE  /\ made + 1 \in Chans
           /\ life[made + 1] = "None"
           /\ made' = made + 1
           /\ life' = [life EXCEPT ![made + 1] = "Create"]
<1>1. made \in 0 .. MaxChan /\ made < MaxChan
  BY DEF TypeOK, Open
<1>2. made + 1 \in Chans /\ made + 1 > made
  BY <1>1, MembershipAssumption DEF Chans
<1> QED
  BY <1>2 DEF Open, ChannelLife

(* The scan takes a channel to Destroy only, and never one with members.   *)
LEMMA ScanLife ==
    ASSUME TypeOK, ChannelLife, ScanMap
    PROVE  \A o \in Chans : \/ life'[o] = life[o]
                            \/ /\ life'[o] = "Destroy"
                               /\ members[o] = {}
                               /\ o <= made
<1> TAKE o \in Chans
<1>1. \/ life'[o] = life[o]
      \/ /\ life'[o] = "Destroy"
         /\ Deserted(o)
         /\ \E n \in Numbers : channels[game.map][n] = o
  BY DEF ScanMap, Expires
<1>2. game.map \in Maps
  BY DEF TypeOK
<1>3. Deserted(o) => members[o] = {}
  BY DEF Deserted, HasCM, ChannelLife
<1> QED
  BY <1>1, <1>2, <1>3 DEF ChannelLife

LEMMA ChannelLifeStep ==
    TInv /\ ChannelLife /\ [Next]_vars => ChannelLife'
<1> SUFFICES ASSUME TypeOK, ChannelLife, [Next]_vars PROVE ChannelLife'
  BY DEF TInv
<1> USE MembershipAssumption
<1>1. ASSUME NEW c \in Chars, Handler(c) PROVE ChannelLife'
  <2>1. UNCHANGED <<game, members>>
    BY <1>1, HandlerFrame
  <2>2. CASE UNCHANGED <<made, life, channels>>
    BY <2>1, <2>2 DEF ChannelLife, GameAt
  <2>3. CASE Open(c)
    <3>1. /\ made + 1 \in Chans
          /\ life[made + 1] = "None"
          /\ made' = made + 1
          /\ life' = [life EXCEPT ![made + 1] = "Create"]
      BY <2>3, OpenFresh
    <3>2. /\ life \in [Chans -> {"None", "Create", "Alive", "Destroy",
                                 "Removed"}]
          /\ made \in 0 .. MaxChan
          /\ channels \in [Maps -> [Numbers -> 0 .. MaxChan]]
      BY DEF TypeOK
    <3>3. GameAt'
      BY <2>1 DEF ChannelLife, GameAt
    <3>4. \A o \in Chans : o > made' => life'[o] = "None"
      BY <3>1, <3>2 DEF ChannelLife, Chans
    <3>5. \A m \in Maps, n \in Numbers : channels'[m][n] <= made'
      <4>1. channels' = [channels EXCEPT ![mapKey[c]][io[c].num] = made + 1]
        BY <2>3 DEF Open
      <4> QED
        BY <3>1, <3>2, <4>1 DEF ChannelLife
    <3>6. (game.at = "run" => life[game.cur] = "Alive")'
      BY <2>1, <3>1, <3>2 DEF ChannelLife
    <3>7. \A o \in Chans : life'[o] # "Alive" => members'[o] = {}
      BY <2>1, <3>1, <3>2 DEF ChannelLife
    <3> QED
      BY <3>3, <3>4, <3>5, <3>6, <3>7 DEF ChannelLife
  <2> QED
    BY <1>1, <2>2, <2>3, HandlerLife
<1>2. ASSUME ScanMap PROVE ChannelLife'
  <2>1. /\ game'.at = "walk"
        /\ game'.cur = 0
    BY <1>2, WalkOnType, 0 \in 0 .. MaxChan DEF ScanMap
  <2>2. UNCHANGED <<made, members>>
    BY <1>2 DEF ScanMap
  <2>3. \A o \in Chans :
           \/ life'[o] = life[o]
           \/ life'[o] = "Destroy" /\ members[o] = {} /\ o <= made
    BY <1>2, ScanLife
  <2>4. \A m \in Maps, n \in Numbers : channels'[m][n] \in {0, channels[m][n]}
    <3>1. channels' = [channels EXCEPT ![game.map] = [n \in Numbers |->
             IF channels[game.map][n] # 0 /\ Expires(channels[game.map][n])
             THEN 0 ELSE channels[game.map][n]]]
      BY <1>2 DEF ScanMap
    <3>2. /\ channels \in [Maps -> [Numbers -> 0 .. MaxChan]]
          /\ game.map \in Maps
      BY DEF TypeOK
    <3> QED
      BY <3>1, <3>2
  <2>5. made \in 0 .. MaxChan
    BY DEF TypeOK
  <2>6. GameAt'
    BY <2>1 DEF GameAt
  <2>7. \A o \in Chans : o > made' => life'[o] = "None"
    BY <2>2, <2>3, <2>5 DEF ChannelLife, Chans
  <2>8. \A m \in Maps, n \in Numbers : channels'[m][n] <= made'
    BY <2>2, <2>4, <2>5 DEF ChannelLife
  <2>9. \A o \in Chans : life'[o] # "Alive" => members'[o] = {}
    BY <2>2, <2>3 DEF ChannelLife
  <2> QED
    BY <2>1, <2>6, <2>7, <2>8, <2>9 DEF ChannelLife
<1>3. CASE NextMap
  BY <1>3 DEF NextMap, ChannelLife, GameAt, chanVars
<1>4. ASSUME NEW o \in Chans, BeginPlay(o) PROVE ChannelLife'
  <2>1. game'.at = "walk" /\ game'.cur = 0
    BY <1>4, WalkOnType, 0 \in 0 .. MaxChan DEF BeginPlay
  <2>2. /\ life' = [life EXCEPT ![o] = "Alive"]
        /\ life[o] = "Create"
        /\ UNCHANGED <<channels, made, members>>
    BY <1>4 DEF BeginPlay, Visit
  <2> QED
    BY <2>1, <2>2 DEF ChannelLife, GameAt, TypeOK
<1>5. ASSUME NEW o \in Chans, Remove(o) PROVE ChannelLife'
  <2>1. game'.at = "walk" /\ game'.cur = 0
    BY <1>5, WalkOnType, 0 \in 0 .. MaxChan DEF Remove
  <2>2. /\ life' = [life EXCEPT ![o] = "Removed"]
        /\ life[o] = "Destroy"
        /\ UNCHANGED <<channels, made, members>>
    BY <1>5 DEF Remove, Visit
  <2> QED
    BY <2>1, <2>2 DEF ChannelLife, GameAt, TypeOK
<1>6. ASSUME NEW o \in Chans, Drain(o) PROVE ChannelLife'
  <2>1. game'.at = "run" /\ game'.cur = o
    BY <1>6, WalkOnType DEF Drain, Chans
  <2>2. life[o] = "Alive" /\ UNCHANGED <<channels, made, life, members>>
    BY <1>6 DEF Drain, Visit, chanVars
  <2> QED
    BY <2>1, <2>2 DEF ChannelLife, GameAt, Chans
<1>7. ASSUME NEW c \in Chars, RunErase(c) \/ RunInsert(c) \/ RunEscape(c)
      PROVE  ChannelLife'
  <2>1. /\ UNCHANGED <<game, channels, made, life>>
        /\ \A o \in Chans : o # game.cur => members'[o] = members[o]
        /\ game.at = "run"
    BY <1>7 DEF RunErase, ResetPointer, RunInsert, RunEscape, chanVars, TypeOK
  <2> QED
    BY <2>1 DEF ChannelLife, GameAt
<1>8. CASE MoveAll
  <2>1. /\ UNCHANGED <<channels, made, life, members>>
        /\ game' = game \/ (game'.at = "walk" /\ game'.cur = 0)
    BY <1>8 DEF MoveAll, chanVars, TypeOK
  <2> QED
    BY <2>1 DEF ChannelLife, GameAt
<1>9. CASE UNCHANGED vars
  BY <1>9 DEF ChannelLife, GameAt, vars
<1> QED
  BY <1>1, <1>2, <1>3, <1>4, <1>5, <1>6, <1>7, <1>8, <1>9
  DEF Next, GameStep, Crashed

-----------------------------------------------------------------------------
(* The admissions under way.                                               *)

(* An erase request for a character that is at home in the channel is older *)
(* than an insert request for it, which runs after it.                     *)
EraseBeforeInsert ==
    \A c \in Chars, o \in Chans : home[c] = o =>
        /\ c \in eraseQ[o] => c \in insertQ[o]
        /\ game.cur = o /\ c \in batch.erase
              => c \in insertQ[o] \/ c \in batch.insert

IInv ==
    /\ TInv
    /\ ChannelLife
    /\ PointerImpliesMember
    /\ EraseBeforeInsert
    /\ NoLostAdmission

LEMMA PointerStep ==
    TInv /\ ChannelLife /\ PointerImpliesMember /\ [Next]_vars
        => PointerImpliesMember'
<1> SUFFICES ASSUME TypeOK, ChannelLife, PointerImpliesMember, [Next]_vars
             PROVE  PointerImpliesMember'
  BY DEF TInv
<1>0. /\ members \in [Chans -> SUBSET Chars]
      /\ cm \in [Chars -> 0 .. MaxChan]
  BY DEF TypeOK
<1>1. ASSUME NEW c \in Chars, RunErase(c) PROVE PointerImpliesMember'
  <2>1. \/ UNCHANGED <<members, cm>>
        \/ /\ members' = [members EXCEPT ![game.cur] = @ \ {c}]
           /\ cm' = [cm EXCEPT ![c] = 0]
    BY <1>1 DEF RunErase, ResetPointer
  <2>2. \A d \in Chars, o \in Chans :
           cm'[d] = o => cm[d] = o /\ (d \in members[o] => d \in members'[o])
    <3> TAKE d \in Chars, o \in Chans
    <3>1. o # 0
      BY MembershipAssumption DEF Chans
    <3>2. CASE UNCHANGED <<members, cm>>
      BY <3>2
    <3>3. CASE d = c
      BY <1>0, <2>1, <3>1, <3>3
    <3>4. CASE d # c
      BY <1>0, <2>1, <3>4
    <3> QED
      BY <3>3, <3>4
  <2> QED
    BY <2>2 DEF PointerImpliesMember
<1>2. ASSUME NEW c \in Chars, RunInsert(c) PROVE PointerImpliesMember'
  <2>1. \/ UNCHANGED <<members, cm>>
        \/ /\ members' = [members EXCEPT ![game.cur] = @ \cup {c}]
           /\ cm' = [cm EXCEPT ![c] = game.cur]
    BY <1>2 DEF RunInsert, InsertTurn
  <2> QED
    BY <1>0, <2>1 DEF PointerImpliesMember
<1>3. ASSUME NEW c \in Chars, Handler(c) PROVE PointerImpliesMember'
  BY <1>3, HandlerFrame DEF PointerImpliesMember
<1>4. CASE UNCHANGED <<members, cm>>
  BY <1>4 DEF PointerImpliesMember
<1>5. ScanMap => UNCHANGED <<members, cm>>
  BY DEF ScanMap
<1>6. NextMap => UNCHANGED <<members, cm>>
  BY DEF NextMap
<1>7. \A o \in Chans : BeginPlay(o) \/ Remove(o) \/ Drain(o)
                         => UNCHANGED <<members, cm>>
  BY DEF BeginPlay, Remove, Drain
<1>8. \A c \in Chars : RunEscape(c) => UNCHANGED <<members, cm>>
  BY DEF RunEscape
<1>9. MoveAll => UNCHANGED <<members, cm>>
  BY DEF MoveAll
<1>10. UNCHANGED vars => UNCHANGED <<members, cm>>
  BY DEF vars
<1> QED
  BY <1>1, <1>2, <1>3, <1>4, <1>5, <1>6, <1>7, <1>8, <1>9, <1>10
  DEF Next, GameStep, Crashed

(* A handler's step keeps both facts about admissions: leaving forgets home *)
(* as it queues the erase, admitting queues the insert as it sets home.    *)
LEMMA LeaveKeepsAdmissions ==
    ASSUME TInv, EraseBeforeInsert, NoLostAdmission, NEW c \in Chars,
           conn[c] # "gone", LeaveChannel(c),
           UNCHANGED <<insertQ, game, batch, members, life>>
    PROVE  EraseBeforeInsert' /\ NoLostAdmission'
<1>1. /\ home' = [home EXCEPT ![c] = 0]
      /\ \A o \in Chans : eraseQ'[o] \subseteq eraseQ[o] \cup {c}
  BY LeaveChannelType
<1>2. home \in [Chars -> 0 .. MaxChan]
  BY DEF TInv, TypeOK
<1>3. \A d \in Chars, o \in Chans : home'[d] = o => d # c /\ home[d] = o
  BY <1>1, <1>2, MembershipAssumption DEF Chans
<1>4. EraseBeforeInsert'
  BY <1>1, <1>3 DEF EraseBeforeInsert
<1>5. NoLostAdmission'
  BY <1>3 DEF NoLostAdmission, Inserting
<1> QED
  BY <1>4, <1>5

LEMMA AdmitKeepsAdmissions ==
    ASSUME TInv, EraseBeforeInsert, NoLostAdmission, NEW c \in Chars,
           Admit(c)
    PROVE  EraseBeforeInsert' /\ NoLostAdmission'
<1> DEFINE o == GetChannel(mapKey[c], io[c].num)
<1>1. UNCHANGED <<eraseQ, game, batch, members, life>>
  BY DEF Admit, chanVars
<1>2. /\ home \in [Chars -> 0 .. MaxChan]
      /\ insertQ \in [Chans -> SUBSET Chars]
  BY DEF TInv, TypeOK
<1>3. CASE o = 0
  <2>1. UNCHANGED <<insertQ, home>>
    BY <1>3 DEF Admit
  <2> QED
    BY <1>1, <2>1 DEF EraseBeforeInsert, NoLostAdmission, Inserting
<1>4. CASE o # 0
  <2>1. /\ insertQ' = [insertQ EXCEPT ![o] = @ \cup {c}]
        /\ home' = [home EXCEPT ![c] = o]
    BY <1>4 DEF Admit
  <2> HIDE DEF o
  <2>2. \A d \in Chars, p \in Chans :
           home'[d] = p => \/ d # c /\ home[d] = p
                           \/ d \in insertQ'[p]
    BY <1>2, <2>1
  <2>3. \A p \in Chans : insertQ[p] \subseteq insertQ'[p]
    BY <1>2, <2>1
  <2>4. EraseBeforeInsert'
    BY <1>1, <2>2, <2>3 DEF EraseBeforeInsert
  <2>5. NoLostAdmission'
    BY <1>1, <2>2, <2>3 DEF NoLostAdmission, Inserting
  <2> QED BY <2>4, <2>5
<1> QED
  BY <1>3, <1>4

(* A channel object that is not yet made is nobody's home once it is, and  *)
(* other life changes only end the obligation.                             *)
LEMMA AdmissionStep ==
    TInv /\ ChannelLife /\ EraseBeforeInsert /\ NoLostAdmission /\ [Next]_vars
        => EraseBeforeInsert' /\ NoLostAdmission'
<1> SUFFICES ASSUME TInv, ChannelLife, EraseBeforeInsert, NoLostAdmission,
                    [Next]_vars
             PROVE  EraseBeforeInsert' /\ NoLostAdmission'
  OBVIOUS
<1> USE MembershipAssumption
<1>0. /\ TypeOK
      /\ life \in [Chans -> {"None", "Create", "Alive", "Destroy", "Removed"}]
      /\ game \in GameType
      /\ insertQ \in [Chans -> SUBSET Chars]
      /\ eraseQ \in [Chans -> SUBSET Chars]
      /\ members \in [Chans -> SUBSET Chars]
      /\ batch \in [erase : SUBSET Chars, insert : SUBSET Chars,
                    func : SUBSET Chars]
  BY DEF TInv, TypeOK, GameType
<1> DEFINE Quiet == UNCHANGED <<home, eraseQ, insertQ, members>>
           Dead(o) == life[o] \in {"Destroy", "Removed"}
           StaysDead == \A o \in Chans : Dead(o) => Dead(o)'
(* Steps that touch neither mailboxes nor members, between two mailboxes.  *)
<1>a. ASSUME Quiet, StaysDead, game'.cur = 0 \/ UNCHANGED <<game, batch>>,
             game.cur = 0 \/ UNCHANGED <<game, batch>>
      PROVE  EraseBeforeInsert' /\ NoLostAdmission'
  <2>1. \A o \in Chans : o # 0
    BY DEF Chans
  <2>2. EraseBeforeInsert'
    BY <1>a, <2>1 DEF EraseBeforeInsert
  <2>3. NoLostAdmission'
    BY <1>a, <2>1 DEF NoLostAdmission, Inserting
  <2> QED BY <2>2, <2>3
<1>1. ASSUME NEW c \in Chars, Handler(c)
      PROVE  EraseBeforeInsert' /\ NoLostAdmission'
  <2>1. ASSUME NEW m \in Maps, EnterMap(c, m)
        PROVE  EraseBeforeInsert' /\ NoLostAdmission'
    BY <2>1, LeaveKeepsAdmissions DEF EnterMap, CanAsk, chanVars
  <2>2. ASSUME NEW n \in 0 .. MaxChan, EnterChannel(c, n)
        PROVE  EraseBeforeInsert' /\ NoLostAdmission'
    BY <2>2, LeaveKeepsAdmissions DEF EnterChannel, CanAsk, chanVars
  <2>3. CASE Choose(c) \/ Escape(c) \/ CloseSession(c)
    <3>1. Quiet /\ UNCHANGED <<life, game, batch>>
      BY <2>3 DEF Choose, Escape, CloseSession, mailVars, chanVars
    <3> QED
      BY <1>a, <3>1
  <2>4. CASE Open(c)
    <3>1. Quiet /\ UNCHANGED <<game, batch>>
      BY <2>4 DEF Open, mailVars
    <3>2. StaysDead
      BY <1>0, <2>4, OpenFresh
    <3> QED
      BY <1>a, <3>1, <3>2
  <2>5. CASE Admit(c)
    BY <2>5, AdmitKeepsAdmissions
  <2>6. CASE DropUser(c)
    BY <2>6, LeaveKeepsAdmissions DEF DropUser, chanVars
  <2> QED
    BY <1>1, <2>1, <2>2, <2>3, <2>4, <2>5, <2>6 DEF Handler
<1>2. CASE ScanMap
  <2>1. Quiet /\ game.cur = 0
    BY <1>2 DEF ScanMap, mailVars, ChannelLife, GameAt
  <2>2. game'.cur = 0
    BY <1>0, <1>2, WalkOnType, 0 \in 0 .. MaxChan DEF ScanMap
  <2>3. StaysDead
    BY <1>0, <1>2, ScanLife
  <2> QED
    BY <1>a, <2>1, <2>2, <2>3
<1>3. CASE NextMap
  <2>1. Quiet /\ game.cur = 0 /\ game'.cur = 0 /\ UNCHANGED life
    BY <1>3 DEF NextMap, mailVars, chanVars, ChannelLife, GameAt
  <2> QED
    BY <1>a, <2>1
<1>4. ASSUME NEW o \in Chans, BeginPlay(o) \/ Remove(o)
      PROVE  EraseBeforeInsert' /\ NoLostAdmission'
  <2>1. Quiet /\ game.cur = 0
    BY <1>4 DEF BeginPlay, Remove, Visit, mailVars, ChannelLife, GameAt
  <2>2. game'.cur = 0
    BY <1>0, <1>4, WalkOnType, 0 \in 0 .. MaxChan DEF BeginPlay, Remove
  <2>3. StaysDead
    BY <1>0, <1>4 DEF BeginPlay, Remove, Visit
  <2> QED
    BY <1>a, <2>1, <2>2, <2>3
<1>5. ASSUME NEW o \in Chans, Drain(o)
      PROVE  EraseBeforeInsert' /\ NoLostAdmission'
  <2>1. /\ game.cur = 0
        /\ UNCHANGED <<home, members, life>>
        /\ batch'.erase = eraseQ[o]
        /\ batch'.insert = insertQ[o]
        /\ eraseQ' = [eraseQ EXCEPT ![o] = {}]
        /\ insertQ' = [insertQ EXCEPT ![o] = {}]
    BY <1>5 DEF Drain, Visit, chanVars, ChannelLife, GameAt
  <2>2. game'.cur = o
    <3>1. WalkOn(o, "run", o) /\ TypeOK
      BY <1>0, <1>5 DEF Drain
    <3>2. o \in 0 .. MaxChan
      BY DEF Chans
    <3> QED
      BY <3>1, <3>2, WalkOnType
  <2>3. \A p \in Chans : p # 0
    BY DEF Chans
  <2>4. \A p \in Chans : p # o => eraseQ'[p] = eraseQ[p] /\ insertQ'[p] = insertQ[p]
    BY <1>0, <2>1
  <2>5. eraseQ'[o] = {}
    BY <1>0, <2>1
  <2>6. EraseBeforeInsert'
    BY <2>1, <2>2, <2>4, <2>5 DEF EraseBeforeInsert
  <2>7. NoLostAdmission'
    BY <2>1, <2>2, <2>3, <2>4 DEF NoLostAdmission, Inserting
  <2> QED BY <2>6, <2>7
<1>6. ASSUME NEW c \in Chars, RunErase(c)
      PROVE  EraseBeforeInsert' /\ NoLostAdmission'
  <2>1. /\ UNCHANGED <<home, eraseQ, insertQ, game, life>>
        /\ c \in batch.erase
        /\ batch' = [batch EXCEPT !.erase = @ \ {c}]
        /\ UNCHANGED members \/ members' = [members EXCEPT ![game.cur] = @ \ {c}]
    BY <1>6 DEF RunErase, ResetPointer, mailVars, chanVars
  <2>2. batch'.erase \subseteq batch.erase /\ batch'.insert = batch.insert
    BY <1>0, <2>1
  <2>3. EraseBeforeInsert'
    BY <2>1, <2>2 DEF EraseBeforeInsert
  <2>4. \A d \in Chars, o \in Chans :
           d \in members[o] => d \in members'[o] \/ (d = c /\ o = game.cur)
    BY <1>0, <2>1
  <2>5. NoLostAdmission'
    BY <2>1, <2>2, <2>4 DEF NoLostAdmission, Inserting, EraseBeforeInsert
  <2> QED BY <2>3, <2>5
<1>7. ASSUME NEW c \in Chars, RunInsert(c)
      PROVE  EraseBeforeInsert' /\ NoLostAdmission'
  <2>1. /\ UNCHANGED <<home, eraseQ, insertQ, game, life>>
        /\ batch.erase = {}
        /\ batch' = [batch EXCEPT !.insert = @ \ {c}]
        /\ \/ c \in members[game.cur] /\ UNCHANGED members
           \/ members' = [members EXCEPT ![game.cur] = @ \cup {c}]
    BY <1>7 DEF RunInsert, InsertTurn, mailVars, chanVars
  <2>2. batch'.erase = {} /\ batch.insert \subseteq batch'.insert \cup {c}
    BY <1>0, <2>1
  <2>3. \A o \in Chans :
           /\ members[o] \subseteq members'[o]
           /\ o = game.cur => c \in members'[o]
    BY <1>0, <2>1
  <2>4. EraseBeforeInsert'
    BY <2>1, <2>2 DEF EraseBeforeInsert
  <2>5. NoLostAdmission'
    BY <2>1, <2>2, <2>3 DEF NoLostAdmission, Inserting
  <2> QED BY <2>4, <2>5
<1>8. ASSUME NEW c \in Chars, RunEscape(c)
      PROVE  EraseBeforeInsert' /\ NoLostAdmission'
  <2>1. /\ UNCHANGED <<home, eraseQ, insertQ, members, game, life>>
        /\ batch' = [batch EXCEPT !.func = @ \ {c}]
    BY <1>8 DEF RunEscape, mailVars, chanVars
  <2>2. batch'.erase = batch.erase /\ batch'.insert = batch.insert
    BY <1>0, <2>1
  <2> QED
    BY <2>1, <2>2 DEF EraseBeforeInsert, NoLostAdmission, Inserting
<1>9. CASE MoveAll
  <2>1. Quiet /\ UNCHANGED <<life, batch>> /\ batch = NoBatch
    BY <1>9 DEF MoveAll, mailVars, chanVars
  <2>2. \A d : d \notin batch.erase /\ d \notin batch.insert
    BY <2>1 DEF NoBatch
  <2> QED
    BY <2>1, <2>2 DEF EraseBeforeInsert, NoLostAdmission, Inserting
<1>10. CASE UNCHANGED vars
  BY <1>10 DEF EraseBeforeInsert, NoLostAdmission, Inserting, vars
<1> QED
  BY <1>1, <1>2, <1>3, <1>4, <1>5, <1>6, <1>7, <1>8, <1>9, <1>10
  DEF Next, GameStep, Crashed

-----------------------------------------------------------------------------
(* The inductive invariant, and what follows from it.                      *)

LEMMA InitIInv == Init => IInv
<1> SUFFICES ASSUME Init PROVE IInv
  OBVIOUS
<1> USE MembershipAssumption
<1>1. TypeOK
  BY DEF Init, TypeOK, Idle, NoBatch, Maps
<1>2. Sessions
  BY DEF Init, Sessions, Idle, Maps
<1>3. ChannelLife
  BY DEF Init, ChannelLife, GameAt
<1>4. PointerImpliesMember /\ EraseBeforeInsert /\ NoLostAdmission
  BY DEF Init, PointerImpliesMember, EraseBeforeInsert, NoLostAdmission, Chans
<1> QED
  BY <1>1, <1>2, <1>3, <1>4 DEF IInv, TInv

LEMMA StepIInv == IInv /\ [Next]_vars => IInv'
<1> SUFFICES ASSUME IInv, [Next]_vars PROVE IInv'
  OBVIOUS
<1>1. TInv'
  BY TypeStep DEF IInv, ChannelLife
<1>2. ChannelLife'
  BY ChannelLifeStep DEF IInv
<1>3. PointerImpliesMember'
  BY PointerStep DEF IInv
<1>4. EraseBeforeInsert' /\ NoLostAdmission'
  BY AdmissionStep DEF IInv
<1> QED
  BY <1>1, <1>2, <1>3, <1>4 DEF IInv

THEOREM Invariance == Spec => []IInv
<1>1. Init => IInv
  BY InitIInv
<1>2. IInv /\ [Next]_vars => IInv'
  BY StepIInv
<1> QED
  BY <1>1, <1>2, PTL DEF Spec

(* Every variable keeps its type, whatever handlers and game thread do.    *)
THEOREM TypeCorrect == Spec => []TypeOK
<1>1. IInv => TypeOK
  BY DEF IInv, TInv
<1> QED
  BY <1>1, Invariance, PTL

(* A manager pointer is only ever set to a manager that has the character. *)
THEOREM PointersAreMembers == Spec => []PointerImpliesMember
<1>1. IInv => PointerImpliesMember
  BY DEF IInv
<1> QED
  BY <1>1, Invariance, PTL

(* No character that was admitted to a channel is lost while it lives: the *)
(* two mailboxes, the copied lists and the members account for it.         *)
THEOREM AdmissionsAreKept == Spec => []NoLostAdmission
<1>1. IInv => NoLostAdmission
  BY DEF IInv
<1> QED
  BY <1>1, Invariance, PTL

(* MapInfo::PrevTick never destroys a channel that has members.            *)
THEOREM DestroyedChannelsAreDeserted == Spec => []DestroyedIsDeserted
<1>1. IInv => DestroyedIsDeserted
  BY DEF IInv, ChannelLife, DestroyedIsDeserted
<1> QED
  BY <1>1, Invariance, PTL
-----------------------------------------------------------------------------
(* The views of the members, while there is one channel.                   *)

(* An insertion tells the members the newcomer and sends it the roster, an *)
(* erasure tells those who remain.                                         *)
LEMMA ViewsStep ==
    IInv /\ OneChannelViews /\ [Next]_vars => OneChannelViews'
<1> SUFFICES ASSUME IInv, OneChannelViews, [Next]_vars PROVE OneChannelViews'
  OBVIOUS
<1>0. /\ TypeOK
      /\ ChannelLife
      /\ members \in [Chans -> SUBSET Chars]
      /\ known \in [Chars -> SUBSET Chars]
      /\ conn \in [Chars -> {"live", "closed", "gone"}]
      /\ made \in 0 .. MaxChan
  BY DEF IInv, TInv, TypeOK
<1>c. 1 \in Chans
  BY MembershipAssumption DEF Chans
(* A step that tells nobody anything and takes no one in or out.           *)
<1>a. ASSUME UNCHANGED <<made, members, known>>,
             crash' = "no" => crash = "no",
             \A c \in Chars : /\ conn'[c] = "live" => conn[c] = "live"
                              /\ conn[c] = "gone" => conn'[c] = "gone"
      PROVE  OneChannelViews'
  BY <1>0, <1>c, <1>a DEF OneChannelViews, Present
(* The game thread works for the one channel there is.                     *)
<1>b. game.at = "run" /\ made = 1 => game.cur = 1
  <2>1. ASSUME game.at = "run", made = 1 PROVE game.cur = 1
    <3>1. game.cur \in 0 .. MaxChan /\ game.cur # 0 /\ life[game.cur] = "Alive"
      BY <1>0, <2>1 DEF TypeOK, ChannelLife, GameAt
    <3>2. game.cur \in Chans
      BY <3>1 DEF Chans
    <3>3. ~(game.cur > made)
      BY <1>0, <3>1, <3>2 DEF ChannelLife
    <3> QED
      BY <1>0, <2>1, <3>1, <3>3
  <2> QED BY <2>1
<1>1. ASSUME NEW c \in Chars, Handler(c) PROVE OneChannelViews'
  <2>1. CASE Open(c)
    <3>1. /\ made' = made + 1
          /\ UNCHANGED members
      BY <1>0, <2>1 DEF Open
    <3>2. made' = 1 => members[1] = {}
      BY <1>0, <1>c, <3>1 DEF ChannelLife
    <3> QED
      BY <3>1, <3>2 DEF OneChannelViews
  <2>2. CASE ~Open(c)
    <3>1. UNCHANGED <<made, members, known>>
      BY <1>1, <2>2 DEF Handler, EnterMap, EnterChannel, Choose, Admit,
                        Escape, CloseSession, DropUser, chanVars
    <3>2. crash = "no"
      BY <1>1, <2>2 DEF Handler, EnterMap, EnterChannel, Choose, Admit,
                        Escape, CloseSession, DropUser, CanAsk
    <3>3. \/ UNCHANGED conn
          \/ conn[c] = "live" /\ conn' = [conn EXCEPT ![c] = "closed"]
          \/ conn[c] = "closed" /\ conn' = [conn EXCEPT ![c] = "gone"]
      BY <1>1, <2>2 DEF Handler, EnterMap, EnterChannel, Choose, Admit,
                        Escape, CloseSession, DropUser, charVars
    <3> QED
      BY <1>0, <1>a, <3>1, <3>2, <3>3
  <2> QED BY <2>1, <2>2
<1>2. ASSUME NEW c \in Chars, RunErase(c) PROVE OneChannelViews'
  <2>1. /\ UNCHANGED <<conn, made, crash>>
        /\ game.at = "run"
    BY <1>2 DEF RunErase, charVars, chanVars
  <2>2. CASE c \in members[game.cur]
    <3>1. ASSUME made = 1
          PROVE  /\ members' = [members EXCEPT ![1] = @ \ {c}]
                 /\ known' = [d \in Chars |->
                                IF d \in members[1] \ {c} THEN known[d] \ {c}
                                ELSE known[d]]
      BY <1>2, <1>b, <2>1, <2>2, <3>1 DEF RunErase
    <3> QED
      BY <1>0, <1>c, <2>1, <3>1 DEF OneChannelViews, Present
  <2>3. CASE c \notin members[game.cur]
    <3>1. UNCHANGED <<members, known>>
      BY <1>2, <2>3 DEF RunErase
    <3> QED
      BY <1>a, <2>1, <3>1
  <2> QED BY <2>2, <2>3
<1>3. ASSUME NEW c \in Chars, RunInsert(c) PROVE OneChannelViews'
  <2>1. /\ UNCHANGED <<conn, made>>
        /\ game.at = "run"
        /\ crash = "no"
    BY <1>3 DEF RunInsert, charVars, chanVars
  <2>2. CASE c \in members[game.cur]
    <3>1. UNCHANGED <<members, known>>
      BY <1>3, <2>2 DEF RunInsert
    <3> QED
      BY <1>a, <2>1, <3>1
  <2>3. CASE c \notin members[game.cur] /\ conn[c] = "live"
    <3>1. ASSUME made = 1
          PROVE  /\ members' = [members EXCEPT ![1] = @ \cup {c}]
                 /\ known' = [d \in Chars |->
                                IF d = c THEN Roster(1, c)
                                ELSE IF d \in Roster(1, c) THEN known[d] \cup {c}
                                ELSE known[d]]
      BY <1>3, <1>b, <2>1, <2>3, <3>1 DEF RunInsert
    <3> QED
      BY <1>0, <1>c, <2>1, <3>1 DEF OneChannelViews, Present, Roster
  <2>4. CASE c \notin members[game.cur] /\ conn[c] # "live"
    BY <1>3, <2>4 DEF RunInsert, OneChannelViews
  <2> QED BY <2>2, <2>3, <2>4
<1>4. ASSUME NEW c \in Chars, RunEscape(c) PROVE OneChannelViews'
  BY <1>4, <1>a DEF RunEscape, charVars, chanVars
<1>5. ASSUME ScanMap \/ NextMap \/ MoveAll PROVE OneChannelViews'
  BY <1>5, <1>a DEF ScanMap, NextMap, MoveAll, charVars, chanVars
<1>6. ASSUME NEW o \in Chans, BeginPlay(o) \/ Remove(o) \/ Drain(o)
      PROVE  OneChannelViews'
  BY <1>6, <1>a DEF BeginPlay, Remove, Drain, charVars, chanVars
<1>7. CASE UNCHANGED vars
  BY <1>7, <1>a DEF vars
<1> QED
  BY <1>1, <1>2, <1>3, <1>4, <1>5, <1>6, <1>7 DEF Next, GameStep, Crashed

(* While there has been one channel only, every member's client knows all  *)
(* members that are present and nobody else, however moves, disconnections *)
(* and the three loops of Channel::PrevTick interleave.                    *)
THEOREM ViewsOfOneChannel == Spec => []OneChannelViews
<1>1. Init => OneChannelViews
  BY DEF Init, OneChannelViews
<1>2. IInv /\ OneChannelViews /\ [Next]_vars => OneChannelViews'
  BY ViewsStep
<1> QED
  BY <1>1, <1>2, Invariance, PTL DEF Spec

-----------------------------------------------------------------------------
(* Numbers: a handler keeps one while the table of its map changes.        *)

(* A channel that is listed is listed where it was created.                *)
TablePlaces ==
    \A m \in Maps, n \in Numbers :
        channels[m][n] # 0 => place[channels[m][n]] = [map |-> m, num |-> n]

(* A channel with the number n of the map of c has been destroyed.         *)
Expired(c, n) ==
    \E o \in Chans : /\ life[o] \in {"Destroy", "Removed"}
                     /\ place[o] = [map |-> mapKey[c], num |-> n]

(* The number that InsertCharacter admits to has a channel or had one.     *)
Chosen ==
    \A c \in Chars :
        /\ io[c].at \in {"open", "admit"} => io[c].num \in Numbers
        /\ io[c].at = "admit" => \/ channels[mapKey[c]][io[c].num] # 0
                                 \/ Expired(c, io[c].num)

NumberInv == TablePlaces /\ Chosen

(* Whoever is on its way to a number is in a map that there is.            *)
LEMMA HandlerInMap ==
    ASSUME TInv, NEW c \in Chars, io[c].at # "idle"
    PROVE  mapKey[c] \in Maps /\ conn[c] = "live"
  BY DEF TInv, Sessions, Idle

(* A step that changes neither numbers nor channels.                       *)
LEMMA NumberFrame ==
    ASSUME NumberInv, UNCHANGED chanVars,
           \A c \in Chars : io'[c].at \in {"open", "admit"} =>
               io'[c] = io[c] /\ mapKey'[c] = mapKey[c]
    PROVE  NumberInv'
<1>1. TablePlaces'
  BY DEF NumberInv, TablePlaces, chanVars
<1>2. Chosen'
  <2> SUFFICES ASSUME NEW c \in Chars, io'[c].at \in {"open", "admit"}
               PROVE  /\ io'[c].num \in Numbers
                      /\ io'[c].at = "admit" =>
                            \/ channels'[mapKey'[c]][io'[c].num] # 0
                            \/ Expired(c, io[c].num)'
    BY DEF Chosen
  <2>1. io'[c] = io[c] /\ mapKey'[c] = mapKey[c]
    OBVIOUS
  <2>2. Expired(c, io[c].num) => Expired(c, io[c].num)'
    BY <2>1 DEF Expired, chanVars
  <2> QED
    BY <2>1, <2>2 DEF NumberInv, Chosen, chanVars
<1> QED
  BY <1>1, <1>2 DEF NumberInv

(* The scan empties an entry only with the channel that stood there.       *)
LEMMA ScanNumbers ==
    ASSUME TInv, NumberInv, ScanMap
    PROVE  NumberInv'
<1>1. /\ channels \in [Maps -> [Numbers -> 0 .. MaxChan]]
      /\ life \in [Chans -> {"None", "Create", "Alive", "Destroy", "Removed"}]
      /\ game.map \in Maps
  BY DEF TInv, TypeOK
<1>2. /\ UNCHANGED <<place, mapKey, io, crash>>
      /\ crash = "no"
      /\ channels' = [channels EXCEPT ![game.map] = [n \in Numbers |->
            IF channels[game.map][n] # 0 /\ Expires(channels[game.map][n])
            THEN 0 ELSE channels[game.map][n]]]
      /\ \A o \in Chans :
            life'[o] = IF /\ \E n \in Numbers : channels[game.map][n] = o
                          /\ Expires(o)
                       THEN "Destroy" ELSE life[o]
  BY DEF ScanMap, charVars
<1>3. ASSUME NEW m \in Maps, NEW n \in Numbers
      PROVE  \/ channels'[m][n] = channels[m][n]
             \/ /\ channels'[m][n] = 0
                /\ channels[m][n] \in Chans
                /\ life'[channels[m][n]] = "Destroy"
  <2>1. channels'[m][n] = IF m = game.map /\ channels[m][n] # 0
                                /\ Expires(channels[m][n])
                          THEN 0 ELSE channels[m][n]
    BY <1>1, <1>2
  <2>2. channels[m][n] # 0 => channels[m][n] \in Chans
    BY <1>1 DEF Chans
  <2> QED
    BY <1>2, <2>1, <2>2
<1>4. TablePlaces'
  BY <1>2, <1>3 DEF NumberInv, TablePlaces
<1>5. Chosen'
  <2> SUFFICES ASSUME NEW c \in Chars, io[c].at = "admit"
               PROVE  \/ channels'[mapKey[c]][io[c].num] # 0
                      \/ Expired(c, io[c].num)'
    BY <1>2 DEF NumberInv, Chosen
  <2>1. mapKey[c] \in Maps /\ io[c].num \in Numbers
    BY HandlerInMap DEF NumberInv, Chosen
  <2>2. CASE Expired(c, io[c].num)
    BY <1>2, <2>2 DEF Expired
  <2>3. CASE channels[mapKey[c]][io[c].num] # 0
    <3> DEFINE o == channels[mapKey[c]][io[c].num]
    <3>1. place[o] = [map |-> mapKey[c], num |-> io[c].num]
      BY <2>1, <2>3 DEF NumberInv, TablePlaces
    <3>2. \/ channels'[mapKey[c]][io[c].num] = o
          \/ o \in Chans /\ life'[o] = "Destroy"
      BY <1>3, <2>1
    <3> QED
      BY <1>2, <2>3, <3>1, <3>2 DEF Expired
  <2> QED
    BY <2>2, <2>3 DEF NumberInv, Chosen
<1> QED
  BY <1>2, <1>4, <1>5 DEF NumberInv

(* A new channel takes the number for which it was opened, and pushes out  *)
(* whichever was listed there.                                             *)
LEMMA OpenNumbers ==
    ASSUME TInv, ChannelLife, NumberInv, NEW c \in Chars, Open(c)
    PROVE  NumberInv'
<1> DEFINE new == made + 1
<1>1. /\ channels \in [Maps -> [Numbers -> 0 .. MaxChan]]
      /\ io \in [Chars -> [at : Handlers, num : 0 .. MaxChan]]
      /\ life \in [Chans -> {"None", "Create", "Alive", "Destroy", "Removed"}]
      /\ place \in [Chans -> [map : 0 .. MapCount, num : 0 .. MaxChan]]
      /\ made \in 0 .. MaxChan
  BY DEF TInv, TypeOK, Handlers
<1>2. /\ new \in Chans /\ new # 0 /\ new > made
      /\ life[new] = "None"
      /\ life' = [life EXCEPT ![new] = "Create"]
      /\ place' = [place EXCEPT ![new] = [map |-> mapKey[c], num |-> io[c].num]]
      /\ channels' = [channels EXCEPT ![mapKey[c]][io[c].num] = new]
      /\ io' = [io EXCEPT ![c].at = "admit"]
      /\ io[c].at = "open"
      /\ UNCHANGED <<mapKey, crash>>
      /\ crash = "no"
  <2>1. /\ new \in Chans
        /\ life[new] = "None"
        /\ life' = [life EXCEPT ![new] = "Create"]
    BY OpenFresh DEF TInv
  <2>2. new # 0 /\ new > made
    BY <1>1
  <2> QED
    BY <2>1, <2>2 DEF Open
<1>3. mapKey[c] \in Maps /\ io[c].num \in Numbers
  BY <1>2, HandlerInMap DEF NumberInv, Chosen
<1> HIDE DEF new
<1>4. ASSUME NEW m \in Maps, NEW n \in Numbers
      PROVE  channels'[m][n] = IF m = mapKey[c] /\ n = io[c].num THEN new
                               ELSE channels[m][n]
  BY <1>1, <1>2, <1>3
<1>5. TablePlaces'
  <2> SUFFICES ASSUME NEW m \in Maps, NEW n \in Numbers, channels'[m][n] # 0
               PROVE  place'[channels'[m][n]] = [map |-> m, num |-> n]
    BY DEF TablePlaces
  <2>1. CASE m = mapKey[c] /\ n = io[c].num
    BY <1>1, <1>2, <1>4, <2>1
  <2>2. CASE ~(m = mapKey[c] /\ n = io[c].num)
    <3>1. channels'[m][n] = channels[m][n]
      BY <1>4, <2>2
    <3>2. channels[m][n] <= made /\ channels[m][n] \in Chans
      BY <1>1, <3>1 DEF ChannelLife, Chans
    <3>3. channels[m][n] # new
      BY <1>1, <1>2, <3>2 DEF Chans
    <3> QED
      BY <1>1, <1>2, <3>1, <3>2, <3>3 DEF NumberInv, TablePlaces
  <2> QED
    BY <2>1, <2>2
<1>6. Chosen'
  <2>1. ASSUME NEW d \in Chars
        PROVE  /\ io'[d].num = io[d].num
               /\ io'[d].at = IF d = c THEN "admit" ELSE io[d].at
    BY <1>1, <1>2
  <2>2. ASSUME NEW d \in Chars, io'[d].at \in {"open", "admit"}
        PROVE  mapKey[d] \in Maps /\ io[d].num \in Numbers
    BY <1>2, <1>3, <2>1, <2>2, HandlerInMap DEF NumberInv, Chosen
  <2> SUFFICES ASSUME NEW d \in Chars, io'[d].at = "admit"
               PROVE  \/ channels'[mapKey[d]][io[d].num] # 0
                      \/ Expired(d, io[d].num)'
    BY <1>2, <2>1, <2>2 DEF Chosen
  <2>3. CASE d = c
    BY <1>2, <1>3, <1>4, <2>3
  <2>4. CASE d # c /\ channels[mapKey[d]][io[d].num] # 0
    BY <1>2, <1>4, <2>2, <2>4
  <2>5. CASE Expired(d, io[d].num)
    BY <1>1, <1>2, <2>5 DEF Expired
  <2> QED
    BY <2>1, <2>3, <2>4, <2>5 DEF NumberInv, Chosen
<1> QED
  BY <1>2, <1>5, <1>6 DEF NumberInv

LEMMA NumberStep ==
    TInv /\ ChannelLife /\ NumberInv /\ [Next]_vars => NumberInv'
<1> SUFFICES ASSUME TInv, ChannelLife, NumberInv, [Next]_vars
             PROVE  NumberInv'
  OBVIOUS
<1>0. /\ io \in [Chars -> [at : Handlers, num : 0 .. MaxChan]]
      /\ mapKey \in [Chars -> 0 .. MapCount]
      /\ life \in [Chans -> {"None", "Create", "Alive", "Destroy", "Removed"}]
  BY DEF TInv, TypeOK, Handlers
<1>1. ASSUME NEW c \in Chars, Handler(c) PROVE NumberInv'
  <2>1. ASSUME NEW m \in Maps, EnterMap(c, m) PROVE NumberInv'
    <3>1. /\ io' = [io EXCEPT ![c] = [at |-> "choose", num |-> 0]]
          /\ mapKey' = [mapKey EXCEPT ![c] = m]
          /\ UNCHANGED <<chanVars, crash>>
          /\ crash = "no"
      BY <2>1 DEF EnterMap, CanAsk
    <3> QED
      BY <1>0, <3>1, NumberFrame
  <2>2. ASSUME NEW n \in 0 .. MaxChan, EnterChannel(c, n) PROVE NumberInv'
    <3>1. /\ io' = [io EXCEPT ![c] = [at |-> "enter", num |-> n]]
          /\ UNCHANGED <<mapKey, chanVars>>
      BY <2>2 DEF EnterChannel
    <3> QED
      BY <1>0, <3>1, NumberFrame
  <2>3. CASE Choose(c)
    <3>1. /\ UNCHANGED <<mapKey, chanVars>>
          /\ crash = "no"
          /\ \/ /\ crash' = "no_manager" /\ io' = io
             \/ /\ crash' = crash
                /\ \E n \in Numbers :
                      \/ /\ channels[mapKey[c]][n] # 0
                         /\ io' = [io EXCEPT ![c] = [at |-> "admit", num |-> n]]
                      \/ io' = [io EXCEPT ![c] = [at |-> "open", num |-> n]]
      BY <2>3 DEF Choose, First, Stops
    <3>2. CASE crash' = "no_manager" /\ io' = io
      BY <3>1, <3>2, NumberFrame
    <3>3. CASE /\ crash' = crash
               /\ \E n \in Numbers :
                      \/ /\ channels[mapKey[c]][n] # 0
                         /\ io' = [io EXCEPT ![c] = [at |-> "admit", num |-> n]]
                      \/ io' = [io EXCEPT ![c] = [at |-> "open", num |-> n]]
      BY <1>0, <3>1, <3>3
      DEF NumberInv, TablePlaces, Chosen, Expired, chanVars
    <3> QED
      BY <3>1, <3>2, <3>3
  <2>4. CASE Open(c)
    BY <2>4, OpenNumbers
  <2>5. CASE Admit(c)
    <3>1. /\ io' = [io EXCEPT ![c] = Idle]
          /\ UNCHANGED <<mapKey, chanVars>>
      BY <2>5 DEF Admit
    <3> QED
      BY <1>0, <3>1, NumberFrame DEF Idle
  <2>6. CASE Escape(c) \/ CloseSession(c)
    <3>1. UNCHANGED <<io, mapKey, chanVars, crash>> /\ crash = "no"
      BY <2>6 DEF Escape, CloseSession, charVars
    <3> QED
      BY <3>1, NumberFrame
  <2>7. CASE DropUser(c)
    <3>1. /\ mapKey' = [mapKey EXCEPT ![c] = 0]
          /\ UNCHANGED <<io, chanVars, crash>>
          /\ crash = "no"
          /\ conn[c] = "closed"
      BY <2>7 DEF DropUser
    <3>2. io[c].at = "idle"
      BY <3>1, HandlerInMap
    <3> QED
      BY <1>0, <3>1, <3>2, NumberFrame
  <2> QED
    BY <1>1, <2>1, <2>2, <2>3, <2>4, <2>5, <2>6, <2>7 DEF Handler
<1>2. CASE ScanMap
  BY <1>2, ScanNumbers
<1>3. ASSUME NEW o \in Chans, BeginPlay(o) \/ Remove(o) PROVE NumberInv'
  <2>1. /\ UNCHANGED <<io, mapKey, channels, place, crash>>
        /\ crash = "no"
        /\ \/ life[o] = "Create" /\ life' = [life EXCEPT ![o] = "Alive"]
           \/ life[o] = "Destroy" /\ life' = [life EXCEPT ![o] = "Removed"]
    BY <1>3 DEF BeginPlay, Remove, Visit, charVars
  <2>2. \A q \in Chans : life[q] \in {"Destroy", "Removed"} =>
                           life'[q] \in {"Destroy", "Removed"}
    BY <1>0, <2>1
  <2>3. Chosen'
    BY <2>1, <2>2 DEF NumberInv, Chosen, Expired
  <2> QED
    BY <2>1, <2>3 DEF NumberInv, TablePlaces
<1>4. CASE \/ NextMap \/ MoveAll
           \/ \E o \in Chans : Drain(o)
           \/ \E c \in Chars : RunErase(c) \/ RunInsert(c) \/ RunEscape(c)
  <2>1. /\ UNCHANGED <<io, mapKey, chanVars>>
        /\ crash = "no"
        /\ crash' # "no_channel"
    BY <1>4 DEF NextMap, MoveAll, Drain, Visit, RunErase, RunInsert, RunEscape,
                charVars
  <2> QED
    BY <2>1, NumberFrame
<1>5. CASE UNCHANGED vars
  BY <1>5 DEF vars, NumberInv, TablePlaces, Chosen, Expired
<1> QED
  BY <1>1, <1>2, <1>3, <1>4, <1>5 DEF Next, GameStep, Crashed

(* InsertCharacter's number, looked up again by the events of channel, has *)
(* a channel unless one with that number has been destroyed, for hasty     *)
(* clients, too, whoever else opens the same number meanwhile.  Numbers    *)
(* that clients send are not spoken of: they may never have had a channel. *)
THEOREM NumbersHold == Spec => []NumberHolds
<1>1. Init => NumberInv
  BY DEF Init, NumberInv, TablePlaces, Chosen, Idle
<1>2. IInv /\ NumberInv /\ [Next]_vars => NumberInv'
  BY NumberStep DEF IInv
<1>3. NumberInv => NumberHolds
  BY DEF NumberInv, Chosen, Expired, NumberHolds, GetChannel
<1> QED
  BY <1>1, <1>2, <1>3, Invariance, PTL DEF Spec

-----------------------------------------------------------------------------
(* Residents: the requests of clients that wait for the answer to a move.  *)

(* The character's own members agree with the objects: a character is at   *)
(* home where mapKey and channel say, and nowhere while it moves.          *)
HomePlaces ==
    \A c \in Chars :
        /\ home[c] # 0 => /\ home[c] <= made
                          /\ place[home[c]] = [map |-> mapKey[c],
                                               num |-> channel[c]]
        /\ io[c] # Idle => home[c] = 0 /\ awaiting[c]
        /\ conn[c] = "gone" => home[c] = 0

(* An insert request of a character that is present is the one its client  *)
(* waits for, there is one of it, and it is for the character's home.      *)
Requested(c, o) == c \in insertQ[o] \/ (game.cur = o /\ c \in batch.insert)

OneRequest ==
    \A c \in Chars, o \in Chans : Present(c) =>
        /\ Requested(c, o) => home[c] = o /\ awaiting[c] /\ io[c] = Idle
        /\ ~(c \in insertQ[o] /\ game.cur = o /\ c \in batch.insert)

(* A client that waits for nothing is in the channel its pointer names; one *)
(* that waits for an admission to a channel it is still a member of will   *)
(* be erased there first.                                                  *)
Settled ==
    \A c \in Chars :
        /\ Present(c) /\ ~awaiting[c] /\ cm[c] # 0 => home[c] = cm[c]
        /\ \A o \in Chans : /\ Listed(o) /\ home[c] = o
                            /\ awaiting[c] /\ c \in members[o]
                            => Erasing(c, o)

(* An escape that waits in a mailbox is of a member, one that was copied   *)
(* finds the character there, in no channel, or about to be erased.        *)
Escapes ==
    \A c \in Chars, o \in Chans :
        /\ c \in funcQ[o] => c \in members[o]
        /\ game.cur = o /\ c \in batch.erase => c \notin funcQ[o]
        /\ /\ game.cur = o /\ Listed(o)
           /\ c \in batch.func /\ cm[c] \notin {0, o}
           => c \in batch.erase /\ c \in members[o]

Residence == TablePlaces /\ HomePlaces /\ OneRequest
                 /\ OnlyResidents /\ Settled /\ Escapes

(* The process that has died of a null pointer takes no further step.      *)
PatientInv == Patient /\ crash = "no" => Residence

(* Which of the requests a step may use up: none, the functions, or, when  *)
(* the lists are empty or there is no mailbox open, the channel it is at.  *)
SameBatch ==
    \/ game.cur = 0 /\ game'.cur = 0
    \/ /\ UNCHANGED game
       /\ batch'.erase = batch.erase
       /\ batch'.insert = batch.insert
       /\ batch'.func \subseteq batch.func
    \/ batch = NoBatch /\ game'.cur = 0

(* A step that moves nobody: at most it takes channels out of the table.   *)
Calm ==
    /\ UNCHANGED <<mapKey, cm, awaiting, home, made, place, mailVars, members>>
    /\ \A c \in Chars : /\ conn'[c] = "gone" <=> conn[c] = "gone"
                        /\ io[c] = Idle => io'[c] = Idle
                        /\ home[c] # 0 => channel'[c] = channel[c]
    /\ \A m \in Maps, n \in Numbers : channels'[m][n] \in {0, channels[m][n]}
    /\ SameBatch

LEMMA CalmStep == IInv /\ Residence /\ crash = "no" /\ Calm => Residence'
<1> SUFFICES ASSUME IInv, Residence, crash = "no", Calm PROVE Residence'
  OBVIOUS
<1>0. members \in [Chans -> SUBSET Chars]
  BY DEF IInv, TInv, TypeOK
<1>1. \A o \in Chans : o # 0
  BY MembershipAssumption DEF Chans
<1>2. \A o \in Chans : Listed(o)' => Listed(o)
  <2> SUFFICES ASSUME NEW o \in Chans, Listed(o)' PROVE Listed(o)
    OBVIOUS
  <2> QED
    BY <1>1 DEF Calm, Listed
<1>3. UNCHANGED <<mapKey, cm, awaiting, home, made, place, eraseQ, insertQ,
                  funcQ, members>>
  BY DEF Calm, mailVars
<1>4. \A c \in Chars : /\ Present(c)' <=> Present(c)
                       /\ io[c] = Idle => io'[c] = Idle
  BY DEF Calm, Present
<1>5. \A c \in Chars, o \in Chans :
         /\ Erasing(c, o)' <=> Erasing(c, o)
         /\ Requested(c, o)' <=> Requested(c, o)
         /\ game'.cur = o /\ c \in batch'.erase
               <=> game.cur = o /\ c \in batch.erase
         /\ game'.cur = o /\ c \in batch'.insert
               <=> game.cur = o /\ c \in batch.insert
         /\ game'.cur = o /\ c \in batch'.func
               => game.cur = o /\ c \in batch.func
  BY <1>1, <1>3 DEF Calm, SameBatch, Erasing, Requested, NoBatch
<1>6. TablePlaces'
  BY <1>3 DEF Calm, Residence, TablePlaces
<1>7. HomePlaces'
  BY <1>3, <1>4 DEF Calm, Residence, HomePlaces
<1>8. OneRequest'
  BY <1>3, <1>4, <1>5 DEF Residence, OneRequest
<1>9. OnlyResidents'
  BY <1>0, <1>2, <1>3, <1>5 DEF Residence, OnlyResidents
<1>10. Settled'
  BY <1>2, <1>3, <1>4, <1>5 DEF Residence, Settled
<1>11. Escapes'
  BY <1>2, <1>3, <1>5 DEF Residence, Escapes
<1> QED
  BY <1>6, <1>7, <1>8, <1>9, <1>10, <1>11 DEF Residence

(* Leaving the channel it is at home in, a character finds it in the table *)
(* and posts the erase to it.                                              *)
LEMMA LeaveErases ==
    ASSUME IInv, Residence, NEW c \in Chars, conn[c] # "gone",
           LeaveChannel(c), NEW o \in Chans, Listed(o), home[c] = o
    PROVE  c \in eraseQ'[o]
<1>0. eraseQ \in [Chans -> SUBSET Chars]
  BY DEF IInv, TInv, TypeOK
<1>1. o # 0
  BY MembershipAssumption DEF Chans
<1>2. PICK m \in Maps, n \in Numbers : channels[m][n] = o
  BY DEF Listed
<1>3. place[o] = [map |-> m, num |-> n]
  BY <1>1, <1>2 DEF Residence, TablePlaces
<1>4. place[o] = [map |-> mapKey[c], num |-> channel[c]]
  BY <1>1 DEF Residence, HomePlaces
<1>5. mapKey[c] = m /\ channel[c] = n
  BY <1>3, <1>4
<1>6. GetChannel(mapKey[c], channel[c]) = o
  BY <1>2, <1>5 DEF GetChannel
<1> QED
  BY <1>0, <1>1, <1>6 DEF LeaveChannel

(* A request to move, or the end of the user, of a character whose client  *)
(* waits for nothing or is gone.                                           *)
MoveEffect(c) ==
    /\ LeaveChannel(c)
    /\ UNCHANGED <<cm, chanVars, insertQ, funcQ, members, game, batch>>
    /\ \A d \in Chars \ {c} :
          /\ mapKey'[d] = mapKey[d] /\ channel'[d] = channel[d]
          /\ io'[d] = io[d] /\ awaiting'[d] = awaiting[d]
          /\ conn'[d] = conn[d]
    /\ \/ ~awaiting[c] /\ awaiting'[c]
       \/ conn'[c] = "gone" /\ io'[c] = Idle

LEMMA LeaveStep ==
    ASSUME IInv, Residence, crash = "no", NEW c \in Chars, conn[c] # "gone",
           MoveEffect(c)
    PROVE  Residence'
<1>1. \A o \in Chans : o # 0
  BY MembershipAssumption DEF Chans
<1>2. /\ UNCHANGED <<cm, channels, made, place, insertQ, funcQ, members, game,
                     batch>>
      /\ LeaveChannel(c)
      /\ \A d \in Chars \ {c} :
            /\ mapKey'[d] = mapKey[d] /\ channel'[d] = channel[d]
            /\ io'[d] = io[d] /\ awaiting'[d] = awaiting[d]
            /\ conn'[d] = conn[d]
      /\ \/ ~awaiting[c] /\ awaiting'[c]
         \/ conn'[c] = "gone" /\ io'[c] = Idle
  BY DEF MoveEffect, chanVars
<1>3. home'[c] = 0 /\ \A d \in Chars \ {c} : home'[d] = home[d]
  BY DEF MoveEffect, LeaveChannel, IInv, TInv, TypeOK
<1>4. \A o \in Chans : /\ eraseQ[o] \subseteq eraseQ'[o]
                       /\ \A d \in Chars \ {c} : d \in eraseQ'[o] => d \in eraseQ[o]
  BY <1>2 DEF LeaveChannel, IInv, TInv, TypeOK
<1>5. \A o \in Chans : Listed(o) /\ home[c] = o => c \in eraseQ'[o]
  BY <1>2, LeaveErases
<1>6. \A o \in Chans : Listed(o)' <=> Listed(o)
  BY <1>2 DEF Listed
<1>7. TablePlaces'
  BY <1>2 DEF Residence, TablePlaces
<1>8. HomePlaces'
  BY <1>2, <1>3 DEF Residence, HomePlaces
<1>9. OneRequest'
  BY <1>2, <1>3 DEF Residence, OneRequest, Requested, Present
<1>10. OnlyResidents'
  <2>1. \A o \in Chans, d \in Chars : Erasing(d, o) => Erasing(d, o)'
    BY <1>2, <1>4 DEF Erasing
  <2>2. \A o \in Chans : Listed(o) /\ home[c] = o => Erasing(c, o)'
    BY <1>5 DEF Erasing
  <2>3. members \in [Chans -> SUBSET Chars]
    BY DEF IInv, TInv, TypeOK
  <2> QED
    BY <1>2, <1>3, <1>6, <2>1, <2>2, <2>3 DEF Residence, OnlyResidents
<1>11. Settled'
  <2>1. \A o \in Chans, d \in Chars : Erasing(d, o) => Erasing(d, o)'
    BY <1>2, <1>4 DEF Erasing
  <2> QED
    BY <1>1, <1>2, <1>3, <1>6, <2>1 DEF Residence, Settled, Present
<1>12. Escapes'
  BY <1>2, <1>6 DEF Residence, Escapes
<1> QED
  BY <1>7, <1>8, <1>9, <1>10, <1>11, <1>12 DEF Residence

(* A channel that is opened has no members, no mailbox is being worked     *)
(* through for it, and it is listed where the table names it.              *)
LEMMA OpenStep ==
    ASSUME IInv, Residence, crash = "no", NEW c \in Chars, Open(c)
    PROVE  Residence'
<1> DEFINE new == made + 1
<1>0. /\ made \in 0 .. MaxChan
      /\ home \in [Chars -> 0 .. MaxChan]
      /\ channels \in [Maps -> [Numbers -> 0 .. MaxChan]]
      /\ place \in [Chans -> [map : 0 .. MapCount, num : 0 .. MaxChan]]
      /\ io \in [Chars -> [at : Handlers, num : 0 .. MaxChan]]
      /\ members \in [Chans -> SUBSET Chars]
      /\ game.cur \in 0 .. MaxChan
  BY DEF IInv, TInv, TypeOK, Handlers
<1>1. \A o \in Chans : o # 0
  BY MembershipAssumption DEF Chans
<1>2. /\ new \in Chans
      /\ made' = new
      /\ place' = [place EXCEPT ![new] = [map |-> mapKey[c], num |-> io[c].num]]
      /\ channels' = [channels EXCEPT ![mapKey[c]][io[c].num] = new]
      /\ io' = [io EXCEPT ![c].at = "admit"]
      /\ io[c].at = "open"
      /\ UNCHANGED <<conn, mapKey, channel, cm, awaiting, home, eraseQ,
                     insertQ, funcQ, members, game, batch, crash>>
  BY OpenFresh DEF Open, mailVars, IInv, TInv
<1>3. /\ \A m \in Maps, n \in Numbers : channels[m][n] <= made
      /\ members[new] = {}
      /\ game.cur # new
  <2>1. /\ new > made
        /\ ChannelLife
    BY <1>0 DEF IInv
  <2>2. life[new] = "None"
    BY <1>2, <2>1 DEF ChannelLife
  <2> QED
    BY <1>1, <1>2, <2>1, <2>2 DEF ChannelLife, GameAt
<1>4. \A o \in Chans : Listed(o)' => Listed(o) \/ o = new
  <2> SUFFICES ASSUME NEW o \in Chans, Listed(o)', o # new PROVE Listed(o)
    OBVIOUS
  <2> HIDE DEF new
  <2>1. PICK m \in Maps, n \in Numbers : channels'[m][n] = o
    BY DEF Listed
  <2>2. channels[m][n] = o
    BY <1>0, <1>2, <2>1
  <2> QED
    BY <2>2 DEF Listed
<1>5. \A d \in Chars : /\ io'[d] = Idle <=> io[d] = Idle
                       /\ io'[d].num = io[d].num
  BY <1>0, <1>2 DEF Idle
<1>6. TablePlaces'
  <2>1. mapKey[c] \in 0 .. MapCount
    BY DEF IInv, TInv, TypeOK
  <2> SUFFICES ASSUME NEW m \in Maps, NEW n \in Numbers, channels'[m][n] # 0
               PROVE  place'[channels'[m][n]] = [map |-> m, num |-> n]
    BY DEF TablePlaces
  <2>2. CASE channels'[m][n] = new
    <3>1. channels[m][n] # new
      BY <1>0, <1>3
    <3>2. m = mapKey[c] /\ n = io[c].num
      BY <1>0, <1>2, <2>2, <3>1
    <3> QED
      BY <1>0, <1>2, <2>2, <3>2
  <2>3. CASE channels'[m][n] # new
    <3>1. channels'[m][n] = channels[m][n]
      BY <1>0, <1>2, <2>3
    <3>2. place[channels[m][n]] = [map |-> m, num |-> n]
      BY <3>1 DEF Residence, TablePlaces
    <3>3. channels[m][n] \in Chans
      BY <1>0, <3>1 DEF Chans
    <3> QED
      BY <1>0, <1>2, <2>3, <3>1, <3>2, <3>3
  <2> QED BY <2>2, <2>3
<1>7. HomePlaces'
  <2>1. ASSUME NEW d \in Chars, home[d] # 0
        PROVE  home[d] <= made' /\ place'[home[d]] = place[home[d]]
    <3>1. home[d] <= made
      BY <2>1 DEF Residence, HomePlaces
    <3>2. home[d] \in Chans
      BY <1>0, <2>1 DEF Chans
    <3> QED
      BY <1>0, <1>2, <3>1, <3>2
  <2> QED
    BY <1>2, <1>5, <2>1 DEF Residence, HomePlaces
<1>8. OneRequest'
  BY <1>2, <1>5 DEF Residence, OneRequest, Requested, Present
<1> HIDE DEF new
<1>9. OnlyResidents'
  BY <1>2, <1>3, <1>4 DEF Residence, OnlyResidents, Erasing
<1>10. Settled'
  BY <1>2, <1>3, <1>4 DEF Residence, Settled, Present, Erasing
<1>11. Escapes'
  BY <1>2, <1>3, <1>4 DEF Residence, Escapes
<1> QED
  BY <1>6, <1>7, <1>8, <1>9, <1>10, <1>11 DEF Residence

(* An admission that finds its channel makes it the character's home; if   *)
(* the character is still a member there, its erase is on its way.         *)
LEMMA AdmitStep ==
    ASSUME IInv, Residence, crash = "no", NEW c \in Chars, Admit(c),
           GetChannel(mapKey[c], io[c].num) # 0
    PROVE  Residence'
<1>0. /\ home \in [Chars -> 0 .. MaxChan]
      /\ insertQ \in [Chans -> SUBSET Chars]
      /\ members \in [Chans -> SUBSET Chars]
      /\ io \in [Chars -> [at : Handlers, num : 0 .. MaxChan]]
      /\ channel \in [Chars -> 0 .. MaxChan]
  BY DEF IInv, TInv, TypeOK, Handlers
<1>1. \A o \in Chans : o # 0
  BY MembershipAssumption DEF Chans
<1>2. /\ io[c] # Idle
      /\ io[c].at \in {"enter", "admit"}
      /\ mapKey[c] \in Maps
  BY DEF Admit, Idle, IInv, TInv, Sessions
<1>3. home[c] = 0 /\ awaiting[c]
  BY <1>2 DEF Residence, HomePlaces
<1>4. PICK x \in 0 .. MaxChan : x = GetChannel(mapKey[c], io[c].num)
  BY <1>2, GetChannelType DEF IInv, TInv
<1>5. x # 0
  BY <1>4
<1>6. /\ insertQ' = [insertQ EXCEPT ![x] = @ \cup {c}]
      /\ home' = [home EXCEPT ![c] = x]
      /\ channel' = [channel EXCEPT ![c] = io[c].num]
      /\ io' = [io EXCEPT ![c] = Idle]
      /\ UNCHANGED <<conn, mapKey, cm, awaiting, channels, made, place, eraseQ,
                     funcQ, members, game, batch>>
  BY <1>4, <1>5 DEF Admit, chanVars
<1>7. /\ x \in Chans
      /\ x <= made
      /\ place[x] = [map |-> mapKey[c], num |-> io[c].num]
  <2>1. io[c].num \in Numbers /\ x = channels[mapKey[c]][io[c].num]
    BY <1>4, <1>5 DEF GetChannel
  <2> QED
    BY <1>2, <1>5, <2>1
    DEF Residence, TablePlaces, IInv, ChannelLife, Chans
<1>8. \A o \in Chans : Listed(o)' <=> Listed(o)
  BY <1>6 DEF Listed
<1>9. TablePlaces'
  BY <1>6 DEF Residence, TablePlaces
<1>10. HomePlaces'
  <2> SUFFICES ASSUME NEW d \in Chars
               PROVE  /\ home'[d] # 0 => /\ home'[d] <= made'
                                         /\ place'[home'[d]] =
                                              [map |-> mapKey'[d],
                                               num |-> channel'[d]]
                      /\ io'[d] # Idle => home'[d] = 0 /\ awaiting'[d]
                      /\ conn'[d] = "gone" => home'[d] = 0
    BY DEF HomePlaces
  <2>1. CASE d = c
    <3>1. conn[c] # "gone"
      BY <1>2 DEF IInv, TInv, Sessions
    <3> QED
      BY <1>0, <1>6, <1>7, <2>1, <3>1
  <2>2. CASE d # c
    BY <1>0, <1>6, <2>2 DEF Residence, HomePlaces
  <2> QED BY <2>1, <2>2
<1>11. OneRequest'
  <2>1. \A o \in Chans : ~Requested(c, o)
    BY <1>2 DEF Residence, OneRequest, Present, IInv, TInv, Sessions
  <2> SUFFICES ASSUME NEW d \in Chars, NEW o \in Chans, Present(d)'
               PROVE  /\ Requested(d, o)' => /\ home'[d] = o /\ awaiting'[d]
                                             /\ io'[d] = Idle
                      /\ ~(d \in insertQ'[o] /\ game'.cur = o
                              /\ d \in batch'.insert)
    BY DEF OneRequest
  <2>2. CASE d = c
    BY <1>0, <1>3, <1>6, <1>7, <2>1, <2>2 DEF Requested
  <2>3. CASE d # c
    <3>1. d \in insertQ'[o] <=> d \in insertQ[o]
      BY <1>0, <1>6, <2>3
    <3> QED
      BY <1>0, <1>6, <2>3, <3>1 DEF Residence, OneRequest, Requested, Present
  <2> QED BY <2>2, <2>3
<1>12. \A o \in Chans, d \in Chars : Erasing(d, o)' <=> Erasing(d, o)
  BY <1>6 DEF Erasing
<1>13. OnlyResidents'
  BY <1>0, <1>1, <1>3, <1>6, <1>8, <1>12 DEF Residence, OnlyResidents
<1>14. Settled'
  <2>1. \A o \in Chans : Listed(o) /\ c \in members[o] => Erasing(c, o)
    BY <1>0, <1>1, <1>3 DEF Residence, OnlyResidents
  <2> QED
    BY <1>0, <1>1, <1>3, <1>6, <1>8, <1>12, <2>1
    DEF Residence, Settled, Present
<1>15. Escapes'
  BY <1>6, <1>8 DEF Residence, Escapes
<1> QED
  BY <1>9, <1>10, <1>11, <1>13, <1>14, <1>15 DEF Residence

(* A character that asks to escape is at home where its pointer points,    *)
(* and no erase of it is in the lists the game thread works through there. *)
LEMMA EscapeStep ==
    ASSUME IInv, Patient, Residence, crash = "no", NEW c \in Chars, Escape(c)
    PROVE  Residence'
<1>0. /\ funcQ \in [Chans -> SUBSET Chars]
      /\ members \in [Chans -> SUBSET Chars]
      /\ cm \in [Chars -> 0 .. MaxChan]
  BY DEF IInv, TInv, TypeOK
<1>1. /\ conn[c] = "live" /\ ~awaiting[c] /\ cm[c] # 0 /\ cm[c] \in Chans
      /\ funcQ' = [funcQ EXCEPT ![cm[c]] = @ \cup {c}]
      /\ UNCHANGED <<conn, mapKey, channel, cm, io, awaiting, home, channels,
                     made, place, eraseQ, insertQ, members, game, batch, crash>>
  BY <1>0 DEF Escape, charVars, chanVars, Chans
<1>2. home[c] = cm[c]
  BY <1>1 DEF Residence, Settled, Present
<1>3. c \in members[cm[c]]
  BY <1>1 DEF IInv, PointerImpliesMember
<1>4. ~(game.cur = cm[c] /\ c \in batch.erase)
  <2>1. \A o \in Chans : ~Requested(c, o)
    BY <1>1 DEF Residence, OneRequest, Present
  <2> QED
    BY <1>1, <1>2, <2>1 DEF IInv, EraseBeforeInsert, Requested
<1>5. \A d \in Chars, o \in Chans :
         d \in funcQ'[o] <=> d \in funcQ[o] \/ (d = c /\ o = cm[c])
  BY <1>0, <1>1
<1>6. \A o \in Chans : Listed(o)' <=> Listed(o)
  BY <1>1 DEF Listed
<1>7. TablePlaces' /\ HomePlaces'
  BY <1>1 DEF Residence, TablePlaces, HomePlaces
<1>8. OneRequest'
  BY <1>1 DEF Residence, OneRequest, Requested, Present
<1>9. OnlyResidents'
  BY <1>1, <1>6 DEF Residence, OnlyResidents, Erasing
<1>10. Settled'
  BY <1>1, <1>6 DEF Residence, Settled, Erasing, Present
<1>11. Escapes'
  BY <1>1, <1>3, <1>4, <1>5, <1>6 DEF Residence, Escapes
<1> QED
  BY <1>7, <1>8, <1>9, <1>10, <1>11 DEF Residence

(* Draining a mailbox moves the requests that wait in it to the lists.     *)
LEMMA DrainStep ==
    ASSUME IInv, Residence, crash = "no", NEW o \in Chans, Drain(o)
    PROVE  Residence'
<1>0. /\ eraseQ \in [Chans -> SUBSET Chars]
      /\ insertQ \in [Chans -> SUBSET Chars]
      /\ funcQ \in [Chans -> SUBSET Chars]
      /\ members \in [Chans -> SUBSET Chars]
      /\ home \in [Chars -> 0 .. MaxChan]
  BY DEF IInv, TInv, TypeOK
<1>1. o # 0 /\ o \in 0 .. MaxChan
  BY MembershipAssumption DEF Chans
<1>2. game'.cur = o
  BY <1>1, WalkOnType DEF Drain, IInv, TInv
<1>3. /\ game.cur = 0
      /\ batch' = [erase |-> eraseQ[o], insert |-> insertQ[o],
                   func |-> funcQ[o]]
      /\ eraseQ' = [eraseQ EXCEPT ![o] = {}]
      /\ insertQ' = [insertQ EXCEPT ![o] = {}]
      /\ funcQ' = [funcQ EXCEPT ![o] = {}]
      /\ UNCHANGED <<conn, mapKey, channel, cm, io, awaiting, home, channels,
                     made, place, members, crash>>
  BY DEF Drain, Visit, IInv, ChannelLife, GameAt, charVars, chanVars
<1>4. \A p \in Chans : p # 0
  BY MembershipAssumption DEF Chans
<1>5. \A c \in Chars, p \in Chans :
         /\ Erasing(c, p)' <=> Erasing(c, p)
         /\ Requested(c, p)' <=> Requested(c, p)
         /\ ~(c \in insertQ'[p] /\ game'.cur = p /\ c \in batch'.insert)
         /\ c \in funcQ'[p] => c \in funcQ[p] /\ game'.cur # p
         /\ game'.cur = p /\ c \in batch'.func => c \in funcQ[p]
         /\ game'.cur = p => (c \in batch'.erase <=> Erasing(c, p))
  BY <1>0, <1>2, <1>3, <1>4 DEF Erasing, Requested
<1>6. \A p \in Chans : Listed(p)' <=> Listed(p)
  BY <1>3 DEF Listed
<1>7. TablePlaces' /\ HomePlaces'
  BY <1>3 DEF Residence, TablePlaces, HomePlaces
<1>8. OneRequest'
  BY <1>3, <1>5 DEF Residence, OneRequest, Present
<1>9. OnlyResidents'
  BY <1>0, <1>3, <1>5, <1>6 DEF Residence, OnlyResidents
<1>10. Settled'
  BY <1>3, <1>5, <1>6 DEF Residence, Settled, Present
<1>11. Escapes'
(* A function that is copied is of a member: if it is leaving, its erase   *)
(* is copied with it, else its pointer is to this manager.                 *)
  <2>1. ASSUME NEW c \in Chars, Listed(o), c \in funcQ[o], cm[c] \notin {0, o}
        PROVE  Erasing(c, o) /\ c \in members[o]
    <3>1. c \in members[o]
      BY <2>1 DEF Residence, Escapes
    <3>2. home[c] = o \/ Erasing(c, o)
      BY <2>1, <3>1 DEF Residence, OnlyResidents
    <3>3. ASSUME home[c] = o PROVE Erasing(c, o)
      <4>1. Present(c)
        BY <1>1, <3>3 DEF Residence, HomePlaces, Present
      <4>2. awaiting[c]
        BY <2>1, <3>3, <4>1 DEF Residence, Settled, IInv, TInv, TypeOK
      <4> QED
        BY <2>1, <3>1, <3>3, <4>2 DEF Residence, Settled
    <3> QED BY <3>1, <3>2, <3>3
  <2> QED
    BY <1>2, <1>3, <1>5, <1>6, <2>1 DEF Residence, Escapes
<1> QED
  BY <1>7, <1>8, <1>9, <1>10, <1>11 DEF Residence

(* An erase that is worked through takes the member and its pointer away.  *)
LEMMA EraseStep ==
    ASSUME IInv, Residence, crash = "no", NEW c \in Chars, RunErase(c)
    PROVE  Residence'
<1>0. /\ members \in [Chans -> SUBSET Chars]
      /\ cm \in [Chars -> 0 .. MaxChan]
      /\ batch \in [erase : SUBSET Chars, insert : SUBSET Chars,
                    func : SUBSET Chars]
  BY DEF IInv, TInv, TypeOK
<1>1. \A o \in Chans : o # 0
  BY MembershipAssumption DEF Chans
<1>2. /\ c \in batch.erase
      /\ batch' = [batch EXCEPT !.erase = @ \ {c}]
      /\ UNCHANGED <<conn, mapKey, channel, io, awaiting, home, channels,
                     made, place, eraseQ, insertQ, funcQ, game, crash>>
  BY DEF RunErase, charVars, chanVars, mailVars
<1>3. /\ batch'.insert = batch.insert
      /\ batch'.func = batch.func
      /\ batch'.erase = batch.erase \ {c}
  BY <1>0, <1>2
<1>4. \A d \in Chars :
         /\ \A o \in Chans : d \in members'[o]
               <=> d \in members[o] /\ ~(d = c /\ o = game.cur)
         /\ cm'[d] = cm[d] \/ cm'[d] = 0
         /\ d = c /\ c \in members[game.cur] => cm'[d] = 0
  BY <1>0 DEF RunErase, ResetPointer
<1>5. \A o \in Chans : members'[o] \subseteq Chars
  BY <1>0 DEF RunErase
<1>6. \A d \in Chars, o \in Chans :
         /\ Erasing(d, o) /\ ~(d = c /\ o = game.cur) => Erasing(d, o)'
         /\ Requested(d, o)' <=> Requested(d, o)
  BY <1>2, <1>3 DEF Erasing, Requested
<1>7. \A o \in Chans : Listed(o)' <=> Listed(o)
  BY <1>2 DEF Listed
<1>8. TablePlaces' /\ HomePlaces'
  BY <1>2 DEF Residence, TablePlaces, HomePlaces
<1>9. OneRequest'
  BY <1>2, <1>3, <1>6 DEF Residence, OneRequest, Present
<1>10. OnlyResidents'
  BY <1>2, <1>4, <1>5, <1>6, <1>7 DEF Residence, OnlyResidents
<1>11. Settled'
  <2>1. ASSUME NEW d \in Chars, Present(d)', ~awaiting'[d], cm'[d] # 0
        PROVE  home'[d] = cm'[d]
    <3>1. cm'[d] = cm[d] /\ Present(d) /\ ~awaiting[d]
      BY <1>2, <1>4, <2>1 DEF Present
    <3> QED
      BY <1>2, <2>1, <3>1 DEF Residence, Settled
  <2>2. ASSUME NEW d \in Chars, NEW o \in Chans, Listed(o)', home'[d] = o,
               awaiting'[d], d \in members'[o]
        PROVE  Erasing(d, o)'
    <3>1. d \in members[o] /\ ~(d = c /\ o = game.cur)
      BY <1>4, <2>2
    <3>2. Listed(o) /\ home[d] = o /\ awaiting[d]
      BY <1>2, <1>7, <2>2
    <3>3. Erasing(d, o)
      BY <3>1, <3>2 DEF Residence, Settled
    <3> QED
      BY <1>6, <3>1, <3>3
  <2> QED
    BY <2>1, <2>2 DEF Settled
<1>12. Escapes'
  <2>1. \A d \in Chars, o \in Chans : d \in funcQ'[o] => d \in members'[o]
    BY <1>2, <1>4 DEF Residence, Escapes
  <2>2. \A d \in Chars, o \in Chans :
           game'.cur = o /\ d \in batch'.erase => d \notin funcQ'[o]
    BY <1>2, <1>3 DEF Residence, Escapes
  <2>3. ASSUME NEW d \in Chars, NEW o \in Chans, game'.cur = o, Listed(o)',
               d \in batch'.func, cm'[d] \notin {0, o}
        PROVE  d \in batch'.erase /\ d \in members'[o]
    <3>1. d \in batch.erase /\ d \in members[o] /\ game.cur = o
      BY <1>2, <1>3, <1>4, <1>7, <2>3 DEF Residence, Escapes
    <3>2. d # c
      BY <1>4, <2>3, <3>1
    <3> QED
      BY <1>3, <1>4, <3>1, <3>2
  <2> QED
    BY <2>1, <2>2, <2>3 DEF Escapes
<1> QED
  BY <1>8, <1>9, <1>10, <1>11, <1>12 DEF Residence

(* An insert that is worked through makes the character a member at home,  *)
(* and answers the one request its client waits for.                       *)
LEMMA InsertStep ==
    ASSUME IInv, Residence, crash = "no", NEW c \in Chars, RunInsert(c),
           crash' = "no"
    PROVE  Residence'
<1>0. /\ members \in [Chans -> SUBSET Chars]
      /\ cm \in [Chars -> 0 .. MaxChan]
      /\ awaiting \in [Chars -> BOOLEAN]
      /\ batch \in [erase : SUBSET Chars, insert : SUBSET Chars,
                    func : SUBSET Chars]
  BY DEF IInv, TInv, TypeOK
<1>1. \A o \in Chans : o # 0
  BY MembershipAssumption DEF Chans
<1>2. /\ c \in batch.insert
      /\ batch.erase = {}
      /\ batch' = [batch EXCEPT !.insert = @ \ {c}]
      /\ UNCHANGED <<conn, mapKey, channel, io, home, channels, made, place,
                     eraseQ, insertQ, funcQ, game>>
  BY DEF RunInsert, InsertTurn, charVars, chanVars, mailVars
<1>3. /\ batch'.insert = batch.insert \ {c}
      /\ batch'.func = batch.func
      /\ batch'.erase = {}
  BY <1>0, <1>2
<1>4. game.cur \in Chans
  BY DEF RunInsert, IInv, TInv, TypeOK, ChannelLife, GameAt, Chans
<1>5. \A o \in Chans : Listed(o)' <=> Listed(o)
  BY <1>2 DEF Listed
<1>6. \A d \in Chars, o \in Chans :
         /\ Erasing(d, o)' <=> Erasing(d, o)
         /\ Requested(d, o)' => Requested(d, o)
         /\ d \in batch'.insert => d \in batch.insert /\ d # c
  BY <1>2, <1>3 DEF Erasing, Requested
<1>7. TablePlaces'
  BY <1>2 DEF Residence, TablePlaces
(* A request for a character that is a member already changes nothing.     *)
<1>8. CASE c \in members[game.cur]
  <2>1. UNCHANGED <<members, cm, awaiting>>
    BY <1>8 DEF RunInsert
  <2>2. HomePlaces'
    BY <1>2, <2>1 DEF Residence, HomePlaces
  <2>3. OneRequest'
    BY <1>2, <1>6, <2>1 DEF Residence, OneRequest, Present
  <2>4. OnlyResidents'
    BY <1>0, <1>2, <1>5, <1>6, <2>1 DEF Residence, OnlyResidents
  <2>5. Settled'
    BY <1>2, <1>5, <1>6, <2>1 DEF Residence, Settled, Present
  <2>6. Escapes'
    BY <1>2, <1>3, <1>5, <2>1 DEF Residence, Escapes
  <2> QED
    BY <1>7, <2>2, <2>3, <2>4, <2>5, <2>6 DEF Residence
<1>9. CASE c \notin members[game.cur]
  <2>1. /\ conn[c] = "live"
        /\ members' = [members EXCEPT ![game.cur] = @ \cup {c}]
        /\ cm' = [cm EXCEPT ![c] = game.cur]
        /\ awaiting' = [awaiting EXCEPT ![c] = FALSE]
    BY <1>9 DEF RunInsert
  <2>2. \A d \in Chars, o \in Chans :
           d \in members'[o] <=> d \in members[o] \/ (d = c /\ o = game.cur)
    BY <1>0, <2>1
  <2>3. /\ cm'[c] = game.cur /\ awaiting'[c] = FALSE
        /\ \A d \in Chars \ {c} : cm'[d] = cm[d] /\ awaiting'[d] = awaiting[d]
    BY <1>0, <2>1
  <2>4. /\ Present(c) /\ Requested(c, game.cur)
        /\ home[c] = game.cur /\ io[c] = Idle
    BY <1>2, <1>4, <2>1 DEF Residence, OneRequest, Present, Requested
  <2>5. \A o \in Chans : ~Requested(c, o)'
    <3> SUFFICES ASSUME NEW o \in Chans, Requested(c, o)' PROVE FALSE
      OBVIOUS
    <3>1. Requested(c, o)
      BY <1>6
    <3>2. o = game.cur
      BY <2>4, <3>1 DEF Residence, OneRequest
    <3>3. c \in insertQ[o]
      BY <1>2, <1>3 DEF Requested
    <3> QED
      BY <1>2, <2>4, <3>2, <3>3 DEF Residence, OneRequest
  <2>6. HomePlaces'
    BY <1>2, <2>3, <2>4 DEF Residence, HomePlaces
  <2>7. OneRequest'
    <3> SUFFICES ASSUME NEW d \in Chars, NEW o \in Chans, Present(d)'
                 PROVE  /\ Requested(d, o)' => /\ home'[d] = o /\ awaiting'[d]
                                               /\ io'[d] = Idle
                        /\ ~(d \in insertQ'[o] /\ game'.cur = o
                                /\ d \in batch'.insert)
      BY DEF OneRequest
    <3>1. CASE d = c
      BY <1>3, <2>5, <3>1
    <3>2. CASE d # c
      BY <1>2, <1>6, <2>3, <3>2 DEF Residence, OneRequest, Present
    <3> QED BY <3>1, <3>2
  <2>8. OnlyResidents'
    <3>1. \A o \in Chans : members'[o] \subseteq Chars
      BY <1>0, <2>1
    <3> QED
      BY <1>2, <1>5, <1>6, <2>2, <2>4, <3>1 DEF Residence, OnlyResidents
  <2>9. Settled'
    BY <1>2, <1>5, <1>6, <2>2, <2>3, <2>4 DEF Residence, Settled, Present
  <2>10. Escapes'
    BY <1>2, <1>3, <1>5, <2>2, <2>3 DEF Residence, Escapes
  <2> QED
    BY <1>7, <2>6, <2>7, <2>8, <2>9, <2>10 DEF Residence
<1> QED BY <1>8, <1>9

(* Every step keeps the residence of patient clients' characters, as long  *)
(* as the process lives.                                                   *)
LEMMA ResidenceStep ==
    IInv /\ PatientInv /\ [Next]_vars => PatientInv'
<1> SUFFICES ASSUME IInv, Patient, crash = "no" => Residence, [Next]_vars,
                    crash' = "no"
             PROVE  Residence'
  BY DEF PatientInv
<1>0. /\ Sessions
      /\ game \in GameType
      /\ io \in [Chars -> [at : Handlers, num : 0 .. MaxChan]]
      /\ conn \in [Chars -> {"live", "closed", "gone"}]
      /\ channels \in [Maps -> [Numbers -> 0 .. MaxChan]]
      /\ mapKey \in [Chars -> 0 .. MapCount]
      /\ channel \in [Chars -> 0 .. MaxChan]
      /\ awaiting \in [Chars -> BOOLEAN]
      /\ batch \in [erase : SUBSET Chars, insert : SUBSET Chars,
                    func : SUBSET Chars]
      /\ game.at = "run" <=> game.cur # 0
      /\ TypeOK
  BY DEF IInv, TInv, TypeOK, GameType, Handlers, ChannelLife, GameAt
<1>a. 0 \in 0 .. MaxChan
  BY MembershipAssumption
<1>1. CASE UNCHANGED vars
  <2>1. Calm /\ crash = "no"
    BY <1>0, <1>1 DEF Calm, SameBatch, vars, mailVars
  <2> QED
    BY <2>1, CalmStep
<1>2. ASSUME NEW c \in Chars, Handler(c) PROVE Residence'
  <2>1. crash = "no"
    BY <1>2 DEF Handler, EnterMap, EnterChannel, Choose, Open, Admit, Escape,
                CloseSession, DropUser, CanAsk
  <2>2. Residence
    BY <2>1
  <2>3. ASSUME NEW m \in Maps, EnterMap(c, m) PROVE Residence'
    <3>1. MoveEffect(c)
      BY <1>0, <2>3 DEF EnterMap, CanAsk, MoveEffect, chanVars
    <3> QED
      BY <2>1, <2>2, <2>3, <3>1, LeaveStep DEF EnterMap, CanAsk
  <2>4. ASSUME NEW n \in 0 .. MaxChan, EnterChannel(c, n) PROVE Residence'
    <3>1. MoveEffect(c)
      BY <1>0, <2>4 DEF EnterChannel, CanAsk, MoveEffect, chanVars
    <3> QED
      BY <2>1, <2>2, <2>4, <3>1, LeaveStep DEF EnterChannel, CanAsk
  <2>5. CASE DropUser(c)
    <3>1. io[c] = Idle
      BY <1>0, <2>5 DEF DropUser, Sessions
    <3>2. MoveEffect(c)
      BY <1>0, <2>5, <3>1 DEF DropUser, MoveEffect, chanVars
    <3> QED
      BY <2>1, <2>2, <2>5, <3>2, LeaveStep DEF DropUser
  <2>6. CASE Choose(c)
    <3>1. UNCHANGED <<conn, mapKey, channel, cm, awaiting, home, chanVars,
                      mailVars, members, game, batch>>
      BY <2>6 DEF Choose
    <3>2. \A d \in Chars : io'[d] = Idle <=> io[d] = Idle
      <4>1. \/ io' = io
            \/ \E n \in Numbers, at \in {"admit", "open"} :
                  io' = [io EXCEPT ![c] = [at |-> at, num |-> n]]
        BY <2>6 DEF Choose
      <4>2. io[c].at = "choose"
        BY <2>6 DEF Choose
      <4> QED
        BY <1>0, <4>1, <4>2 DEF Idle
    <3>3. Calm
      BY <1>0, <3>1, <3>2 DEF Calm, SameBatch, chanVars
    <3> QED
      BY <2>1, <2>2, <3>3, CalmStep
  <2>7. CASE CloseSession(c)
    <3>1. Calm
      BY <1>0, <2>7 DEF CloseSession, Calm, SameBatch, chanVars
    <3> QED
      BY <2>1, <2>2, <3>1, CalmStep
  <2>8. CASE Open(c)
    BY <2>1, <2>2, <2>8, OpenStep
  <2>9. CASE Admit(c)
    <3>1. CASE GetChannel(mapKey[c], io[c].num) # 0
      BY <2>1, <2>2, <2>9, <3>1, AdmitStep
    <3>2. CASE GetChannel(mapKey[c], io[c].num) = 0
      <4>1. /\ io' = [io EXCEPT ![c] = Idle]
            /\ channel' = [channel EXCEPT ![c] = io[c].num]
            /\ io[c] # Idle
            /\ UNCHANGED <<conn, mapKey, cm, awaiting, home, chanVars, mailVars,
                           members, game, batch>>
        BY <2>9, <3>2 DEF Admit, Idle, mailVars
      <4>2. home[c] = 0
        BY <2>2, <4>1 DEF Residence, HomePlaces
      <4>3. Calm
        BY <1>0, <4>1, <4>2 DEF Calm, SameBatch, chanVars
      <4> QED
        BY <2>1, <2>2, <4>3, CalmStep
    <3> QED BY <3>1, <3>2
  <2>10. CASE Escape(c)
    BY <2>1, <2>2, <2>10, EscapeStep
  <2> QED
    BY <1>2, <2>3, <2>4, <2>5, <2>6, <2>7, <2>8, <2>9, <2>10 DEF Handler
<1>3. CASE ScanMap
  <2>1. game'.cur = 0
    BY <1>0, <1>a, <1>3, WalkOnType DEF ScanMap
  <2>2. \A m \in Maps, n \in Numbers : channels'[m][n] \in {0, channels[m][n]}
    BY <1>0, <1>3 DEF ScanMap, GameType
  <2>3. /\ crash = "no" /\ game.cur = 0
        /\ UNCHANGED <<mapKey, channel, cm, awaiting, home, made, place,
                       mailVars, members, conn, io>>
    BY <1>0, <1>3 DEF ScanMap, charVars, GameType
  <2>4. Calm
    BY <2>1, <2>2, <2>3 DEF Calm, SameBatch
  <2> QED
    BY <2>3, <2>4, CalmStep
<1>4. CASE NextMap
  <2>1. Calm /\ crash = "no"
    BY <1>0, <1>4 DEF NextMap, Calm, SameBatch, charVars, chanVars, GameType
  <2> QED
    BY <2>1, CalmStep
<1>5. ASSUME NEW o \in Chans, BeginPlay(o) \/ Remove(o) PROVE Residence'
  <2>1. game'.cur = 0
    BY <1>0, <1>a, <1>5, WalkOnType DEF BeginPlay, Remove
  <2>2. /\ crash = "no" /\ game.cur = 0
        /\ UNCHANGED <<mapKey, channel, cm, awaiting, home, made, place,
                       channels, mailVars, members, conn, io>>
    BY <1>0, <1>5 DEF BeginPlay, Remove, Visit, charVars, GameType
  <2>3. Calm
    BY <1>0, <2>1, <2>2 DEF Calm, SameBatch
  <2> QED
    BY <2>2, <2>3, CalmStep
<1>6. ASSUME NEW o \in Chans, Drain(o) PROVE Residence'
  BY <1>6, DrainStep DEF Drain, Visit
<1>7. ASSUME NEW c \in Chars, RunErase(c) PROVE Residence'
  BY <1>7, EraseStep DEF RunErase
<1>8. ASSUME NEW c \in Chars, RunInsert(c) PROVE Residence'
  BY <1>8, InsertStep DEF RunInsert
<1>9. ASSUME NEW c \in Chars, RunEscape(c) PROVE Residence'
  <2>1. Calm /\ crash = "no"
    BY <1>0, <1>9 DEF RunEscape, Calm, SameBatch, charVars, chanVars
  <2> QED
    BY <2>1, CalmStep
<1>10. CASE MoveAll
  <2>1. /\ crash = "no" /\ batch = NoBatch
        /\ game'.cur = 0
        /\ UNCHANGED <<charVars, cm, awaiting, home, chanVars, mailVars,
                       members, batch>>
    BY <1>0, <1>10 DEF MoveAll, GameType
  <2>2. Calm
    BY <1>0, <2>1 DEF Calm, SameBatch, charVars, chanVars
  <2> QED
    BY <2>1, <2>2, CalmStep
<1> QED
  BY <1>1, <1>2, <1>3, <1>4, <1>5, <1>6, <1>7, <1>8, <1>9, <1>10
  DEF Next, GameStep, Crashed

LEMMA InitPatient == Init => PatientInv
<1> SUFFICES ASSUME Init PROVE Residence
  BY DEF PatientInv
<1>1. \A o \in Chans : o # 0
  BY MembershipAssumption DEF Chans
<1>2. TablePlaces /\ HomePlaces
  BY DEF Init, TablePlaces, HomePlaces
<1>3. OneRequest
  BY <1>1 DEF Init, OneRequest, Requested
<1>4. OnlyResidents /\ Settled
  BY DEF Init, OnlyResidents, Settled
<1>5. Escapes
  BY <1>1 DEF Init, Escapes
<1> QED
  BY <1>2, <1>3, <1>4, <1>5 DEF Residence

LEMMA PatientInvariance == Spec => []PatientInv
<1>1. Init => PatientInv
  BY InitPatient
<1>2. IInv /\ PatientInv /\ [Next]_vars => PatientInv'
  BY ResidenceStep
<1> QED
  BY <1>1, <1>2, Invariance, PTL DEF Spec

(* With clients that wait for the answer to a move before the next request, *)
(* a member of a channel in the map's table is at home there or its erase  *)
(* is on its way: no manager keeps a character that has gone for good.     *)
THEOREM MembersAreResidents == ASSUME Patient PROVE Spec => []OnlyResidents
<1>1. PatientInv => OnlyResidents
  BY DEF PatientInv, Residence, OnlyResidents
<1> QED
  BY <1>1, PatientInvariance, PTL

(* ... and Channel::Escape runs for a character of this channel or of none. *)
THEOREM EscapesInOwnChannel == ASSUME Patient PROVE Spec => EscapeInOwnChannel
<1>1. ASSUME IInv, PatientInv, NEW c \in Chars, RunEscape(c),
             Listed(game.cur)
      PROVE  cm[c] \in {0, game.cur}
  <2>1. Residence
    BY <1>1 DEF PatientInv, RunEscape
  <2>2. game.cur \in Chans
    BY <1>1 DEF RunEscape, IInv, TInv, TypeOK, ChannelLife, GameAt, Chans
  <2>3. c \in batch.func /\ c \notin batch.erase
    BY <1>1 DEF RunEscape, EscapeTurn
  <2> QED
    BY <1>1, <2>1, <2>2, <2>3 DEF Residence, Escapes
<1>2. IInv /\ PatientInv =>
         [\A c \in Chars : RunEscape(c) /\ Listed(game.cur)
                              => cm[c] \in {0, game.cur}]_vars
  BY <1>1
<1> QED
  BY <1>2, Invariance, PatientInvariance, PTL DEF EscapeInOwnChannel

-----------------------------------------------------------------------------
(* Membership with patient clients implements MembershipAbs.               *)

LEMMA AbsInit == Init => Abs!Init
  BY DEF Init, Abs!Init, Present

(* What is seen of the state: a step that leaves it alone is a stutter, one *)
(* that ends the process a failure.                                        *)
LEMMA AbsUnseen ==
    ASSUME UNCHANGED <<home, awaiting>>,
           {c \in Chars : Present(c)}' = {c \in Chars : Present(c)},
           \/ UNCHANGED <<members, crash>>
           \/ crash = "no" /\ crash' # "no"
    PROVE  [Abs!Next]_(Abs!vars)
<1>1. CASE UNCHANGED <<members, crash>>
  BY <1>1 DEF Abs!vars
<1>2. CASE crash = "no" /\ crash' # "no"
  BY <1>2 DEF Abs!Next, Abs!Fail
<1> QED
  BY <1>1, <1>2

LEMMA AbsStep ==
    ASSUME Patient, IInv, PatientInv, [Next]_vars
    PROVE  [Abs!Next]_(Abs!vars)
<1>0. /\ conn \in [Chars -> {"live", "closed", "gone"}]
      /\ members \in [Chans -> SUBSET Chars]
      /\ awaiting \in [Chars -> BOOLEAN]
      /\ home \in [Chars -> 0 .. MaxChan]
      /\ ChannelLife
      /\ TypeOK
      /\ Sessions
  BY DEF IInv, TInv, TypeOK
<1>1. ASSUME NEW c \in Chars, Handler(c) PROVE [Abs!Next]_(Abs!vars)
  <2>1. crash = "no" /\ UNCHANGED members
    BY <1>1 DEF Handler, EnterMap, EnterChannel, Choose, Open, Admit, Escape,
                CloseSession, DropUser, CanAsk
  <2>2. Residence
    BY <2>1 DEF PatientInv
  <2>3. ASSUME CanAsk(c), LeaveChannel(c), UNCHANGED <<conn, members, crash>>,
               awaiting' = [awaiting EXCEPT ![c] = TRUE]
        PROVE  Abs!Ask(c)
    <3>1. home' = [home EXCEPT ![c] = 0]
      BY <2>3 DEF LeaveChannel
    <3> QED
      BY <2>1, <2>3, <3>1 DEF Abs!Ask, CanAsk, Present
  <2>4. ASSUME NEW m \in Maps, EnterMap(c, m) PROVE Abs!Next
    BY <2>3, <2>4 DEF EnterMap, Abs!Next
  <2>5. ASSUME NEW n \in 0 .. MaxChan, EnterChannel(c, n) PROVE Abs!Next
    BY <2>3, <2>5 DEF EnterChannel, Abs!Next
  <2>6. CASE Choose(c) \/ Open(c) \/ Escape(c) \/ CloseSession(c)
    <3>1. /\ UNCHANGED <<home, awaiting>>
          /\ crash' = crash \/ crash' # "no"
      BY <2>6 DEF Choose, Open, Escape, CloseSession
    <3>2. \A d \in Chars : conn'[d] = "gone" <=> conn[d] = "gone"
      BY <1>0, <2>6 DEF Choose, Open, Escape, CloseSession, charVars
    <3> QED
      BY <2>1, <3>1, <3>2, AbsUnseen DEF Present
  <2>7. CASE Admit(c)
    <3>1. /\ io[c] # Idle
          /\ conn[c] = "live"
      BY <1>0, <2>7 DEF Admit, Idle, Sessions
    <3>2. home[c] = 0 /\ awaiting[c]
      BY <2>2, <3>1 DEF Residence, HomePlaces
    <3>3. UNCHANGED <<conn, awaiting>>
      BY <2>7 DEF Admit
    <3>4. PICK x \in 0 .. MaxChan : x = GetChannel(mapKey[c], io[c].num)
      BY <1>0, <3>1, GetChannelType DEF Sessions
    <3>5. CASE x = 0
      <4>1. UNCHANGED home /\ (crash' = crash \/ crash' # "no")
        BY <2>7, <3>4, <3>5 DEF Admit
      <4> QED
        BY <2>1, <3>3, <4>1, AbsUnseen DEF Present
    <3>6. CASE x # 0
      <4>1. home' = [home EXCEPT ![c] = x] /\ UNCHANGED crash
        BY <2>7, <3>4, <3>6 DEF Admit
      <4>2. Abs!Place(c, x)
        BY <2>1, <3>1, <3>2, <3>3, <4>1 DEF Abs!Place, Present
      <4>3. x \in Chans
        BY <3>4, <3>6 DEF Chans
      <4> QED
        BY <4>2, <4>3 DEF Abs!Next
    <3> QED BY <3>5, <3>6
  <2>8. CASE DropUser(c)
    <3>1. /\ home' = [home EXCEPT ![c] = 0]
          /\ conn[c] = "closed"
          /\ conn' = [conn EXCEPT ![c] = "gone"]
          /\ UNCHANGED <<awaiting, crash>>
      BY <2>8 DEF DropUser, LeaveChannel
    <3>2. \A d \in Chars : Present(d)' <=> Present(d) /\ d # c
      BY <1>0, <3>1 DEF Present
    <3>3. Abs!Quit(c)
      BY <2>1, <3>1, <3>2 DEF Abs!Quit, Present
    <3> QED
      BY <3>3 DEF Abs!Next
  <2> QED
    BY <1>1, <2>4, <2>5, <2>6, <2>7, <2>8 DEF Handler
<1>2. ASSUME NEW c \in Chars, RunErase(c) PROVE [Abs!Next]_(Abs!vars)
  <2>1. /\ UNCHANGED <<conn, home, awaiting, crash>>
        /\ crash = "no"
        /\ c \in batch.erase
    BY <1>2 DEF RunErase, charVars
  <2>2. CASE c \notin members[game.cur]
    <3>1. UNCHANGED members
      BY <1>2, <2>2 DEF RunErase
    <3> QED
      BY <2>1, <3>1, AbsUnseen DEF Present
(* An erase of a character at home here is older than the insert that its  *)
(* client waits for.                                                       *)
  <2>3. CASE c \in members[game.cur]
    <3>1. game.cur \in Chans
      BY <1>0, <1>2 DEF RunErase, TypeOK, ChannelLife, GameAt, Chans
    <3>2. members' = [members EXCEPT ![game.cur] = @ \ {c}]
      BY <1>2, <2>3 DEF RunErase
    <3>3. ASSUME home[c] = game.cur PROVE awaiting[c]
      <4>1. Requested(c, game.cur)
        BY <2>1, <3>1, <3>3 DEF IInv, EraseBeforeInsert, Requested
      <4>2. Residence
        BY <2>1 DEF PatientInv
      <4>3. game.cur # 0
        BY <3>1, MembershipAssumption DEF Chans
      <4>4. Present(c)
        BY <3>3, <4>2, <4>3 DEF Residence, HomePlaces, Present
      <4> QED
        BY <3>1, <4>1, <4>2, <4>4 DEF Residence, OneRequest
    <3>4. Abs!Drain(game.cur, {c}, {})
      <4>1. awaiting = [d \in Chars |-> awaiting[d] /\ d \notin {}]
        BY <1>0
      <4>2. members' = [members EXCEPT ![game.cur] = (@ \ {c}) \cup {}]
        BY <3>2
      <4> QED
        BY <2>1, <2>3, <3>3, <4>1, <4>2 DEF Abs!Drain, Present
    <3> QED
      BY <3>1, <3>4 DEF Abs!Next
  <2> QED BY <2>2, <2>3
<1>3. ASSUME NEW c \in Chars, RunInsert(c) PROVE [Abs!Next]_(Abs!vars)
  <2>1. /\ UNCHANGED <<conn, home>>
        /\ crash = "no"
        /\ c \in batch.insert
        /\ game.cur \in Chans
    BY <1>0, <1>3
    DEF RunInsert, charVars, TypeOK, ChannelLife, GameAt, Chans
  <2>2. CASE c \in members[game.cur]
    <3>1. UNCHANGED <<members, awaiting, crash>>
      BY <1>3, <2>2 DEF RunInsert
    <3> QED
      BY <2>1, <3>1, AbsUnseen DEF Present
  <2>3. CASE c \notin members[game.cur] /\ conn[c] # "live"
    <3>1. UNCHANGED awaiting /\ crash' # "no"
      BY <1>3, <2>3 DEF RunInsert
    <3> QED
      BY <2>1, <3>1, AbsUnseen DEF Present
  <2>4. CASE c \notin members[game.cur] /\ conn[c] = "live"
    <3>1. /\ members' = [members EXCEPT ![game.cur] = @ \cup {c}]
          /\ awaiting' = [awaiting EXCEPT ![c] = FALSE]
          /\ UNCHANGED crash
      BY <1>3, <2>4 DEF RunInsert
    <3>2. home[c] = game.cur /\ awaiting[c]
      <4>1. Residence
        BY <2>1 DEF PatientInv
      <4> QED
        BY <2>1, <2>4, <4>1 DEF Residence, OneRequest, Requested, Present
    <3>3. Abs!Drain(game.cur, {}, {c})
      <4>1. awaiting' = [d \in Chars |-> awaiting[d] /\ d \notin {c}]
        BY <1>0, <3>1
      <4>2. members' = [members EXCEPT ![game.cur] = (@ \ {}) \cup {c}]
        BY <3>1
      <4> QED
        BY <2>1, <2>4, <3>1, <3>2, <4>1, <4>2 DEF Abs!Drain, Present
    <3> QED
      BY <2>1, <3>3 DEF Abs!Next
  <2> QED BY <2>2, <2>3, <2>4
<1>4. ASSUME NEW c \in Chars, RunEscape(c) PROVE [Abs!Next]_(Abs!vars)
  BY <1>4, AbsUnseen DEF RunEscape, charVars, Present
<1>5. CASE MoveAll
  BY <1>5, AbsUnseen DEF MoveAll, charVars, Present
<1>6. CASE ScanMap \/ NextMap
  BY <1>6, AbsUnseen DEF ScanMap, NextMap, charVars, Present
<1>7. ASSUME NEW o \in Chans, BeginPlay(o) \/ Remove(o) \/ Drain(o)
      PROVE  [Abs!Next]_(Abs!vars)
  BY <1>7, AbsUnseen DEF BeginPlay, Remove, Drain, charVars, Present
<1>8. CASE UNCHANGED vars
  BY <1>8, AbsUnseen DEF vars, Present
<1> QED
  BY <1>1, <1>2, <1>3, <1>4, <1>5, <1>6, <1>7, <1>8
  DEF Next, GameStep, Crashed

(* Seen by clients that wait for their answers, the handlers, mailboxes and *)
(* the three loops of Channel::PrevTick keep the promise of MembershipAbs.  *)
THEOREM Implementation == ASSUME Patient PROVE Spec => ImplementsAbs
<1>1. IInv /\ PatientInv /\ [Next]_vars => [Abs!Next]_(Abs!vars)
  BY AbsStep
<1> QED
  BY <1>1, AbsInit, Invariance, PatientInvariance, PTL
  DEF Spec, Abs!Spec, ImplementsAbs

(* The steps of MembershipAbs, of which Drain puts characters inside as it *)
(* answers them, keep the fact; EXCEPT needs the types of Membership.      *)
LEMMA AnsweredStep ==
    ASSUME TypeOK, Abs!AnsweredIsInside, [Abs!Next]_(Abs!vars)
    PROVE  Abs!AnsweredIsInside'
<1>0. /\ members \in [Chans -> SUBSET Chars]
      /\ awaiting \in [Chars -> BOOLEAN]
      /\ home \in [Chars -> 0 .. MaxChan]
  BY DEF TypeOK
<1>1. \A o \in Chans : o # 0
  BY MembershipAssumption DEF Chans
<1>2. CASE UNCHANGED Abs!vars
  BY <1>2 DEF Abs!vars, Abs!AnsweredIsInside
<1>3. ASSUME NEW c \in Chars, Abs!Ask(c) PROVE Abs!AnsweredIsInside'
  BY <1>0, <1>3 DEF Abs!Ask, Abs!AnsweredIsInside
<1>4. ASSUME NEW c \in Chars, Abs!Quit(c) PROVE Abs!AnsweredIsInside'
  BY <1>0, <1>1, <1>4 DEF Abs!Quit, Abs!AnsweredIsInside
<1>5. ASSUME NEW c \in Chars, NEW p \in Chans, Abs!Place(c, p)
      PROVE  Abs!AnsweredIsInside'
  BY <1>0, <1>5 DEF Abs!Place, Abs!AnsweredIsInside
<1>6. ASSUME NEW p \in Chans, NEW out \in SUBSET Chars, NEW into \in SUBSET Chars,
             Abs!Drain(p, out, into)
      PROVE  Abs!AnsweredIsInside'
  <2>1. \A o \in Chans :
            members'[o] = IF o = p THEN (members[p] \ out) \cup into ELSE members[o]
    BY <1>0, <1>6 DEF Abs!Drain
  <2>2. \A c \in Chars : awaiting'[c] = (awaiting[c] /\ c \notin into)
    BY <1>6 DEF Abs!Drain
  <2>3. /\ crash = "no" /\ home' = home
        /\ {c \in Chars : Present(c)}' = {c \in Chars : Present(c)}
        /\ \A c \in out : home[c] = p => awaiting[c]
        /\ \A c \in into : home[c] = p
    BY <1>6 DEF Abs!Drain
  <2>4. \A c \in {d \in Chars : Present(d)}, o \in Chans :
            home[c] = o /\ ~awaiting[c] => c \in members[o]
    BY <2>3 DEF Abs!AnsweredIsInside
  <2>5. ASSUME NEW c \in {d \in Chars : Present(d)}, NEW o \in Chans,
               home[c] = o, ~awaiting'[c]
        PROVE  c \in members'[o]
    BY <2>1, <2>2, <2>3, <2>4, <2>5
  <2> QED
    BY <2>3, <2>5 DEF Abs!AnsweredIsInside
<1>7. CASE Abs!Fail
  BY <1>7 DEF Abs!Fail, Abs!AnsweredIsInside
<1> QED
  BY <1>2, <1>3, <1>4, <1>5, <1>6, <1>7 DEF Abs!Next

(* As MembershipAbs has it, a client that has its answer is at every time  *)
(* inside the channel SetChannel placed it in, whichever channel it left.  *)
THEOREM AnsweredAreMembers ==
    ASSUME Patient PROVE Spec => []Abs!AnsweredIsInside
<1>1. Init => Abs!AnsweredIsInside
  <2> SUFFICES ASSUME Init PROVE Abs!AnsweredIsInside
    OBVIOUS
  <2>1. \A o \in Chans : o # 0
    BY MembershipAssumption DEF Chans
  <2> QED
    BY <2>1 DEF Init, Abs!AnsweredIsInside
<1>2. IInv /\ PatientInv /\ Abs!AnsweredIsInside /\ [Next]_vars
         => Abs!AnsweredIsInside'
  BY AbsStep, AnsweredStep DEF IInv, TInv
<1> QED
  BY <1>1, <1>2, Invariance, PatientInvariance, PTL DEF Spec

===============================================================================
