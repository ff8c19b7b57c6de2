-------------------------------- MODULE Login --------------------------------
(***************************************************************************)
(* From the accepted socket to the character in the game and back.         *)
(* Functions posted on the WorkerGroup run one at a time, in the order of  *)
(* posting (the strand); the read handlers of the sessions run beside them *)
(* on the other IO threads.  A handler that asks the database waits for    *)
(* the answer, since it drops the future, and posts what is left to do.    *)
(*                                                                         *)
(* One packet a read: Session models how packets arrive.  One channel: its *)
(* mailbox is worked through in one step (Membership and Mailbox model     *)
(* it), and so is a character's request to enter it.  A character is the   *)
(* record of its user, its code and a serial number; codes are counted     *)
(* upwards here, downwards in the code.                                    *)
(***************************************************************************)
EXTENDS Integers, Sequences, FiniteSets

CONSTANTS
    Clients,    \* connections
    Patient,    \* the clients that wait for the answer to a request
    MaxSent,    \* bound: packets that a client sends
    Rows,       \* codes that UserCharacter holds from earlier runs
    IOThreads,  \* IOThreadCount
    Failing     \* the database may answer with an error

ASSUME LoginAssumption ==
    /\ IsFiniteSet(Clients)
    /\ Clients \subseteq Nat \ {0}
    /\ Patient \subseteq Clients
    /\ MaxSent \in [Clients -> Nat]
    /\ Rows \subseteq Nat
    /\ IOThreads \in Nat \ {0}
    /\ Failing \in BOOLEAN

VARIABLES
    socket,       \* "none", "open", "shut" by the client
    sent,         \* packets of a client read so far, for the bound MaxSent
    awaiting,     \* the client waits for CON_SELECT_CHARACTER
    chosen,       \* CON_SELECT_CHARACTER has been pushed
    failed,       \* history: a request of the client ended without an answer
    reader,       \* how far the read handler of a session is
    code,         \* the handler's *currentCode
    charcode,     \* the static of LoginState::On_Read
    raced,        \* history: two decrements of charcode overlapped
    rows,         \* codes in the table UserCharacter
    strand,       \* functions posted on the WorkerGroup
    running,      \* the one that runs
    key,          \* Session::key
    nextKey,      \* the static of server::NewUser
    sessions,     \* SessionManager::sessions
    users,        \* UserManager::users, session and user linked
    currentState, \* Session::currentState
    character,    \* User::character
    inside,       \* its React channel is not 0
    serial,       \* characters made for the user
    eraseQ,       \* Channel::req_erase_list
    insertQ,      \* Channel::req_Insert_list
    members,      \* CharacterManager::characters
    crash         \* what the process died of, "no" while it runs

clientVars == <<socket, sent, awaiting>>
codeVars == <<code, charcode, raced, rows>>
tableVars == <<key, nextKey, sessions, users>>
charVars == <<character, inside, serial>>
chanVars == <<eraseQ, insertQ, members>>
vars == <<clientVars, chosen, failed, reader, codeVars, strand, running,
          tableVars, currentState, charVars, chanVars, crash>>

None == [fn |-> "none", c |-> 0, code |-> 0, at |-> 0]
NoChar == [user |-> 0, code |-> 0, nth |-> 0]

Function(fn, c, n) == [fn |-> fn, c |-> c, code |-> n, at |-> 1]

\* PostFuction: the strand keeps the order; a mutant dispatches.
PostFuction_First(f) == <<f>> \o strand
PostFuction(f) == Append(strand, f)

\* ss->GetUser().lock()
GetUser(c) == \E u \in users : u.c = c

HasKey(table, k) == \E e \in table : e.key = k
Without(table, k) == {e \in table : e.key # k}

\* io_service.run() on IOThreads threads: the handlers and the function that
\* run now.
\* A mutant has the handler wait for what it posted.
Handling_Waits(c) ==
    \/ reader[c] \notin {"none", "reading", "stopped"}
    \/ \E i \in 1 .. Len(strand) : strand[i].c = c /\ strand[i].fn = "select"
Handling(c) == reader[c] \notin {"none", "reading", "stopped"}
Busy == Cardinality({c \in Clients : Handling(c)})
            + (IF running = None THEN 0 ELSE 1)
AThreadIsFree == Busy < IOThreads

-----------------------------------------------------------------------------
(* The client. *)

\* do_accept posts NewUser and waits for the next client.
Connect(c) ==
    /\ crash = "no"
    /\ socket[c] = "none"
    /\ socket' = [socket EXCEPT ![c] = "open"]
    /\ strand' = PostFuction(Function("new", c, 0))
    /\ UNCHANGED <<sent, awaiting, chosen, failed, reader, codeVars,
                   running, tableVars, currentState, charVars, chanVars, crash>>

Shut(c) ==
    /\ crash = "no"
    /\ socket[c] = "open"
    /\ socket' = [socket EXCEPT ![c] = "shut"]
    /\ UNCHANGED <<sent, awaiting, chosen, failed, reader, codeVars,
                   strand, running, tableVars, currentState, charVars,
                   chanVars, crash>>

-----------------------------------------------------------------------------
(* The read handler of a session. *)

\* A packet is read as it is sent: only when is up to the client.
Reads(c) ==
    /\ crash = "no"
    /\ AThreadIsFree
    /\ reader[c] = "reading"
    /\ socket[c] = "open"
    /\ sent[c] < MaxSent[c]
    /\ sent' = [sent EXCEPT ![c] = @ + 1]

\* REQ_DUMMIY_CHARACTER, which InGameState ignores.
AskCharacter(c) ==
    /\ Reads(c)
    /\ c \in Patient => ~awaiting[c] /\ ~chosen[c]
    /\ IF currentState[c] = "Login"
       THEN /\ reader' = [reader EXCEPT ![c] = "decrement"]
            /\ awaiting' = [awaiting EXCEPT ![c] = TRUE]
       ELSE UNCHANGED <<reader, awaiting>>
    /\ UNCHANGED <<socket, chosen, failed, codeVars, strand, running,
                   tableVars, currentState, charVars, chanVars, crash>>

\* REQ_ENTER_MAP, of a client that was answered; LoginState ignores it.
AskMap(c) ==
    /\ Reads(c)
    /\ chosen[c]
    /\ currentState[c] = "InGame"
    /\ reader' = [reader EXCEPT ![c] = "enter"]
    /\ UNCHANGED <<socket, awaiting, chosen, failed, codeVars, strand, running,
                   tableVars, currentState, charVars, chanVars, crash>>

\* Length 0: no do_read.
ReadNothing(c) ==
    /\ crash = "no"
    /\ AThreadIsFree
    /\ reader[c] = "reading"
    /\ socket[c] = "shut"
    /\ reader' = [reader EXCEPT ![c] = "stopped"]
    /\ strand' = PostFuction(Function("remove", c, 0))
    /\ UNCHANGED <<clientVars, chosen, failed, codeVars, running, tableVars,
                   currentState, charVars, chanVars, crash>>

\* --charcode and make_shared<int>, which takes the static by reference: a
\* load, a store and another load.
LoadCode(c) ==
    /\ crash = "no"
    /\ reader[c] = "decrement"
    /\ reader' = [reader EXCEPT ![c] = "store"]
    /\ code' = [code EXCEPT ![c] = charcode + 1]
    /\ raced' = (raced \/ \E d \in Clients : reader[d] \in {"store", "copy"})
    /\ UNCHANGED <<clientVars, chosen, failed, charcode, rows, strand, running,
                   tableVars, currentState, charVars, chanVars, crash>>

StoreCode(c) ==
    /\ crash = "no"
    /\ reader[c] = "store"
    /\ reader' = [reader EXCEPT ![c] = "copy"]
    /\ charcode' = code[c]
    /\ UNCHANGED <<clientVars, chosen, failed, code, raced, rows, strand,
                   running, tableVars, currentState, charVars, chanVars, crash>>

CopyCode(c) ==
    /\ crash = "no"
    /\ reader[c] = "copy"
    /\ reader' = [reader EXCEPT ![c] = "count"]
    /\ code' = [code EXCEPT ![c] = charcode]
    /\ UNCHANGED <<clientVars, chosen, failed, charcode, raced, rows, strand,
                   running, tableVars, currentState, charVars, chanVars, crash>>

\* Select Count(*), and the callback as far as the next query.
Count(c) ==
    /\ crash = "no"
    /\ reader[c] = "count"
    /\ reader' = [reader EXCEPT ![c] =
                    IF code[c] \in rows THEN "post" ELSE "create"]
    /\ UNCHANGED <<clientVars, chosen, failed, codeVars, strand, running,
                   tableVars, currentState, charVars, chanVars, crash>>

\* CreateDummyCharacter: a row, or an error that the code does not look at.
Create(c) ==
    /\ crash = "no"
    /\ reader[c] = "create"
    /\ reader' = [reader EXCEPT ![c] = "post"]
    /\ rows' = rows \cup {code[c]}
    /\ UNCHANGED <<clientVars, chosen, failed, code, charcode, raced, strand,
                   running, tableVars, currentState, charVars, chanVars, crash>>

\* Without an answer stoi throws into the future nobody reads.
QueryFails(c) ==
    /\ crash = "no"
    /\ Failing
    /\ reader[c] \in {"count", "create"}
    /\ reader' = [reader EXCEPT ![c] = "reading"]
    /\ failed' = [failed EXCEPT ![c] = TRUE]
    /\ UNCHANGED <<clientVars, chosen, codeVars, strand, running, tableVars,
                   currentState, charVars, chanVars, crash>>

\* PostFuction with the rest of the request, and do_read, which a mutant
\* forgets.
PostSelect_NoRead(c) ==
    /\ crash = "no"
    /\ reader[c] = "post"
    /\ reader' = [reader EXCEPT ![c] = "none"]
    /\ strand' = PostFuction(Function("select", c, code[c]))
    /\ UNCHANGED <<clientVars, chosen, failed, codeVars, running, tableVars,
                   currentState, charVars, chanVars, crash>>

PostSelect(c) ==
    /\ crash = "no"
    /\ reader[c] = "post"
    /\ reader' = [reader EXCEPT ![c] = "reading"]
    /\ strand' = PostFuction(Function("select", c, code[c]))
    /\ UNCHANGED <<clientVars, chosen, failed, codeVars, running, tableVars,
                   currentState, charVars, chanVars, crash>>

\* The prev event of React channel: an erase, when the character is in it.
LeaveChannel_NoErase(c) == UNCHANGED eraseQ
LeaveChannel(c) ==
    eraseQ' = IF inside[c] THEN eraseQ \cup {character[c].code} ELSE eraseQ

\* Before Init the events of mapKey do nothing.
Initialised(c) == ~(running.fn = "select" /\ running.c = c /\ running.at = 3)

\* InGameState, REQ_ENTER_MAP: user->GetCharacter()->SetMapKey.
Enter(c) ==
    /\ crash = "no"
    /\ reader[c] = "enter"
    /\ reader' = [reader EXCEPT ![c] = "reading"]
    /\ IF GetUser(c) /\ character[c] # NoChar /\ Initialised(c)
       THEN /\ LeaveChannel(c)
            /\ insertQ' = insertQ \cup {character[c]}
            /\ inside' = [inside EXCEPT ![c] = TRUE]
       ELSE UNCHANGED <<eraseQ, insertQ, inside>>
    /\ crash' = IF GetUser(c) /\ character[c] = NoChar THEN "no_character"
                ELSE crash
    /\ UNCHANGED <<clientVars, chosen, failed, codeVars, strand, running,
                   tableVars, currentState, character, serial, members>>

-----------------------------------------------------------------------------
(* Functions on the WorkerGroup. *)

Take ==
    /\ crash = "no"
    /\ AThreadIsFree
    /\ running = None
    /\ strand # <<>>
    /\ running' = Head(strand)
    /\ strand' = Tail(strand)
    /\ UNCHANGED <<clientVars, chosen, failed, reader, codeVars, tableVars,
                   currentState, charVars, chanVars, crash>>

Runs(fn, c, at) ==
    /\ crash = "no"
    /\ running.fn = fn
    /\ running.c = c
    /\ running.at = at

\* key++; a mutant forgets it.
KeyAfter_Same == nextKey
KeyAfter == nextKey + 1

\* NewUser, CreateSession: start() posts the first read.
NewSession(c) ==
    /\ Runs("new", c, 1)
    /\ reader' = [reader EXCEPT ![c] = "reading"]
    /\ running' = [running EXCEPT !.at = 2]
    /\ UNCHANGED <<clientVars, chosen, failed, codeVars, strand, tableVars,
                   currentState, charVars, chanVars, crash>>

\* ... and then sets the key and enters the session.
EnterSession(c) ==
    /\ Runs("new", c, 2)
    /\ key' = [key EXCEPT ![c] = nextKey]
    /\ sessions' = sessions \cup {[key |-> nextKey, c |-> c]}
    /\ running' = [running EXCEPT !.at = 3]
    /\ UNCHANGED <<clientVars, chosen, failed, reader, codeVars, strand,
                   nextKey, users, currentState, charVars, chanVars, crash>>

\* CreateUser, SetSession and SetUser, key++.
NewUser(c) ==
    /\ Runs("new", c, 3)
    /\ users' = users \cup {[key |-> nextKey, c |-> c]}
    /\ nextKey' = KeyAfter
    /\ running' = None
    /\ UNCHANGED <<clientVars, chosen, failed, reader, codeVars, strand, key,
                   sessions, currentState, charVars, chanVars, crash>>

\* The code of the character that is made; a mutant reads the static again.
LoadedCode_Static == charcode
LoadedCode == running.code

\* The posted half of the request: without a user nothing is done.
LockUser(c) ==
    /\ Runs("select", c, 1)
    /\ running' = IF GetUser(c) THEN [running EXCEPT !.at = 2] ELSE None
    /\ UNCHANGED <<clientVars, chosen, failed, reader, codeVars, strand,
                   tableVars, currentState, charVars, chanVars, crash>>

\* LoadCharacterInfo: the new character takes the place of one there may be.
\* The answer of the database is not tested: vec[0] of nothing.
LoadCharacterInfo(c) ==
    /\ Runs("select", c, 2)
    /\ \/ /\ LoadedCode \in rows
          /\ serial' = [serial EXCEPT ![c] = @ + 1]
          /\ character' = [character EXCEPT ![c] =
                [user |-> c, code |-> LoadedCode, nth |-> serial[c] + 1]]
          /\ inside' = [inside EXCEPT ![c] = FALSE]
          /\ running' = [running EXCEPT !.at = 3]
          /\ UNCHANGED crash
       \/ /\ Failing \/ LoadedCode \notin rows
          /\ crash' = "no_row"
          /\ UNCHANGED <<charVars, running>>
    /\ UNCHANGED <<clientVars, chosen, failed, reader, codeVars, strand,
                   tableVars, currentState, chanVars>>

\* Init, SetState, and the answer to the client.
Answer(c) ==
    /\ Runs("select", c, 3)
    /\ currentState' = [currentState EXCEPT ![c] = "InGame"]
    /\ chosen' = [chosen EXCEPT ![c] = TRUE]
    /\ awaiting' = [awaiting EXCEPT ![c] = FALSE]
    /\ running' = None
    /\ UNCHANGED <<socket, sent, failed, reader, codeVars, strand,
                   tableVars, charVars, chanVars, crash>>

\* RemoveSocket, and RemoveUser posts the rest.
RemoveSession(c) ==
    /\ Runs("remove", c, 1)
    /\ sessions' = Without(sessions, key[c])
    /\ strand' = IF HasKey(users, key[c])
                 THEN PostFuction(Function("erase", c, key[c]))
                 ELSE strand
    /\ running' = None
    /\ UNCHANGED <<clientVars, chosen, failed, reader, codeVars, key, nextKey,
                   users, currentState, charVars, chanVars, crash>>

\* users.erase(key) and ~User: SetMapKey(0), SetChannel(0), Clear().
EraseUser(c) ==
    /\ Runs("erase", c, 1)
    /\ users' = Without(users, running.code)
    /\ LeaveChannel(c)
    /\ inside' = [inside EXCEPT ![c] = FALSE]
    /\ character' = [character EXCEPT ![c] = NoChar]
    /\ running' = None
    /\ UNCHANGED <<clientVars, chosen, failed, reader, codeVars, strand, key,
                   nextKey, sessions, currentState, serial, insertQ, members,
                   crash>>

-----------------------------------------------------------------------------
(* The game thread. *)

\* Two characters of one code are not both members.
Distinct(S) == \A p, q \in S : p.code = q.code => p = q

\* A channel works through its mailbox: erases by code, then inserts, of
\* which the first with a code wins.  It greets a newcomer whose session it
\* does not test.
Drain ==
    /\ crash = "no"
    /\ eraseQ # {} \/ insertQ # {}
    /\ LET left == {p \in members : p.code \notin eraseQ}
       IN  \E new \in SUBSET insertQ :
              /\ Distinct(left \cup new)
              /\ \A p \in insertQ \ new : ~Distinct(left \cup new \cup {p})
              /\ members' = left \cup new
              /\ crash' = IF \E p \in new \ left : ~GetUser(p.user)
                                \/ ~HasKey(sessions, key[p.user])
                          THEN "no_session" ELSE crash
    /\ eraseQ' = {}
    /\ insertQ' = {}
    /\ UNCHANGED <<clientVars, chosen, failed, reader, codeVars, strand,
                   running, tableVars, currentState, charVars>>

\* The process is gone.
Crashed == crash # "no" /\ UNCHANGED vars

-----------------------------------------------------------------------------
Init ==
    /\ socket = [c \in Clients |-> "none"]
    /\ sent = [c \in Clients |-> 0]
    /\ awaiting = [c \in Clients |-> FALSE]
    /\ chosen = [c \in Clients |-> FALSE]
    /\ failed = [c \in Clients |-> FALSE]
    /\ reader = [c \in Clients |-> "none"]
    /\ code = [c \in Clients |-> 0]
    /\ charcode = 0
    /\ raced = FALSE
    /\ rows = Rows
    /\ strand = <<>>
    /\ running = None
    /\ key = [c \in Clients |-> 0]
    /\ nextKey = 0
    /\ sessions = {}
    /\ users = {}
    /\ currentState = [c \in Clients |-> "Login"]
    /\ character = [c \in Clients |-> NoChar]
    /\ inside = [c \in Clients |-> FALSE]
    /\ serial = [c \in Clients |-> 0]
    /\ eraseQ = {}
    /\ insertQ = {}
    /\ members = {}
    /\ crash = "no"

Client(c) == Connect(c) \/ AskCharacter(c) \/ AskMap(c) \/ Shut(c)

Handler(c) == \/ ReadNothing(c) \/ LoadCode(c) \/ StoreCode(c)
              \/ CopyCode(c) \/ Count(c) \/ Create(c) \/ QueryFails(c)
              \/ PostSelect(c) \/ Enter(c)

Posted(c) == \/ NewSession(c) \/ EnterSession(c) \/ NewUser(c)
             \/ LockUser(c) \/ LoadCharacterInfo(c) \/ Answer(c)
             \/ RemoveSession(c) \/ EraseUser(c)

Next ==
    \/ \E c \in Clients : Client(c) \/ Handler(c) \/ Posted(c)
    \/ Take
    \/ Drain
    \/ Crashed

Spec == Init /\ [][Next]_vars

\* The threads go on, and so does a handler or a function that has begun; the
\* database answers.  Nothing obliges a client.
Fairness ==
    /\ WF_vars(Take)
    /\ WF_vars(Drain)
    /\ \A c \in Clients : WF_vars(Handler(c)) /\ WF_vars(Posted(c))

FairSpec == Spec /\ Fairness

-----------------------------------------------------------------------------
Ids == Clients \cup {0}
Functions == [fn : {"none", "new", "select", "remove", "erase"}, c : Ids,
              code : Nat, at : 0 .. 3]
Entries == [key : Nat, c : Clients]
Characters == [user : Ids, code : Nat, nth : Nat]

ClientTypes ==
    /\ socket \in [Clients -> {"none", "open", "shut"}]
    /\ sent \in [Clients -> Nat]
    /\ awaiting \in [Clients -> BOOLEAN]
    /\ chosen \in [Clients -> BOOLEAN]
    /\ failed \in [Clients -> BOOLEAN]
    /\ reader \in [Clients -> {"none", "reading", "stopped", "decrement",
                               "store", "copy", "count", "create", "post",
                               "enter"}]
CodeTypes ==
    /\ code \in [Clients -> Nat]
    /\ charcode \in Nat
    /\ raced \in BOOLEAN
    /\ rows \subseteq Nat
StrandTypes ==
    /\ strand \in Seq(Functions)
    /\ running \in Functions
TableTypes ==
    /\ key \in [Clients -> Nat]
    /\ nextKey \in Nat
    /\ sessions \subseteq Entries
    /\ users \subseteq Entries
    /\ currentState \in [Clients -> {"Login", "InGame"}]
CharacterTypes ==
    /\ character \in [Clients -> Characters]
    /\ inside \in [Clients -> BOOLEAN]
    /\ serial \in [Clients -> Nat]
ChannelTypes ==
    /\ eraseQ \subseteq Nat
    /\ insertQ \subseteq Characters
    /\ members \subseteq Characters
    /\ crash \in {"no", "no_character", "no_row", "no_session"}

TypeOK == /\ ClientTypes /\ CodeTypes /\ StrandTypes /\ TableTypes
          /\ CharacterTypes /\ ChannelTypes

\* A function for c of one of the kinds is posted or runs.
Posting(c, kinds) ==
    \/ running.fn \in kinds /\ running.c = c
    \/ \E i \in 1 .. Len(strand) : strand[i].fn \in kinds /\ strand[i].c = c

\* A handler finds the user and the character it uses without a test
\* (InGameState.cpp:51), and the posted half of a request finds the user it
\* gives a character to: the session was complete before, and is not taken
\* apart until then.
HandlersFindUser ==
    \A c \in Clients :
        /\ reader[c] = "enter" => GetUser(c) /\ character[c] # NoChar
        /\ running.fn = "select" /\ running.c = c => GetUser(c)

\* A connection that is not being entered or removed is in both tables under
\* one key of its own, or in neither, and then nobody reads from it.
TablesAgree ==
    \A c \in Clients :
        LET mine == {[key |-> key[c], c |-> c]}
            Of(table) == {e \in table : e.c = c}
        IN  ~Posting(c, {"new", "remove", "erase"}) =>
              IF reader[c] \in {"none", "stopped"}
              THEN Of(sessions) = {} /\ Of(users) = {}
              ELSE /\ Of(sessions) = mine /\ Of(users) = mine
                   /\ \A d \in Clients \ {c} : ~Posting(d, {"new"}) =>
                         \A e \in sessions \cup users :
                             e.key = key[c] => e.c = c

\* The clients that wait for answers leave no character behind: what a channel
\* holds of them is the character they play, in the channel, or is about to
\* be erased.
NoGhosts ==
    crash = "no" =>
        \A p \in members :
            p.user \in Patient => \/ p = character[p.user] /\ inside[p.user]
                                 \/ p.code \in eraseQ

\* Two characters have one code only if two decrements overlapped.
CodesDistinct ==
    raced \/ \A c, d \in Clients :
        c # d /\ NoChar \notin {character[c], character[d]}
          => character[c].code # character[d].code

Gone(c) == /\ \A e \in sessions \cup users : e.c # c
           /\ c \in Patient => \A p \in members \cup insertQ : p.user # c

\* A connection the client closed leaves nothing behind.
Forgotten ==
    \A c \in Clients :
        socket[c] = "shut" ~> [](Gone(c) \/ crash # "no")

\* A client that waits is answered, unless a query fails or it leaves: no
\* handler waits for another thread, be there one thread only.
Answered ==
    \A c \in Patient :
        awaiting[c] ~> \/ ~awaiting[c] \/ failed[c]
                       \/ socket[c] = "shut" \/ crash # "no"
=============================================================================
