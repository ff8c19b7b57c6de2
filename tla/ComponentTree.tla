---------------------------- MODULE ComponentTree -----------------------------
(***************************************************************************)
(* The tree of components below one map: IO threads create channels and    *)
(* attach them to the map, the game thread walks the tree frame after      *)
(* frame (Update), begins, destroys and removes what hangs in it.  The     *)
(* recursion of Update is a stack of loops, each with the iterator of a    *)
(* std::list: the child it points to, or the end, which stays the end when *)
(* a child is pushed behind it.                                            *)
(*                                                                         *)
(* The channel of a dungeon stands for all: BeginPlay gives it a manager,  *)
(* and the manager a monster.  The static count and the table Components   *)
(* have no lock; another thread may come between the four accesses that    *)
(* CreateComponent makes to them.  An Attach that another change of the    *)
(* list overlaps may lose the component.                                   *)
(***************************************************************************)
EXTENDS Integers, Sequences, FiniteSets, Functions

CONSTANTS
    IOThreads,  \* the threads that open channels
    MaxChan     \* bound: channels opened

ASSUME ComponentTreeAssumption ==
    /\ MaxChan \in Nat
    /\ IsFiniteSet(IOThreads)
    /\ "game" \notin IOThreads

Threads == IOThreads \cup {"game"}
Map == 0
Nodes == 1 .. 3 * MaxChan       \* a channel, its manager, its monster
None == -1                      \* the null pointer, and the end of a list
Fresh == -2                     \* Update has not come to its loop yet

VARIABLES
    made,       \* components made so far
    opened,     \* channels opened so far, for the bound MaxChan
    channels,   \* the channels of the map's table, the lost ones too
    state,      \* Component::state, and "none" before the constructor
    id,         \* Component::id
    parent,     \* Component::parent
    children,   \* Component::children
    count,      \* the static Component::count
    Components, \* the static table: pairs of a key and a component
    raced,      \* history: two calls of CreateComponent overlapped
    thread,     \* what a thread does: [at, node]
    torn,       \* the threads whose Attach is overlapped by another change
    lost,       \* components that an overlapped Attach has lost
    manager,    \* the manager that BeginPlay of a channel has made
    loops       \* the loops of Update, the outermost first: [node, next]

madeVars == <<made, opened>>
tableVars == <<id, count, Components, raced>>
treeVars == <<state, parent, children>>
attachVars == <<channels, torn, lost>>
vars == <<madeVars, tableVars, treeVars, attachVars, thread, manager, loops>>

Resting == [at |-> "idle", node |-> None]

Members(p) == Range(children[p])

\* begin(), and the iterator behind x.
Begin(p) == IF children[p] = <<>> THEN None ELSE Head(children[p])
Behind(p, x) == {i \in 2 .. Len(children[p]) : children[p][i - 1] = x}
Following(p, x) == IF Behind(p, x) = {} THEN None
               ELSE children[p][CHOOSE i \in Behind(p, x) : TRUE]

-----------------------------------------------------------------------------
(* Component::CreateComponent. *)

Inside(t) == thread[t].at \in {"make", "id", "insert", "count"}

Create(t) ==
    /\ thread' = [thread EXCEPT ![t] = [at |-> "make", node |-> None]]
    /\ raced' = (raced \/ \E u \in Threads \ {t} : Inside(u))

\* MapInfo::InsertCharacter opens a channel.
OpenChannel(t) ==
    /\ t \in IOThreads
    /\ thread[t].at = "idle"
    /\ opened < MaxChan
    /\ opened' = opened + 1
    /\ Create(t)
    /\ UNCHANGED <<made, id, count, Components, treeVars, attachVars,
                   manager, loops>>

\* The constructor: id = count++.
Make(t) ==
    /\ thread[t].at = "make"
    /\ made' = made + 1
    /\ state' = [state EXCEPT ![made + 1] = "Create"]
    /\ id' = [id EXCEPT ![made + 1] = count]
    /\ count' = count + 1
    /\ thread' = [thread EXCEPT ![t] = [at |-> "id", node |-> made + 1]]
    /\ UNCHANGED <<opened, Components, raced, parent, children, attachVars,
                   manager, loops>>

\* retval->id = count, which a mutant leaves to the constructor.
SecondId_First(x) == id[x]
SecondId(x) == count

SetId(t) ==
    /\ thread[t].at = "id"
    /\ id' = [id EXCEPT ![thread[t].node] = SecondId(thread[t].node)]
    /\ thread' = [thread EXCEPT ![t].at = "insert"]
    /\ UNCHANGED <<madeVars, count, Components, raced, treeVars, attachVars,
                   manager, loops>>

\* Components.insert does nothing when the key is taken.
Insert(t) ==
    /\ thread[t].at = "insert"
    /\ Components' = IF \E e \in Components : e.key = count THEN Components
                     ELSE Components \cup
                            {[key |-> count, com |-> thread[t].node]}
    /\ thread' = [thread EXCEPT ![t].at = "count"]
    /\ UNCHANGED <<madeVars, id, count, raced, treeVars, attachVars, manager,
                   loops>>

Count(t) ==
    /\ thread[t].at = "count"
    /\ count' = count + 1
    /\ thread' = [thread EXCEPT ![t].at = "created"]
    /\ UNCHANGED <<madeVars, id, Components, raced, treeVars, attachVars,
                   manager, loops>>

-----------------------------------------------------------------------------
(* Component::Attach of a channel to the map. *)

Linking == {t \in IOThreads : thread[t].at = "link"}

Attach(t) ==
    /\ t \in IOThreads
    /\ thread[t].at = "created"
    /\ parent' = [parent EXCEPT ![thread[t].node] = Map]
    /\ thread' = [thread EXCEPT ![t].at = "link"]
    /\ torn' = IF Linking = {} THEN torn ELSE torn \cup Linking \cup {t}
    /\ UNCHANGED <<madeVars, tableVars, state, children, channels, lost,
                   manager, loops>>

\* children.push_back, and the entry in the map's table.
Link(t) ==
    /\ thread[t].at = "link"
    /\ LET x == thread[t].node
       IN  /\ \/ /\ children' = [children EXCEPT ![Map] = Append(@, x)]
                 /\ UNCHANGED lost
              \/ /\ t \in torn
                 /\ lost' = lost \cup {x}
                 /\ UNCHANGED children
           /\ channels' = channels \cup {x}
    /\ thread' = [thread EXCEPT ![t] = Resting]
    /\ torn' = torn \ {t}
    /\ UNCHANGED <<madeVars, tableVars, state, parent, manager, loops>>

-----------------------------------------------------------------------------
(* The game thread: Component::Update. *)

Top == loops[Len(loops)]
Outer == SubSeq(loops, 1, Len(loops) - 1)

\* Component::Run: the next frame.
Frame ==
    /\ loops = <<>>
    /\ loops' = <<[node |-> Map, next |-> Fresh]>>
    /\ UNCHANGED <<madeVars, tableVars, treeVars, attachVars, thread, manager>>

\* Update of x begins, in the given state.
Updates(x, s) ==
    /\ loops # <<>>
    /\ Top = [node |-> x, next |-> Fresh]
    /\ state[x] = s
    /\ thread["game"].at = "idle"

\* ... and comes to its loop over the children it has then.
ComesToLoop(first) == loops' = [loops EXCEPT ![Len(loops)].next = first]

\* What Distroy of a channel reaches.
Distroy(x) == {x} \cup Members(x) \cup UNION {Members(y) : y \in Members(x)}

\* Alive: Tick.  That of the map destroys deserted channels and forgets them.
Tick(x) ==
    /\ Updates(x, "Alive")
    /\ \E doomed \in SUBSET channels :
          /\ x # Map => doomed = {}
          /\ channels' = channels \ doomed
          /\ state' = [y \in DOMAIN state |->
                IF \E c \in doomed : y \in Distroy(c) THEN "Destroy"
                ELSE state[y]]
    /\ ComesToLoop(Begin(x))
    /\ UNCHANGED <<madeVars, tableVars, parent, children, torn, lost, thread,
                   manager>>

IsChannel(x) == x # Map /\ parent[x] = Map

\* BeginPlay is over.
Begun(x) == "Alive"

\* Create: BeginPlay.  A channel makes a manager and the manager's monster.
BeginPlay(x) ==
    /\ Updates(x, "Create")
    /\ ~IsChannel(x)
    /\ state' = [state EXCEPT ![x] = Begun(x)]
    /\ ComesToLoop(Begin(x))
    /\ UNCHANGED <<madeVars, tableVars, parent, children, attachVars, thread,
                   manager>>

MakeManager(x) ==
    /\ Updates(x, "Create")
    /\ IsChannel(x)
    /\ Create("game")
    /\ UNCHANGED <<madeVars, id, count, Components, treeVars, attachVars,
                   manager, loops>>

MakeMonster ==
    /\ thread["game"].at = "created"
    /\ manager = None
    /\ manager' = thread["game"].node
    /\ Create("game")
    /\ UNCHANGED <<madeVars, id, count, Components, treeVars, attachVars,
                   loops>>

AttachManager ==
    /\ thread["game"].at = "created"
    /\ manager # None
    /\ LET monster == thread["game"].node
           channel == Top.node
       IN  /\ parent' = [parent EXCEPT ![monster] = manager,
                                       ![manager] = channel]
           /\ children' = [children EXCEPT ![manager] = <<monster>>,
                                           ![channel] = <<manager>>]
           /\ state' = [state EXCEPT ![channel] = Begun(channel)]
    /\ ComesToLoop(manager)
    /\ thread' = [thread EXCEPT !["game"] = Resting]
    /\ manager' = None
    /\ UNCHANGED <<madeVars, tableVars, attachVars>>

\* A mutant returns after Remove.
LoopAfterRemove_None(x) == None
LoopAfterRemove(x) == Begin(x)

\* The list after Detach of a child that hangs in it, as all that update do.
Place(p, x) == CHOOSE i \in DOMAIN children[p] : children[p][i] = x
Detached(p, x) == [i \in 1 .. Len(children[p]) - 1 |->
                      children[p][IF i < Place(p, x) THEN i ELSE i + 1]]

\* Destroy: EndPlay and Remove.
Remove(x) ==
    /\ Updates(x, "Destroy")
    /\ IF parent[x] = None
       THEN UNCHANGED <<parent, children, Components, torn>>
       ELSE /\ children' = [children EXCEPT ![parent[x]] =
                               Detached(parent[x], x)]
            /\ parent' = [parent EXCEPT ![x] = None]
            /\ Components' = {e \in Components : e.key # id[x]}
            /\ torn' = IF parent[x] = Map THEN torn \cup Linking ELSE torn
    /\ ComesToLoop(LoopAfterRemove(x))
    /\ UNCHANGED <<madeVars, id, count, raced, state, channels, lost, thread,
                   manager>>

\* ++iter comes before com->Update(); a mutant puts it after.
StepsTo_Later(p, x) == x
StepsTo(p, x) == Following(p, x)

\* The loop goes on to a child, or ends.
Descend ==
    /\ loops # <<>>
    /\ Top.next \notin {None, Fresh}
    /\ loops' = Outer \o <<[Top EXCEPT !.next = StepsTo(Top.node, Top.next)],
                           [node |-> Top.next, next |-> Fresh]>>
    /\ UNCHANGED <<madeVars, tableVars, treeVars, attachVars, thread, manager>>

Return ==
    /\ loops # <<>>
    /\ Top.next = None
    /\ loops' = Outer
    /\ UNCHANGED <<madeVars, tableVars, treeVars, attachVars, thread, manager>>

-----------------------------------------------------------------------------
Init ==
    /\ made = 0
    /\ opened = 0
    /\ channels = {}
    /\ state = [x \in {Map} \cup Nodes |-> IF x = Map THEN "Alive" ELSE "none"]
    /\ id = [x \in Nodes |-> 0]
    /\ parent = [x \in Nodes |-> None]
    /\ children = [x \in {Map} \cup Nodes |-> <<>>]
    /\ count = 0
    /\ Components = {}
    /\ raced = FALSE
    /\ thread = [t \in Threads |-> Resting]
    /\ torn = {}
    /\ lost = {}
    /\ manager = None
    /\ loops = <<>>

Creates(t) == Make(t) \/ SetId(t) \/ Insert(t) \/ Count(t)

Opens(t) == Creates(t) \/ Attach(t) \/ Link(t)

GameStep ==
    \/ Frame
    \/ \E x \in {Map} \cup Nodes : \/ Tick(x) \/ BeginPlay(x) \/ MakeManager(x)
                                   \/ Remove(x)
    \/ Creates("game") \/ MakeMonster \/ AttachManager
    \/ Descend \/ Return

Next ==
    \/ \E t \in IOThreads : OpenChannel(t) \/ Opens(t)
    \/ GameStep

Spec == Init /\ [][Next]_vars

\* The threads run on; nobody has to open a channel.
Fairness == /\ WF_vars(GameStep)
            /\ \A t \in IOThreads : WF_vars(Opens(t))

FairSpec == Spec /\ Fairness

-----------------------------------------------------------------------------
States == {"none", "Create", "Alive", "Destroy"}
Stages == {"idle", "make", "id", "insert", "count", "created", "link"}

TypeOK ==
    /\ made \in 0 .. 3 * MaxChan
    /\ opened \in 0 .. MaxChan
    /\ channels \subseteq Nodes
    /\ state \in [{Map} \cup Nodes -> States]
    /\ id \in [Nodes -> Nat]
    /\ parent \in [Nodes -> {Map, None} \cup Nodes]
    /\ children \in [{Map} \cup Nodes -> Seq(Nodes)]
    /\ count \in Nat
    /\ Components \subseteq [key : Nat, com : Nodes]
    /\ raced \in BOOLEAN
    /\ thread \in [Threads -> [at : Stages, node : Nodes \cup {None}]]
    /\ torn \subseteq IOThreads
    /\ lost \subseteq Nodes
    /\ manager \in Nodes \cup {None}
    /\ loops \in Seq([node : {Map} \cup Nodes,
                     next : Nodes \cup {None, Fresh}])

\* The iterator of a loop that waits for the update of a child does not point
\* to a child that the update has erased, whichever children remove
\* themselves and whichever channels are pushed meanwhile.
IteratorsValid ==
    \A i \in 1 .. Len(loops) :
        loops[i].next \in {None, Fresh} \cup Members(loops[i].node)

Removed(x) == state[x] = "Destroy" /\ parent[x] = None
Created(x) == parent[x] # None

\* GetComponent_For_ID finds what hangs in the tree and nothing that was
\* removed, unless two calls of CreateComponent overlapped.
Registered ==
    raced \/ \A x \in Nodes :
                 /\ Created(x) => [key |-> id[x], com |-> x] \in Components
                 /\ Removed(x) => \A e \in Components : e.com # x

\* Attached and not begun, or destroyed and still in the tree.
Pending(x) ==
    \/ x \in Members(Map) /\ state[x] = "Create"
    \/ state[x] = "Destroy" /\ ~Removed(x)

\* What is attached is begun, or destroyed before; what is destroyed leaves
\* the tree with all that hangs below; but for channels lost by an Attach
\* that another change of the list overlapped.
RunsItsCourse == \A x \in Nodes : []<>(x \in lost \/ ~Pending(x))
=============================================================================
