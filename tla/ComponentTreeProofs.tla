-------------------------- MODULE ComponentTreeProofs --------------------------
(***************************************************************************)
(* Theorems about ComponentTree: the walk of the game thread never goes on *)
(* from an erased child, what ticks hangs below a channel of the map, and  *)
(* the table of components has what hangs in the tree as long as no two    *)
(* calls of CreateComponent overlapped.                                    *)
(*                                                                         *)
(* The inductive invariant has one part for the threads that make nodes,   *)
(* one for the tree, one for the walk over it, one for the table and one   *)
(* that counts the nodes.                                                  *)
(***************************************************************************)
EXTENDS ComponentTree, FiniteSetTheorems, SequenceTheorems, TLAPS

Tree == {Map} \cup Nodes

\* A node between its constructor and its list of children.
InTransit(x) == manager = x \/ \E t \in Threads : thread[t].node = x

\* A thread has one node at most between those, and no two the same.  The game
\* thread makes nodes only while a channel begins.
Making ==
    /\ \A t \in Threads :
          thread[t].node = None <=> thread[t].at \in {"idle", "make"}
    /\ \A t, u \in Threads :
          thread[t].node = thread[u].node => t = u \/ thread[t].node = None
    /\ \A t \in Threads : thread[t].node = manager => manager = None
    /\ thread["game"].at # "link"
    /\ thread["game"].at # "idle" =>
          /\ loops # <<>>
          /\ Top.next = Fresh
          /\ IsChannel(Top.node)
          /\ state[Top.node] = "Create"
    /\ manager # None => thread["game"].at # "idle"

\* Nodes not made are untouched, those in transit hang in no list.
Unborn ==
    \A x \in Nodes :
        /\ x > made <=> state[x] = "none"
        /\ x > made => parent[x] = None /\ ~InTransit(x)

Transit ==
    /\ \A x \in Nodes : InTransit(x) => state[x] = "Create"
    /\ \A t \in Threads :
          thread[t].node # None =>
              parent[thread[t].node] = IF thread[t].at = "link" THEN Map
                                       ELSE None
    /\ manager # None => parent[manager] = None

\* A child is in one list once, that of its parent.
Lists ==
    /\ \A p \in Tree : \A x \in Members(p) :
          parent[x] = p /\ state[x] # "none" /\ ~InTransit(x)
    /\ \A p \in Tree : \A i, j \in DOMAIN children[p] :
          children[p][i] = children[p][j] => i = j
    /\ \A x \in Nodes : parent[x] \in Nodes => x \in Members(parent[x])

\* A channel that has not begun has no children; what is below a destroyed node is
\* destroyed; a child of a child of a channel has no children.
Family ==
    /\ state[Map] = "Alive"
    /\ \A x \in Nodes :
          state[x] \in {"none", "Create"} /\ parent[x] \notin Nodes =>
              children[x] = <<>>
    /\ \A x \in Nodes :
          parent[x] = None /\ state[x] \in {"Create", "Alive"} => InTransit(x)
    /\ \A x \in Nodes :
          parent[x] \in Nodes /\ state[parent[x]] = "Destroy" =>
              state[x] = "Destroy"
    /\ \A x \in Nodes :
          parent[x] \in Nodes /\ parent[parent[x]] \in Nodes =>
              children[x] = <<>>
    /\ \A c \in channels :
          /\ state[c] # "none" /\ ~InTransit(c)
          /\ state[c] = "Destroy" \/ parent[c] = Map

\* The loops are a path from the map down, but for nodes that have removed
\* themselves; a loop that waits has stepped past the child it waits for.
Walk ==
    /\ loops # <<>> => loops[1].node = Map
    /\ \A i \in 2 .. Len(loops) :
          /\ loops[i].node \in Nodes
          /\ \/ loops[i].node \in Members(loops[i - 1].node)
             \/ state[loops[i].node] = "Destroy" /\ parent[loops[i].node] = None
    /\ \A i, j \in 1 .. Len(loops) : loops[i].node = loops[j].node => i = j
    /\ \A i \in 1 .. Len(loops) - 1 :
          loops[i].next # Fresh /\ loops[i].next # loops[i + 1].node
    /\ IteratorsValid

\* One thread at a time creates; the keys given are below the count, each is
\* the id of one component.
Table ==
    /\ \A t, u \in Threads : Inside(t) /\ Inside(u) => t = u
    /\ \A e \in Components :
          /\ id[e.com] = e.key /\ state[e.com] # "none"
          /\ e.key <= count
          /\ e.key = count => \E t \in Threads : thread[t].at = "count"
    /\ \A e, f \in Components : e.key = f.key => e = f
    /\ \A t \in Threads :
          /\ thread[t].at \in {"id", "insert"} =>
                \A e \in Components : e.com # thread[t].node
          /\ thread[t].at \in {"insert", "count"} =>
                id[thread[t].node] = count
          /\ thread[t].at \in {"count", "created", "link"} =>
                [key |-> id[thread[t].node], com |-> thread[t].node]
                    \in Components
    /\ manager # None => [key |-> id[manager], com |-> manager] \in Components
    /\ Registered

\* Three nodes for each channel: those it will need still, by how far it is.
Openers == {t \in IOThreads : thread[t].at = "make"}
Unbegun == {x \in Nodes : /\ state[x] = "Create"
                          /\ \/ parent[x] = Map
                             \/ \E t \in IOThreads : thread[t].node = x}
MadeByGame == IF thread["game"].at = "idle" THEN 0
              ELSE (IF manager = None THEN 0 ELSE 1)
                   + (IF thread["game"].at = "make" THEN 0 ELSE 1)
Budget == made + 3 * Cardinality(Openers) + 2 * Cardinality(Unbegun)
              <= 3 * opened + MadeByGame

IInv ==
    /\ TypeOK
    /\ Making /\ Unborn /\ Transit
    /\ Lists /\ Family
    /\ Walk
    /\ raced \/ Table
    /\ Budget

-----------------------------------------------------------------------------
(* Lemmas about numbers, lists and loops. *)

LEMMA NodeNumbers ==
    /\ Nodes \subseteq Nat \ {0}
    /\ Map \notin Nodes /\ None \notin Nodes /\ Fresh \notin Nodes
    /\ Map # None /\ Map # Fresh /\ None # Fresh
    /\ IsFiniteSet(Nodes)
<1>1. 3 * MaxChan \in Nat
    BY ComponentTreeAssumption
<1>2. IsFiniteSet(1 .. 3 * MaxChan)
    BY <1>1, FS_Interval
<1> QED BY <1>1, <1>2 DEF Nodes, Map, None, Fresh

LEMMA MembersAt ==
    ASSUME TypeOK, NEW p \in Tree
    PROVE  /\ children[p] \in Seq(Nodes)
           /\ Members(p) \subseteq Nodes
           /\ \A x : x \in Members(p)
                        <=> \E i \in 1 .. Len(children[p]) : children[p][i] = x
           /\ children[p] = <<>> => Members(p) = {}
<1>1. children[p] \in Seq(Nodes)
    BY DEF TypeOK, Tree
<1>2. DOMAIN children[p] = 1 .. Len(children[p])
    BY <1>1
<1> QED BY <1>1, <1>2 DEF Members, Range

\* Appending to a list adds one member.
LEMMA AppendMembers ==
    ASSUME NEW s \in Seq(Nodes), NEW x \in Nodes
    PROVE  /\ Append(s, x) \in Seq(Nodes)
           /\ \A y : y \in Range(Append(s, x)) <=> y = x \/ y \in Range(s)
           /\ x \notin Range(s)
              /\ (\A i, j \in DOMAIN s : s[i] = s[j] => i = j)
                 => \A i, j \in DOMAIN Append(s, x) :
                       Append(s, x)[i] = Append(s, x)[j] => i = j
<1>1. /\ Append(s, x) \in Seq(Nodes)
      /\ DOMAIN s = 1 .. Len(s)
      /\ DOMAIN Append(s, x) = 1 .. Len(s) + 1
      /\ \A i \in 1 .. Len(s) : Append(s, x)[i] = s[i]
      /\ Append(s, x)[Len(s) + 1] = x
      /\ Len(s) \in Nat
    OBVIOUS
<1>2. ASSUME NEW y PROVE y \in Range(Append(s, x)) <=> y = x \/ y \in Range(s)
    <2>1. y \in Range(Append(s, x))
            <=> \E i \in 1 .. Len(s) + 1 : Append(s, x)[i] = y
        BY <1>1 DEF Range
    <2>2. y \in Range(s) <=> \E i \in 1 .. Len(s) : s[i] = y
        BY <1>1 DEF Range
    <2>3. /\ Len(s) + 1 \in 1 .. Len(s) + 1
          /\ \A i \in 1 .. Len(s) + 1 : i = Len(s) + 1 \/ i \in 1 .. Len(s)
          /\ \A i \in 1 .. Len(s) : i \in 1 .. Len(s) + 1
        BY <1>1
    <2> QED BY <1>1, <2>1, <2>2, <2>3
<1>3. ASSUME x \notin Range(s),
             \A i, j \in DOMAIN s : s[i] = s[j] => i = j,
             NEW i \in DOMAIN Append(s, x), NEW j \in DOMAIN Append(s, x),
             Append(s, x)[i] = Append(s, x)[j]
      PROVE  i = j
    <2>1. \A k \in 1 .. Len(s) : s[k] # x
        BY <1>1, <1>3 DEF Range
    <2>2. \A k \in 1 .. Len(s) + 1 : k = Len(s) + 1 \/ k \in 1 .. Len(s)
        BY <1>1
    <2> QED BY <1>1, <1>3, <2>1, <2>2
<1> QED BY <1>1, <1>2, <1>3

\* Detach takes one child out of a list and keeps the others.
LEMMA DetachMembers ==
    ASSUME TypeOK, NEW p \in Tree, NEW x \in Members(p),
           \A i, j \in DOMAIN children[p] :
               children[p][i] = children[p][j] => i = j
    PROVE  /\ Detached(p, x) \in Seq(Nodes)
           /\ \A y : y \in Range(Detached(p, x)) <=> y # x /\ y \in Members(p)
           /\ \A i, j \in DOMAIN Detached(p, x) :
                 Detached(p, x)[i] = Detached(p, x)[j] => i = j
<1> DEFINE s == children[p]
           k == Place(p, x)
           d == Detached(p, x)
<1>1. s \in Seq(Nodes) /\ DOMAIN s = 1 .. Len(s) /\ Len(s) \in Nat
    BY MembersAt
<1>2. \E i \in DOMAIN s : s[i] = x
    BY <1>1, MembersAt
<1>3. k \in DOMAIN s /\ s[k] = x
    BY <1>2 DEF Place
<1>4. \A i \in DOMAIN s : s[i] = x => i = k
    BY <1>3
<1>5. d = [i \in 1 .. Len(s) - 1 |-> s[IF i < k THEN i ELSE i + 1]]
    BY DEF Detached
<1> HIDE DEF s, k, d
<1>6. /\ k \in 1 .. Len(s) /\ DOMAIN d = 1 .. Len(s) - 1
      /\ \A i \in 1 .. Len(s) - 1 :
            /\ i < k => i \in 1 .. Len(s) /\ d[i] = s[i]
            /\ i >= k => i + 1 \in 1 .. Len(s) /\ d[i] = s[i + 1]
    BY <1>1, <1>3, <1>5
<1>7. \A i \in 1 .. Len(s) - 1 : d[i] \in Nodes
    <2> TAKE i \in 1 .. Len(s) - 1
    <2>1. CASE i < k
        BY <1>1, <1>6, <2>1
    <2>2. CASE i >= k
        BY <1>1, <1>6, <2>2
    <2> QED BY <1>1, <1>6, <2>1, <2>2
<1>8. d \in Seq(Nodes)
    <2>1. Len(s) - 1 \in Nat
        BY <1>1, <1>6
    <2>2. d \in [1 .. Len(s) - 1 -> Nodes]
        BY <1>5, <1>7
    <2> QED BY <2>1, <2>2, SeqDef
<1>9. \A i, j \in DOMAIN d : d[i] = d[j] => i = j
    <2> SUFFICES ASSUME NEW i \in 1 .. Len(s) - 1, NEW j \in 1 .. Len(s) - 1,
                        d[i] = d[j]
                 PROVE  i = j
        BY <1>6
    <2>1. DEFINE f(n) == IF n < k THEN n ELSE n + 1
    <2>2. f(i) \in DOMAIN s /\ f(j) \in DOMAIN s
        BY <1>1, <1>6
    <2>3. s[f(i)] = s[f(j)]
        BY <1>5, <1>6
    <2>4. f(i) = f(j)
        <3> HIDE DEF f
        <3> QED BY <2>2, <2>3 DEF s
    <2> QED BY <1>1, <1>6, <2>4
<1>10. ASSUME NEW y PROVE y \in Range(d) <=> y # x /\ y \in Members(p)
    <2>1. y \in Range(d) <=> \E i \in 1 .. Len(s) - 1 : d[i] = y
        BY <1>6 DEF Range
    <2>2. y \in Members(p) <=> \E i \in 1 .. Len(s) : s[i] = y
        BY MembersAt DEF s
    <2>3. ASSUME NEW i \in 1 .. Len(s) - 1, d[i] = y
          PROVE  y # x /\ y \in Members(p)
        <3>1. CASE i < k
            BY <1>1, <1>4, <1>6, <2>2, <2>3, <3>1
        <3>2. CASE i >= k
            <4>1. i + 1 # k /\ i + 1 \in 1 .. Len(s)
                BY <1>1, <1>6, <3>2
            <4> QED BY <1>1, <1>4, <1>6, <2>2, <2>3, <3>2, <4>1
        <3> QED BY <1>1, <1>6, <3>1, <3>2
    <2>4. ASSUME NEW i \in 1 .. Len(s), s[i] = y, y # x
          PROVE  \E j \in 1 .. Len(s) - 1 : d[j] = y
        <3>1. i # k
            BY <1>3, <2>4
        <3>2. CASE i < k
            BY <1>1, <1>6, <2>4, <3>2
        <3>3. CASE i > k
            <4>1. i - 1 \in 1 .. Len(s) - 1 /\ i - 1 >= k /\ (i - 1) + 1 = i
                BY <1>1, <1>6, <3>3
            <4> QED BY <1>6, <2>4, <4>1
        <3> QED BY <1>1, <1>6, <3>1, <3>2, <3>3
    <2> QED BY <2>1, <2>2, <2>3, <2>4
<1> QED BY <1>8, <1>9, <1>10 DEF d

\* The child behind x is another member.
LEMMA FollowingMember ==
    ASSUME TypeOK, NEW p \in Tree, NEW x \in Members(p),
           \A i, j \in DOMAIN children[p] :
               children[p][i] = children[p][j] => i = j
    PROVE  Following(p, x) \in {None} \cup Members(p) /\ Following(p, x) # x
<1>1. x \in Nodes /\ x # None
    BY MembersAt, NodeNumbers
<1>2. CASE Behind(p, x) = {}
    BY <1>1, <1>2 DEF Following
<1>3. CASE Behind(p, x) # {}
    <2>1. PICK i \in Behind(p, x) : i = CHOOSE j \in Behind(p, x) : TRUE
        BY <1>3
    <2>2. Following(p, x) = children[p][i]
        BY <1>3, <2>1 DEF Following
    <2>3. children[p] \in Seq(Nodes) /\ DOMAIN children[p] = 1 .. Len(children[p])
        BY MembersAt
    <2>4. i \in 2 .. Len(children[p]) /\ children[p][i - 1] = x
        BY <2>1 DEF Behind
    <2>5. i \in DOMAIN children[p] /\ i - 1 \in DOMAIN children[p] /\ i - 1 # i
        BY <2>3, <2>4
    <2> QED BY <2>2, <2>3, <2>4, <2>5, MembersAt
<1> QED BY <1>2, <1>3

LEMMA BeginMember ==
    ASSUME TypeOK, NEW p \in Tree
    PROVE  Begin(p) \in {None} \cup Members(p)
<1>1. CASE children[p] = <<>>
    BY <1>1 DEF Begin
<1>2. CASE children[p] # <<>>
    <2>1. children[p] \in Seq(Nodes) /\ Len(children[p]) \in Nat
        BY MembersAt
    <2>2. 1 \in 1 .. Len(children[p]) /\ Head(children[p]) = children[p][1]
        BY <1>2, <2>1
    <2> QED BY <1>2, <2>2, MembersAt DEF Begin
<1> QED BY <1>1, <1>2

\* The walk on a path: what the innermost loop and the others are.
LEMMA TopOfLoops ==
    ASSUME TypeOK, loops # <<>>
    PROVE  /\ Len(loops) \in Nat \ {0}
           /\ Top = loops[Len(loops)]
           /\ Top \in [node : Tree, next : Nodes \cup {None, Fresh}]
           /\ Outer \in Seq([node : Tree, next : Nodes \cup {None, Fresh}])
           /\ Len(Outer) = Len(loops) - 1
           /\ \A i \in 1 .. Len(loops) - 1 : Outer[i] = loops[i]
<1> DEFINE Loops == [node : Tree, next : Nodes \cup {None, Fresh}]
<1>1. loops \in Seq(Loops)
    BY DEF TypeOK, Tree
<1> HIDE DEF Loops
<1>2. Len(loops) \in Nat \ {0}
    BY <1>1
<1>3. /\ Len(loops) \in 1 .. Len(loops)
      /\ Len(loops) - 1 \in Nat /\ 1 \in Nat
      /\ \A i \in 1 .. Len(loops) - 1 : loops[i] \in Loops /\ 1 + i - 1 = i
    BY <1>1, <1>2
<1>4. Top \in Loops
    BY <1>1, <1>3 DEF Top
<1>5. /\ Outer \in Seq(Loops)
      /\ Len(Outer) = Len(loops) - 1
      /\ \A i \in 1 .. Len(loops) - 1 : Outer[i] = loops[i]
    <2>1. PICK n \in Nat : n = Len(loops) - 1
        BY <1>3
    <2>2. Outer = SubSeq(loops, 1, n)
        BY <2>1 DEF Outer
    <2>3. 1 \in Int /\ n \in Int /\ \A i \in 1 .. n : loops[i] \in Loops
        BY <1>3, <2>1
    <2>4. /\ SubSeq(loops, 1, n) \in Seq(Loops)
          /\ Len(SubSeq(loops, 1, n)) = IF 1 <= n THEN n - 1 + 1 ELSE 0
          /\ \A i \in 1 .. n - 1 + 1 : SubSeq(loops, 1, n)[i] = loops[1 + i - 1]
        BY <2>3, SubSeqProperties
    <2>5. n - 1 + 1 = n /\ (~(1 <= n) => n = 0)
        BY <2>1
    <2> QED BY <1>3, <2>1, <2>2, <2>4, <2>5
<1> QED BY <1>2, <1>4, <1>5 DEF Top, Loops

LEMMA LoopAt ==
    ASSUME TypeOK
    PROVE  /\ Len(loops) \in Nat
           /\ \A i \in 1 .. Len(loops) :
                 loops[i] \in [node : Tree, next : Nodes \cup {None, Fresh}]
<1> DEFINE Loops == [node : Tree, next : Nodes \cup {None, Fresh}]
<1>1. loops \in Seq(Loops)
    BY DEF TypeOK, Tree
<1> HIDE DEF Loops
<1>2. Len(loops) \in Nat /\ \A i \in 1 .. Len(loops) : loops[i] \in Loops
    BY <1>1
<1> QED BY <1>2 DEF Loops

-----------------------------------------------------------------------------
(* The count of nodes. *)

LEMMA Counts ==
    ASSUME ComponentTreeAssumption
    PROVE  /\ IsFiniteSet(Openers) /\ Cardinality(Openers) \in Nat
           /\ IsFiniteSet(Unbegun) /\ Cardinality(Unbegun) \in Nat
<1>1. Openers \subseteq IOThreads /\ Unbegun \subseteq Nodes
    BY DEF Openers, Unbegun
<1> QED BY <1>1, NodeNumbers, FS_Subset, FS_CardinalityType
        DEF ComponentTreeAssumption

\* While a channel begins it is one of those that count.
LEMMA GameBegins ==
    ASSUME TypeOK, Making, thread["game"].at # "idle"
    PROVE  /\ loops # <<>>
           /\ Top \in [node : Tree, next : Nodes \cup {None, Fresh}]
           /\ Top.node \in Nodes /\ Top.next = Fresh
           /\ parent[Top.node] = Map /\ state[Top.node] = "Create"
           /\ Top.node \in Unbegun
<1>1. /\ loops # <<>> /\ Top.next = Fresh /\ IsChannel(Top.node)
      /\ state[Top.node] = "Create"
    BY DEF Making
<1>2. Top \in [node : Tree, next : Nodes \cup {None, Fresh}]
    BY <1>1, TopOfLoops
<1>3. Top.node \in Nodes
    BY <1>1, <1>2 DEF IsChannel, Tree
<1> QED BY <1>1, <1>2, <1>3 DEF IsChannel, Unbegun

\* A constructor that runs has a node left, since each channel has three.
LEMMA RoomToMake ==
    ASSUME TypeOK, Making, Budget, NEW t \in Threads, thread[t].at = "make"
    PROVE  made + 1 \in Nodes
<1> DEFINE o == Cardinality(Openers)
           u == Cardinality(Unbegun)
           g == MadeByGame
<1>1. o \in Nat /\ u \in Nat
    BY Counts, ComponentTreeAssumption
<1>2. /\ made \in Nat /\ opened \in Nat /\ opened <= MaxChan /\ MaxChan \in Nat
      /\ made + 3 * o + 2 * u <= 3 * opened + g
    BY ComponentTreeAssumption DEF TypeOK, Budget
<1>3. g \in {0, 1, 2}
    BY DEF MadeByGame
<1>4. g = 0 \/ u >= 1
    <2>1. thread["game"].at = "idle" => g = 0
        BY DEF MadeByGame
    <2>2. thread["game"].at # "idle" => Unbegun # {}
        BY GameBegins
    <2>3. Unbegun # {} => u # 0
        BY Counts, ComponentTreeAssumption, FS_EmptySet
    <2> HIDE DEF u, g
    <2> QED BY <1>1, <2>1, <2>2, <2>3
<1>5. o >= 1 \/ (g <= 1 /\ u >= 1)
    <2>1. CASE t = "game"
        <3>1. g <= 1
            BY <2>1 DEF MadeByGame
        <3>2. Unbegun # {}
            BY <2>1, GameBegins
        <3>3. u # 0
            BY <3>2, Counts, ComponentTreeAssumption, FS_EmptySet
        <3> HIDE DEF u, g
        <3> QED BY <1>1, <3>1, <3>3
    <2>2. CASE t # "game"
        <3>1. t \in Openers
            BY <2>2 DEF Openers, Threads
        <3>2. o # 0
            BY <3>1, Counts, ComponentTreeAssumption, FS_EmptySet
        <3> HIDE DEF o
        <3> QED BY <1>1, <3>2
    <2> QED BY <2>1, <2>2
<1> HIDE DEF o, u, g
<1>6. made + 1 <= 3 * MaxChan
    BY <1>1, <1>2, <1>3, <1>4, <1>5
<1> QED BY <1>2, <1>6 DEF Nodes

-----------------------------------------------------------------------------
(* What the walk does next is done to children of the nodes on its path. *)

\* A node in transit is not on the path.
LEMMA PathIsMade ==
    ASSUME TypeOK, Walk, Lists, Family, Transit,
           NEW i \in 1 .. Len(loops)
    PROVE  /\ loops[i].node \in Tree
           /\ loops[i].node \in Nodes =>
                  ~InTransit(loops[i].node) /\ i >= 2
           /\ loops[i].node = Map => i = 1
<1> USE NodeNumbers
<1>1. loops[i].node \in Tree /\ loops # <<>> /\ Len(loops) \in Nat
    BY LoopAt
<1>2. CASE i = 1
    BY <1>1, <1>2 DEF Walk
<1>3. CASE i # 1
    <2>1. i \in 2 .. Len(loops) /\ i - 1 \in 1 .. Len(loops)
        BY <1>1, <1>3
    <2>2. loops[i - 1].node \in Tree
        BY <2>1, LoopAt
    <2>3. loops[i].node \in Nodes
        BY <2>1 DEF Walk
    <2>4. ~InTransit(loops[i].node)
        <3>1. CASE loops[i].node \in Members(loops[i - 1].node)
            BY <2>2, <3>1 DEF Lists
        <3>2. CASE state[loops[i].node] = "Destroy"
            BY <2>3, <3>2 DEF Transit
        <3> QED BY <2>1, <3>1, <3>2 DEF Walk
    <2> QED BY <1>1, <2>1, <2>3, <2>4
<1> QED BY <1>2, <1>3

\* What removes itself hangs in the list of its parent, whose loop waits.
LEMMA RemovesMember ==
    ASSUME TypeOK, Walk, Lists, Family, NEW x \in Tree, Updates(x, "Destroy"),
           parent[x] # None
    PROVE  /\ x \in Nodes /\ x \in Members(parent[x]) /\ parent[x] \in Tree
           /\ Len(loops) >= 2 /\ Len(loops) \in Nat
           /\ x = loops[Len(loops)].node
           /\ parent[x] = loops[Len(loops) - 1].node
<1> USE NodeNumbers
<1>1. loops # <<>> /\ x = loops[Len(loops)].node /\ state[x] = "Destroy"
    BY DEF Updates, Top
<1>2. x \in Nodes
    BY <1>1 DEF Family, Tree
<1>3. Len(loops) \in Nat \ {0}
    BY <1>1, TopOfLoops
<1>4. Len(loops) # 1
    BY <1>1, <1>2 DEF Walk
<1>5. Len(loops) \in 2 .. Len(loops) /\ Len(loops) - 1 \in 1 .. Len(loops)
    <2>1. PICK n \in Nat \ {0} : n = Len(loops)
        BY <1>3
    <2>2. n >= 2
        BY <1>4, <2>1
    <2>3. n \in 2 .. n /\ n - 1 \in 1 .. n
        BY <2>2
    <2> QED BY <2>1, <2>3
<1>6. loops[Len(loops) - 1].node \in Tree
    BY <1>5, LoopAt
<1>7. x \in Members(loops[Len(loops) - 1].node)
    BY <1>1, <1>5 DEF Walk
<1>8. parent[x] = loops[Len(loops) - 1].node
    BY <1>6, <1>7 DEF Lists
<1>9. Len(loops) >= 2
    <2>1. PICK n \in Nat : n = Len(loops)
        BY <1>3
    <2>2. n # 0 /\ n # 1
        BY <1>3, <1>4, <2>1
    <2> QED BY <2>1, <2>2
<1> QED BY <1>1, <1>2, <1>3, <1>6, <1>7, <1>8, <1>9

LEMMA DescendsToMember ==
    ASSUME TypeOK, Walk, Descend
    PROVE  /\ loops # <<>> /\ Top.node \in Tree /\ Top.next \in Nodes
           /\ Top.next \in Members(Top.node)
<1> USE NodeNumbers
<1>1. loops # <<>> /\ Top.next \notin {None, Fresh}
    BY DEF Descend
<1>2. Top \in [node : Tree, next : Nodes \cup {None, Fresh}]
    BY <1>1, TopOfLoops
<1>3. Len(loops) \in 1 .. Len(loops)
    BY <1>1, TopOfLoops
<1> QED BY <1>1, <1>2, <1>3 DEF Walk, IteratorsValid, Top

-----------------------------------------------------------------------------
(* Types. *)

LEMMA TypeStep ==
    ASSUME IInv, [Next]_vars
    PROVE  TypeOK'
<1> USE ComponentTreeAssumption, NodeNumbers
<1>1. TypeOK /\ Making /\ Budget
    BY DEF IInv
<1>2. ASSUME NEW t \in Threads, OpenChannel(t)
      PROVE  TypeOK'
    BY <1>1, <1>2 DEF TypeOK, OpenChannel, Create, treeVars, attachVars, Stages
<1>3. ASSUME NEW t \in Threads, Make(t)
      PROVE  TypeOK'
    <2>1. made + 1 \in Nodes /\ made + 1 \in 0 .. 3 * MaxChan
        BY <1>1, <1>3, RoomToMake DEF Make, Nodes
    <2>2. thread' \in [Threads -> [at : Stages, node : Nodes \cup {None}]]
        BY <1>1, <1>3, <2>1 DEF TypeOK, Make, Stages
    <2>3. state' \in [{Map} \cup Nodes -> States]
        BY <1>1, <1>3, <2>1 DEF TypeOK, Make, States
    <2> QED BY <1>1, <1>3, <2>1, <2>2, <2>3 DEF TypeOK, Make, attachVars
<1>4. ASSUME NEW t \in Threads, SetId(t)
      PROVE  TypeOK'
    <2>1. thread' \in [Threads -> [at : Stages, node : Nodes \cup {None}]]
        BY <1>1, <1>4 DEF TypeOK, SetId, Stages
    <2>2. id' \in [Nodes -> Nat]
        BY <1>1, <1>4 DEF TypeOK, SetId, SecondId
    <2> QED BY <1>1, <1>4, <2>1, <2>2
            DEF TypeOK, SetId, madeVars, treeVars, attachVars
<1>5. ASSUME NEW t \in Threads, Insert(t)
      PROVE  TypeOK'
    <2>1. thread' \in [Threads -> [at : Stages, node : Nodes \cup {None}]]
        BY <1>1, <1>5 DEF TypeOK, Insert, Stages
    <2>2. thread[t].node \in Nodes
        BY <1>1, <1>5 DEF TypeOK, Insert, Making
    <2>3. Components' \subseteq [key : Nat, com : Nodes]
        BY <1>1, <1>5, <2>2 DEF TypeOK, Insert
    <2> QED BY <1>1, <1>5, <2>1, <2>3
            DEF TypeOK, Insert, madeVars, treeVars, attachVars
<1>6. ASSUME NEW t \in Threads, Count(t)
      PROVE  TypeOK'
    <2>1. thread' \in [Threads -> [at : Stages, node : Nodes \cup {None}]]
        BY <1>1, <1>6 DEF TypeOK, Count, Stages
    <2>2. count' \in Nat
        BY <1>1, <1>6 DEF TypeOK, Count
    <2> QED BY <1>1, <1>6, <2>1, <2>2
            DEF TypeOK, Count, madeVars, treeVars, attachVars
<1>7. ASSUME NEW t \in Threads, Attach(t)
      PROVE  TypeOK'
    <2>1. thread' \in [Threads -> [at : Stages, node : Nodes \cup {None}]]
        BY <1>1, <1>7 DEF TypeOK, Attach, Stages
    <2>2. parent' \in [Nodes -> {Map, None} \cup Nodes]
        BY <1>1, <1>7 DEF TypeOK, Attach
    <2>3. torn' \subseteq IOThreads
        BY <1>1, <1>7 DEF TypeOK, Attach, Linking
    <2> QED BY <1>1, <1>7, <2>1, <2>2, <2>3
            DEF TypeOK, Attach, madeVars, tableVars
<1>8. ASSUME NEW t \in IOThreads, Link(t)
      PROVE  TypeOK'
    <2>1. thread' \in [Threads -> [at : Stages, node : Nodes \cup {None}]]
        BY <1>1, <1>8 DEF TypeOK, Link, Stages, Resting
    <2>2. thread[t].node \in Nodes
        BY <1>1, <1>8 DEF TypeOK, Link, Making, Threads
    <2>3. children' \in [{Map} \cup Nodes -> Seq(Nodes)]
        <3>1. children[Map] \in Seq(Nodes)
            BY <1>1 DEF TypeOK
        <3>2. Append(children[Map], thread[t].node) \in Seq(Nodes)
            BY <2>2, <3>1
        <3> QED BY <1>1, <1>8, <3>2 DEF TypeOK, Link
    <2>4. lost' \subseteq Nodes /\ channels' \subseteq Nodes
        BY <1>1, <1>8, <2>2 DEF TypeOK, Link
    <2> QED BY <1>1, <1>8, <2>1, <2>3, <2>4 DEF TypeOK, Link, madeVars, tableVars
<1>9. ASSUME Frame
      PROVE  TypeOK'
    BY <1>1, <1>9 DEF TypeOK, Frame, madeVars, tableVars, treeVars, attachVars
<1>10. ASSUME NEW x \in Tree, Updates(x, state[x]),
              NEW n \in Nodes \cup {None}, ComesToLoop(n)
       PROVE  loops' \in Seq([node : {Map} \cup Nodes,
                              next : Nodes \cup {None, Fresh}])
    <2> DEFINE Loops == [node : {Map} \cup Nodes, next : Nodes \cup {None, Fresh}]
    <2>1. loops \in Seq(Loops) /\ loops # <<>>
        BY <1>1, <1>10 DEF TypeOK, Updates
    <2>2. loops' = [loops EXCEPT ![Len(loops)] =
                        [loops[Len(loops)] EXCEPT !.next = n]]
        BY <1>10 DEF ComesToLoop
    <2>3. [loops[Len(loops)] EXCEPT !.next = n] \in Loops
        BY <1>1, <2>1, TopOfLoops DEF Top, Tree
    <2> HIDE DEF Loops
    <2>4. loops' \in Seq(Loops)
        BY <2>1, <2>2, <2>3
    <2> QED BY <2>4 DEF Loops
<1>11. ASSUME NEW x \in Tree, Tick(x)
       PROVE  TypeOK'
    <2>1. Begin(x) \in Nodes \cup {None}
        BY <1>1, BeginMember, MembersAt
    <2>2. state' \in [{Map} \cup Nodes -> States] /\ channels' \subseteq Nodes
        BY <1>1, <1>11 DEF TypeOK, Tick, States
    <2>3. loops' \in Seq([node : {Map} \cup Nodes,
                          next : Nodes \cup {None, Fresh}])
        BY <1>10, <1>11, <2>1 DEF Tick, Updates
    <2> QED BY <1>1, <1>11, <2>2, <2>3 DEF TypeOK, Tick, madeVars, tableVars
<1>12. ASSUME NEW x \in Tree, BeginPlay(x)
       PROVE  TypeOK'
    <2>1. Begin(x) \in Nodes \cup {None}
        BY <1>1, BeginMember, MembersAt
    <2>2. state' \in [{Map} \cup Nodes -> States]
        BY <1>1, <1>12 DEF TypeOK, BeginPlay, Begun, States
    <2>3. loops' \in Seq([node : {Map} \cup Nodes,
                          next : Nodes \cup {None, Fresh}])
        BY <1>10, <1>12, <2>1 DEF BeginPlay, Updates
    <2> QED BY <1>1, <1>12, <2>2, <2>3
            DEF TypeOK, BeginPlay, madeVars, tableVars, attachVars
<1>13. ASSUME NEW x \in Tree, MakeManager(x)
       PROVE  TypeOK'
    BY <1>1, <1>13
    DEF TypeOK, MakeManager, Create, madeVars, treeVars, attachVars, Stages, Threads
<1>14. ASSUME MakeMonster
       PROVE  TypeOK'
    <2>1. thread["game"].node \in Nodes
        BY <1>1, <1>14 DEF TypeOK, MakeMonster, Making, Threads
    <2> QED BY <1>1, <1>14, <2>1
            DEF TypeOK, MakeMonster, Create, madeVars, treeVars, attachVars,
                Stages, Threads
<1>15. ASSUME AttachManager
       PROVE  TypeOK'
    <2>1. thread["game"].node \in Nodes /\ manager \in Nodes
        BY <1>1, <1>15 DEF TypeOK, AttachManager, Making, Threads
    <2>2. Top.node \in Nodes /\ loops # <<>> /\ thread["game"].at # "idle"
        BY <1>1, <1>15, GameBegins DEF AttachManager
    <2>3. state' \in [{Map} \cup Nodes -> States]
        BY <1>1, <1>15 DEF TypeOK, AttachManager, Begun, States
    <2>4. parent' \in [Nodes -> {Map, None} \cup Nodes]
        BY <1>1, <1>15, <2>1, <2>2 DEF TypeOK, AttachManager
    <2>5. children' \in [{Map} \cup Nodes -> Seq(Nodes)]
        <3>1. <<thread["game"].node>> \in Seq(Nodes) /\ <<manager>> \in Seq(Nodes)
            BY <2>1
        <3> QED BY <1>1, <1>15, <3>1 DEF TypeOK, AttachManager
    <2>6. thread' \in [Threads -> [at : Stages, node : Nodes \cup {None}]]
        BY <1>1, <1>15 DEF TypeOK, AttachManager, Stages, Resting
    <2>7. loops' \in Seq([node : {Map} \cup Nodes,
                          next : Nodes \cup {None, Fresh}])
        <3> DEFINE Loops == [node : {Map} \cup Nodes,
                             next : Nodes \cup {None, Fresh}]
        <3>1. loops \in Seq(Loops)
            BY <1>1 DEF TypeOK
        <3>2. PICK l : l = [loops[Len(loops)] EXCEPT !.next = manager]
            OBVIOUS
        <3>3. loops' = [loops EXCEPT ![Len(loops)] = l]
            BY <1>15, <3>2 DEF AttachManager, ComesToLoop
        <3>4. l \in Loops
            BY <1>1, <2>1, <2>2, <3>2, TopOfLoops DEF Top, Tree
        <3> HIDE DEF Loops
        <3>5. loops' \in Seq(Loops)
            BY <2>2, <3>1, <3>3, <3>4
        <3> QED BY <3>5 DEF Loops
    <2> QED BY <1>1, <1>15, <2>3, <2>4, <2>5, <2>6, <2>7
            DEF TypeOK, AttachManager, madeVars, tableVars, attachVars
<1>16. ASSUME NEW x \in Tree, Remove(x)
       PROVE  TypeOK'
    <2>1. Begin(x) \in Nodes \cup {None}
        BY <1>1, BeginMember, MembersAt
    <2>2. loops' \in Seq([node : {Map} \cup Nodes,
                          next : Nodes \cup {None, Fresh}])
        BY <1>10, <1>16, <2>1 DEF Remove, Updates, LoopAfterRemove
    <2>3. children' \in [{Map} \cup Nodes -> Seq(Nodes)]
          /\ parent' \in [Nodes -> {Map, None} \cup Nodes]
          /\ torn' \subseteq IOThreads
        <3>1. CASE parent[x] = None
            BY <1>1, <1>16, <3>1 DEF TypeOK, Remove
        <3>2. CASE parent[x] # None
            <4>1. x \in Members(parent[x]) /\ parent[x] \in Tree
                BY <1>1, <1>16, <3>2, RemovesMember DEF IInv, Remove
            <4>2. Detached(parent[x], x) \in Seq(Nodes)
                BY <1>1, <4>1, DetachMembers DEF IInv, Lists
            <4>3. children' = [children EXCEPT ![parent[x]] =
                                  Detached(parent[x], x)]
                  /\ parent' = [parent EXCEPT ![x] = None]
                  /\ torn' \in {torn, torn \cup Linking}
                BY <1>16, <3>2 DEF Remove
            <4>4. children' \in [{Map} \cup Nodes -> Seq(Nodes)]
                BY <1>1, <4>2, <4>3 DEF TypeOK
            <4>5. parent' \in [Nodes -> {Map, None} \cup Nodes]
                BY <1>1, <4>3 DEF TypeOK
            <4>6. torn' \subseteq IOThreads
                BY <1>1, <4>3 DEF TypeOK, Linking
            <4> QED BY <4>4, <4>5, <4>6
        <3> QED BY <3>1, <3>2
    <2>4. Components' \subseteq [key : Nat, com : Nodes]
        BY <1>1, <1>16 DEF TypeOK, Remove
    <2> QED BY <1>1, <1>16, <2>2, <2>3, <2>4 DEF TypeOK, Remove, madeVars
<1>17. ASSUME Descend
       PROVE  TypeOK'
    <2> DEFINE Loops == [node : {Map} \cup Nodes, next : Nodes \cup {None, Fresh}]
    <2>1. Outer \in Seq(Loops) /\ Top \in Loops /\ Top.next \in Nodes
        BY <1>1, <1>17, TopOfLoops DEF Descend, Tree
    <2>2. Top.next \in Members(Top.node)
        BY <1>17, DescendsToMember DEF IInv
    <2>3. StepsTo(Top.node, Top.next) \in Nodes \cup {None}
        BY <1>1, <2>1, <2>2, FollowingMember, MembersAt
        DEF IInv, Lists, StepsTo, Tree
    <2>4. /\ [Top EXCEPT !.next = StepsTo(Top.node, Top.next)] \in Loops
          /\ [node |-> Top.next, next |-> Fresh] \in Loops
        BY <2>1, <2>3
    <2>5. loops' = Outer \o <<[Top EXCEPT !.next = StepsTo(Top.node, Top.next)],
                              [node |-> Top.next, next |-> Fresh]>>
        BY <1>17 DEF Descend
    <2> HIDE DEF Loops
    <2>6. loops' \in Seq(Loops)
        BY <2>1, <2>4, <2>5
    <2> QED BY <1>1, <1>17, <2>6
            DEF TypeOK, Descend, Loops, madeVars, tableVars, treeVars, attachVars
<1>18. ASSUME Return
       PROVE  TypeOK'
    BY <1>1, <1>18, TopOfLoops
    DEF TypeOK, Return, Tree, madeVars, tableVars, treeVars, attachVars
<1>19. ASSUME UNCHANGED vars
       PROVE  TypeOK'
    BY <1>1, <1>19
    DEF TypeOK, vars, madeVars, tableVars, treeVars, attachVars
<1> QED BY <1>2, <1>3, <1>4, <1>5, <1>6, <1>7, <1>8, <1>9, <1>11, <1>12, <1>13,
           <1>14, <1>15, <1>16, <1>17, <1>18, <1>19
        DEF Next, GameStep, Creates, Opens, Threads, Tree

-----------------------------------------------------------------------------
(* The threads. *)

\* What a step of an IO thread leaves to the game thread.
LEMMA GameUndisturbed ==
    ASSUME TypeOK, Making, UNCHANGED <<loops, manager>>,
           thread'["game"].at = "idle" <=> thread["game"].at = "idle",
           \A x \in Nodes : parent[x] = Map => parent'[x] = Map,
           \A x \in Nodes : state[x] = "Create" => state'[x] = "Create"
    PROVE  /\ thread'["game"].at # "idle" =>
                 /\ loops' # <<>>
                 /\ Top'.next = Fresh
                 /\ IsChannel(Top.node)'
                 /\ state'[Top'.node] = "Create"
           /\ manager' # None => thread'["game"].at # "idle"
<1>1. Top' = Top
    BY DEF Top
<1>2. CASE thread["game"].at = "idle"
    BY <1>2 DEF Making
<1>3. CASE thread["game"].at # "idle"
    <2>1. /\ loops # <<>> /\ Top.node \in Nodes /\ Top.next = Fresh
          /\ parent[Top.node] = Map /\ state[Top.node] = "Create"
        BY <1>3, GameBegins
    <2> QED BY <1>1, <1>3, <2>1 DEF IsChannel, Making
<1> QED BY <1>2, <1>3

\* A thread that changes its stage only, or ends.
LEMMA StageStep ==
    ASSUME TypeOK, Making, NEW t \in Threads, NEW at \in Stages,
           thread' = [thread EXCEPT ![t].at = at],
           at \in {"idle", "make"} <=> thread[t].at \in {"idle", "make"},
           t = "game" => thread[t].at # "idle" /\ at \notin {"idle", "link"},
           UNCHANGED <<loops, manager, state>>,
           \A x \in Nodes : parent[x] = Map => parent'[x] = Map
    PROVE  /\ Making'
           /\ \A u \in Threads : thread'[u].node = thread[u].node
           /\ \A u \in Threads \ {t} : thread'[u] = thread[u]
           /\ \A y : InTransit(y)' <=> InTransit(y)
<1>1. /\ \A u \in Threads : thread'[u].node = thread[u].node
      /\ \A u \in Threads \ {t} : thread'[u] = thread[u]
      /\ thread'[t].at = at
      /\ "game" \in Threads
    BY DEF TypeOK, Threads
<1>2. thread'["game"].at = "idle" <=> thread["game"].at = "idle"
    BY <1>1
<1>3. /\ thread'["game"].at # "idle" =>
             /\ loops' # <<>>
             /\ Top'.next = Fresh
             /\ IsChannel(Top.node)'
             /\ state'[Top'.node] = "Create"
      /\ manager' # None => thread'["game"].at # "idle"
    BY <1>2, GameUndisturbed
<1>4. \A u \in Threads :
          thread'[u].node = None <=> thread'[u].at \in {"idle", "make"}
    <2> TAKE u \in Threads
    <2>1. CASE u = t
        BY <1>1, <2>1 DEF Making
    <2>2. CASE u # t
        BY <1>1, <2>2 DEF Making
    <2> QED BY <2>1, <2>2
<1>5. thread'["game"].at # "link"
    BY <1>1 DEF Making
<1>6. Making'
    BY <1>1, <1>3, <1>4, <1>5 DEF Making
<1>7. \A y : InTransit(y)' <=> InTransit(y)
    BY <1>1 DEF InTransit
<1> QED BY <1>1, <1>6, <1>7

LEMMA SetIdStep ==
    ASSUME TypeOK, Making, NEW t \in Threads, SetId(t) \/ Insert(t) \/ Count(t)
    PROVE  /\ Making'
           /\ \A u \in Threads : thread'[u].node = thread[u].node
           /\ \A u \in Threads \ {t} : thread'[u] = thread[u]
           /\ \A y : InTransit(y)' <=> InTransit(y)
<1>1. PICK at \in {"insert", "count", "created"} :
          thread' = [thread EXCEPT ![t].at = at]
    BY DEF SetId, Insert, Count
<1>2. /\ at \in Stages \ {"idle", "make", "link"}
      /\ thread[t].at \notin {"idle", "make"}
      /\ UNCHANGED <<loops, manager, state, parent>>
    BY <1>1 DEF SetId, Insert, Count, Stages, treeVars
<1> QED BY <1>1, <1>2, StageStep

LEMMA AttachStep ==
    ASSUME TypeOK, Making, NEW t \in Threads, Attach(t)
    PROVE  /\ Making'
           /\ \A u \in Threads : thread'[u].node = thread[u].node
           /\ \A u \in Threads \ {t} : thread'[u] = thread[u]
           /\ \A y : InTransit(y)' <=> InTransit(y)
           /\ t # "game" /\ thread[t].node \in Nodes
<1>1. /\ thread' = [thread EXCEPT ![t].at = "link"] /\ "link" \in Stages
      /\ thread[t].at \notin {"idle", "make"} /\ t # "game"
      /\ UNCHANGED <<loops, manager, state>>
      /\ parent' = [parent EXCEPT ![thread[t].node] = Map]
    BY ComponentTreeAssumption DEF Attach, Stages
<1>2. thread[t].node \in Nodes
    BY <1>1 DEF TypeOK, Making
<1>3. \A x \in Nodes : parent[x] = Map => parent'[x] = Map
    BY <1>1, <1>2 DEF TypeOK
<1> QED BY <1>1, <1>2, <1>3, StageStep

LEMMA OpenStep ==
    ASSUME TypeOK, Making, NEW t \in Threads,
           thread[t].at = "idle",
           thread' = [thread EXCEPT ![t] = [at |-> "make", node |-> None]],
           UNCHANGED <<loops, manager, treeVars>>,
           t = "game" => /\ loops # <<>> /\ Top.next = Fresh
                         /\ IsChannel(Top.node) /\ state[Top.node] = "Create"
    PROVE  /\ Making'
           /\ \A u \in Threads : thread'[u].node = thread[u].node
           /\ \A u \in Threads \ {t} : thread'[u] = thread[u]
           /\ \A y : InTransit(y)' <=> InTransit(y)
<1>1. /\ \A u \in Threads \ {t} : thread'[u] = thread[u]
      /\ thread'[t] = [at |-> "make", node |-> None]
      /\ "game" \in Threads
      /\ thread[t].node = None
    BY DEF TypeOK, Threads, Making
<1>2. \A u \in Threads : thread'[u].node = thread[u].node
    BY <1>1
<1>3. /\ thread'["game"].at # "idle" =>
             /\ loops' # <<>>
             /\ Top'.next = Fresh
             /\ IsChannel(Top.node)'
             /\ state'[Top'.node] = "Create"
      /\ manager' # None => thread'["game"].at # "idle"
    <2>1. CASE t = "game"
        BY <1>1, <2>1 DEF Top, treeVars, IsChannel
    <2>2. CASE t # "game"
        BY <1>1, <2>2, GameUndisturbed DEF treeVars
    <2> QED BY <2>1, <2>2
<1>4. \A u \in Threads :
          thread'[u].node = None <=> thread'[u].at \in {"idle", "make"}
    <2> TAKE u \in Threads
    <2>1. CASE u = t
        BY <1>1, <2>1
    <2>2. CASE u # t
        BY <1>1, <2>2 DEF Making
    <2> QED BY <2>1, <2>2
<1>5. thread'["game"].at # "link"
    BY <1>1 DEF Making
<1>6. Making'
    BY <1>2, <1>3, <1>4, <1>5 DEF Making
<1>7. \A y : InTransit(y)' <=> InTransit(y)
    BY <1>2 DEF InTransit
<1> QED BY <1>1, <1>2, <1>6, <1>7

LEMMA MakeStep ==
    ASSUME TypeOK, Making, Unborn, Budget, NEW t \in Threads, Make(t)
    PROVE  /\ Making'
           /\ thread'[t] = [at |-> "id", node |-> made + 1]
           /\ made + 1 \in Nodes
           /\ \A u \in Threads \ {t} : thread'[u] = thread[u]
           /\ \A y \in Nodes : InTransit(y)' <=> y = made + 1 \/ InTransit(y)
<1> USE NodeNumbers
<1>1. /\ \A u \in Threads \ {t} : thread'[u] = thread[u]
      /\ thread'[t] = [at |-> "id", node |-> made + 1]
      /\ "game" \in Threads
      /\ thread[t].node = None /\ thread[t].at = "make"
    BY DEF TypeOK, Threads, Making, Make
<1>2. made + 1 \in Nodes
    BY <1>1, RoomToMake
<1>3. state[made + 1] = "none" /\ ~InTransit(made + 1)
    <2>1. made + 1 > made
        BY DEF TypeOK
    <2> QED BY <1>2, <2>1 DEF Unborn
<1>4. /\ thread'["game"].at # "idle" =>
             /\ loops' # <<>>
             /\ Top'.next = Fresh
             /\ IsChannel(Top.node)'
             /\ state'[Top'.node] = "Create"
      /\ manager' # None => thread'["game"].at # "idle"
    <2>1. thread'["game"].at = "idle" <=> thread["game"].at = "idle"
        BY <1>1
    <2>2. \A x \in Nodes : state[x] = "Create" => state'[x] = "Create"
        BY <1>2 DEF TypeOK, Make
    <2>3. UNCHANGED <<loops, manager, parent>>
        BY DEF Make
    <2> QED BY <2>1, <2>2, <2>3, GameUndisturbed
<1>5. \A u \in Threads :
          thread'[u].node = None <=> thread'[u].at \in {"idle", "make"}
    <2> TAKE u \in Threads
    <2>1. CASE u = t
        BY <1>1, <1>2, <2>1
    <2>2. CASE u # t
        BY <1>1, <2>2 DEF Making
    <2> QED BY <2>1, <2>2
<1>6. thread'["game"].at # "link"
    BY <1>1 DEF Making
<1>7. \A u \in Threads : thread[u].node # made + 1
    BY <1>3 DEF InTransit
<1>8. \A u, v \in Threads :
          thread'[u].node = thread'[v].node => u = v \/ thread'[u].node = None
    BY <1>1, <1>7 DEF Making
<1>9. manager' = manager /\ manager # made + 1
    BY <1>3 DEF Make, InTransit
<1>10. \A u \in Threads : thread'[u].node = manager' => manager' = None
    BY <1>1, <1>9 DEF Making
<1>11. Making'
    BY <1>4, <1>5, <1>6, <1>8, <1>10 DEF Making
<1>12. ASSUME NEW y \in Nodes PROVE InTransit(y)' <=> y = made + 1 \/ InTransit(y)
    <2>1. y # None
        OBVIOUS
    <2> QED BY <1>1, <1>9, <2>1 DEF InTransit
<1> QED BY <1>1, <1>2, <1>11, <1>12

LEMMA LinkStep ==
    ASSUME TypeOK, Making, NEW t \in IOThreads, Link(t)
    PROVE  /\ Making'
           /\ thread[t].node \in Nodes
           /\ thread'[t] = Resting
           /\ \A u \in Threads \ {t} : thread'[u] = thread[u]
           /\ \A y \in Nodes :
                 InTransit(y)' <=> InTransit(y) /\ y # thread[t].node
<1> USE NodeNumbers
<1>1. /\ \A u \in Threads \ {t} : thread'[u] = thread[u]
      /\ thread'[t] = Resting
      /\ "game" \in Threads /\ t \in Threads /\ t # "game"
      /\ thread[t].node \in Nodes
    BY ComponentTreeAssumption DEF TypeOK, Threads, Making, Link
<1>2. /\ thread'["game"].at # "idle" =>
             /\ loops' # <<>>
             /\ Top'.next = Fresh
             /\ IsChannel(Top.node)'
             /\ state'[Top'.node] = "Create"
      /\ manager' # None => thread'["game"].at # "idle"
    BY <1>1, GameUndisturbed DEF Link
<1>3. \A u \in Threads :
          thread'[u].node = None <=> thread'[u].at \in {"idle", "make"}
    <2> TAKE u \in Threads
    <2>1. CASE u = t
        BY <1>1, <2>1 DEF Resting
    <2>2. CASE u # t
        BY <1>1, <2>2 DEF Making
    <2> QED BY <2>1, <2>2
<1>4. thread'["game"].at # "link"
    BY <1>1 DEF Making
<1>5. \A u, v \in Threads :
          thread'[u].node = thread'[v].node => u = v \/ thread'[u].node = None
    BY <1>1 DEF Making, Resting
<1>6. manager' = manager
    BY DEF Link
<1>7. \A u \in Threads : thread'[u].node = manager' => manager' = None
    BY <1>1, <1>6 DEF Making, Resting
<1>8. Making'
    BY <1>2, <1>3, <1>4, <1>5, <1>7 DEF Making
<1>9. ASSUME NEW y \in Nodes
      PROVE  InTransit(y)' <=> InTransit(y) /\ y # thread[t].node
    <2>1. y # None /\ thread'[t].node = None
        BY <1>1 DEF Resting
    <2>2. \A u \in Threads \ {t} : thread[u].node # thread[t].node
        BY <1>1 DEF Making
    <2>3. manager # thread[t].node
        BY <1>1 DEF Making
    <2> QED BY <1>1, <1>6, <2>1, <2>2, <2>3 DEF InTransit
<1> QED BY <1>1, <1>8, <1>9

LEMMA MonsterStep ==
    ASSUME TypeOK, Making, MakeMonster
    PROVE  /\ Making'
           /\ thread'["game"] = [at |-> "make", node |-> None]
           /\ thread["game"].at = "created"
           /\ manager' = thread["game"].node /\ manager = None
           /\ thread["game"].node \in Nodes
           /\ \A u \in Threads \ {"game"} : thread'[u] = thread[u]
           /\ \A y \in Nodes : InTransit(y)' <=> InTransit(y)
<1> USE NodeNumbers
<1>1. /\ \A u \in Threads \ {"game"} : thread'[u] = thread[u]
      /\ thread'["game"] = [at |-> "make", node |-> None]
      /\ "game" \in Threads
      /\ thread["game"].node \in Nodes /\ thread["game"].at = "created"
      /\ manager' = thread["game"].node /\ manager = None
    BY DEF TypeOK, Threads, Making, MakeMonster, Create
<1>2. /\ loops' # <<>>
      /\ Top'.next = Fresh
      /\ IsChannel(Top.node)'
      /\ state'[Top'.node] = "Create"
    BY <1>1 DEF Making, MakeMonster, Top, treeVars, IsChannel
<1>3. \A u \in Threads :
          thread'[u].node = None <=> thread'[u].at \in {"idle", "make"}
    <2> TAKE u \in Threads
    <2>1. CASE u = "game"
        BY <1>1, <2>1
    <2>2. CASE u # "game"
        BY <1>1, <2>2 DEF Making
    <2> QED BY <2>1, <2>2
<1>4. \A u, v \in Threads :
          thread'[u].node = thread'[v].node => u = v \/ thread'[u].node = None
    BY <1>1 DEF Making
<1>5. \A u \in Threads : thread'[u].node = manager' => manager' = None
    BY <1>1 DEF Making
<1>6. Making'
    BY <1>1, <1>2, <1>3, <1>4, <1>5 DEF Making
<1>7. ASSUME NEW y \in Nodes PROVE InTransit(y)' <=> InTransit(y)
    <2>1. y # None
        OBVIOUS
    <2> QED BY <1>1, <2>1 DEF InTransit
<1> QED BY <1>1, <1>6, <1>7

LEMMA AttachManagerStep ==
    ASSUME TypeOK, Making, AttachManager
    PROVE  /\ Making'
           /\ thread'["game"] = Resting /\ manager' = None
           /\ thread["game"].node \in Nodes /\ manager \in Nodes
           /\ manager # thread["game"].node
           /\ \A u \in Threads \ {"game"} :
                 /\ thread'[u] = thread[u]
                 /\ thread[u].node \notin {manager, thread["game"].node}
           /\ \A y \in Nodes :
                 InTransit(y)' <=>
                     InTransit(y) /\ y # manager /\ y # thread["game"].node
<1> USE NodeNumbers
<1>1. /\ \A u \in Threads \ {"game"} : thread'[u] = thread[u]
      /\ thread'["game"] = Resting /\ manager' = None
      /\ "game" \in Threads
      /\ thread["game"].node \in Nodes
      /\ manager \in Nodes
    BY DEF TypeOK, Threads, Making, AttachManager
<1>2. manager # thread["game"].node
    BY <1>1 DEF Making
<1>3. \A u \in Threads \ {"game"} :
          thread[u].node \notin {manager, thread["game"].node}
    BY <1>1 DEF Making
<1>4. \A u \in Threads :
          thread'[u].node = None <=> thread'[u].at \in {"idle", "make"}
    <2> TAKE u \in Threads
    <2>1. CASE u = "game"
        BY <1>1, <2>1 DEF Resting
    <2>2. CASE u # "game"
        BY <1>1, <2>2 DEF Making
    <2> QED BY <2>1, <2>2
<1>5. \A u, v \in Threads :
          thread'[u].node = thread'[v].node => u = v \/ thread'[u].node = None
    BY <1>1 DEF Making, Resting
<1>6. Making'
    BY <1>1, <1>4, <1>5 DEF Making, Resting
<1>7. ASSUME NEW y \in Nodes
      PROVE  InTransit(y)' <=>
                 InTransit(y) /\ y # manager /\ y # thread["game"].node
    <2>1. y # None
        OBVIOUS
    <2> QED BY <1>1, <1>2, <1>3, <2>1 DEF InTransit, Resting
<1> QED BY <1>1, <1>2, <1>3, <1>6, <1>7

\* The walk goes on only while the game thread makes nothing.
LEMMA WalkStep ==
    ASSUME TypeOK, Making,
           \/ Frame \/ Descend \/ Return
           \/ \E x \in Tree : Tick(x) \/ BeginPlay(x) \/ Remove(x)
    PROVE  /\ Making'
           /\ thread["game"].at = "idle"
           /\ UNCHANGED <<thread, manager>>
           /\ \A y : InTransit(y)' <=> InTransit(y)
<1>1. UNCHANGED <<thread, manager>>
    BY DEF Frame, Descend, Return, Tick, BeginPlay, Remove
<1>2. thread["game"].at = "idle"
    <2>1. CASE Frame
        BY <2>1 DEF Frame, Making
    <2>2. CASE Descend \/ Return
        BY <2>2, NodeNumbers DEF Descend, Return, Making
    <2>3. CASE \E x \in Tree : Tick(x) \/ BeginPlay(x) \/ Remove(x)
        BY <2>3 DEF Tick, BeginPlay, Remove, Updates
    <2> QED BY <2>1, <2>2, <2>3
<1>3. Making'
    BY <1>1, <1>2 DEF Making
<1> QED BY <1>1, <1>2, <1>3 DEF InTransit

LEMMA MakingStep ==
    ASSUME IInv, [Next]_vars
    PROVE  Making'
<1>1. TypeOK /\ Making /\ Unborn /\ Budget
    BY DEF IInv
<1>2. ASSUME NEW t \in Threads, OpenChannel(t)
      PROVE  Making'
    <2>1. t # "game"
        BY <1>2, ComponentTreeAssumption DEF OpenChannel
    <2> QED BY <1>1, <1>2, <2>1, OpenStep DEF OpenChannel, Create
<1>3. ASSUME NEW x \in Tree, MakeManager(x)
      PROVE  Making'
    <2>1. /\ "game" \in Threads /\ thread["game"].at = "idle"
          /\ loops # <<>> /\ Top.node = x /\ Top.next = Fresh
          /\ IsChannel(x) /\ state[x] = "Create"
        BY <1>3 DEF MakeManager, Updates, Threads
    <2> QED BY <1>1, <1>3, <2>1, OpenStep DEF MakeManager, Create
<1>4. ASSUME UNCHANGED vars
      PROVE  Making'
    BY <1>1, <1>4 DEF vars, treeVars, Making, Top, IsChannel
<1> QED BY <1>1, <1>2, <1>3, <1>4, SetIdStep, AttachStep, MakeStep, LinkStep,
           MonsterStep, AttachManagerStep, WalkStep
        DEF Next, GameStep, Creates, Opens, Threads, Tree

-----------------------------------------------------------------------------
(* The tree. *)

TreeInv == Unborn /\ Transit /\ Lists /\ Family

\* Steps that leave the tree alone.
LEMMA QuietTree ==
    ASSUME TypeOK, TreeInv,
           UNCHANGED <<made, state, parent, children, channels>>,
           \A y \in Nodes : InTransit(y)' <=> InTransit(y),
           \A t \in Threads :
               thread'[t].node # None =>
                   /\ thread'[t].node = thread[t].node
                   /\ thread'[t].at = "link" <=> thread[t].at = "link",
           manager' # None => \/ manager' = manager
                              \/ \E t \in Threads : /\ manager' = thread[t].node
                                                    /\ thread[t].at # "link"
    PROVE  TreeInv'
<1> USE NodeNumbers
<1>1. \A p : Members(p)' = Members(p)
    BY DEF Members
<1>2. \A p \in Tree : Members(p) \subseteq Nodes
    BY MembersAt
<1>3. channels \subseteq Nodes
    BY DEF TypeOK
<1>4. Unborn'
    BY DEF TreeInv, Unborn
<1>5. Transit'
    BY DEF TreeInv, Transit
<1>6. Lists'
    BY <1>1, <1>2 DEF TreeInv, Lists
<1>7. Family'
    BY <1>3 DEF TreeInv, Family
<1> QED BY <1>4, <1>5, <1>6, <1>7 DEF TreeInv

LEMMA MakeInTree ==
    ASSUME TypeOK, Making, Budget, TreeInv, NEW t \in Threads, Make(t)
    PROVE  TreeInv'
<1> USE NodeNumbers
<1> DEFINE n == made + 1
<1>1. /\ thread'[t] = [at |-> "id", node |-> n]
      /\ n \in Nodes
      /\ \A u \in Threads \ {t} : thread'[u] = thread[u]
      /\ \A y \in Nodes : InTransit(y)' <=> y = n \/ InTransit(y)
    BY MakeStep DEF TreeInv
<1>2. /\ made' = n /\ made \in Nat
      /\ \A y \in Tree \ {n} : state'[y] = state[y]
      /\ state'[n] = "Create"
      /\ UNCHANGED <<parent, children, channels, manager>>
    BY <1>1 DEF TypeOK, Make, attachVars, Tree
<1>3. state[n] = "none" /\ parent[n] = None /\ ~InTransit(n)
    <2>1. n > made
        BY <1>2
    <2> QED BY <1>1, <2>1 DEF TreeInv, Unborn
<1>4. children[n] = <<>>
    BY <1>1, <1>3 DEF TreeInv, Family
<1>5. \A p : Members(p)' = Members(p)
    BY <1>2 DEF Members
<1>6. \A p \in Tree : Members(p) \subseteq Nodes /\ n \notin Members(p)
    BY <1>3, MembersAt DEF TreeInv, Lists
<1>7. \A y \in Nodes : y > n <=> y > made /\ y # n
    BY <1>2
<1> HIDE DEF n
<1>8. Unborn'
    <2> SUFFICES ASSUME NEW x \in Nodes
                 PROVE  /\ x > made' <=> state'[x] = "none"
                        /\ x > made' => parent'[x] = None /\ ~InTransit(x)'
        BY DEF Unborn
    <2>1. x > made' <=> x > made /\ x # n
        BY <1>2, <1>7
    <2>2. CASE x = n
        BY <1>2, <2>1, <2>2
    <2>3. CASE x # n
        BY <1>1, <1>2, <2>1, <2>3 DEF TreeInv, Unborn, Tree
    <2> QED BY <2>2, <2>3
<1>9. Transit'
    <2>1. \A x \in Nodes : InTransit(x)' => state'[x] = "Create"
        BY <1>1, <1>2 DEF TreeInv, Transit, Tree
    <2>2. \A u \in Threads :
              thread'[u].node # None =>
                  parent'[thread'[u].node] =
                      IF thread'[u].at = "link" THEN Map ELSE None
        <3> TAKE u \in Threads
        <3>1. CASE u = t
            BY <1>1, <1>2, <1>3, <3>1
        <3>2. CASE u # t
            BY <1>1, <1>2, <3>2 DEF TreeInv, Transit
        <3> QED BY <3>1, <3>2
    <2>3. manager' # None => parent'[manager'] = None
        BY <1>2 DEF TreeInv, Transit
    <2> QED BY <2>1, <2>2, <2>3 DEF Transit
<1>10. Lists'
    <2>1. \A p \in Tree : \A x \in Members(p) :
              parent'[x] = p /\ state'[x] # "none" /\ ~InTransit(x)'
        <3> TAKE p \in Tree
        <3> TAKE x \in Members(p)
        <3>1. x \in Nodes /\ x # n
            BY <1>6
        <3>2. parent[x] = p /\ state[x] # "none" /\ ~InTransit(x)
            BY DEF TreeInv, Lists
        <3>3. state'[x] = state[x]
            BY <1>2, <3>1 DEF Tree
        <3> QED BY <1>1, <1>2, <3>1, <3>2, <3>3
    <2> QED BY <1>2, <1>5, <2>1 DEF TreeInv, Lists
<1>11. Family'
    <2>1. state'[Map] = "Alive"
        BY <1>1, <1>2 DEF TreeInv, Family, Tree
    <2>2. \A x \in Nodes :
              state'[x] \in {"none", "Create"} /\ parent'[x] \notin Nodes =>
                  children'[x] = <<>>
        BY <1>2, <1>4 DEF TreeInv, Family, Tree
    <2>3. \A x \in Nodes :
              parent'[x] = None /\ state'[x] \in {"Create", "Alive"}
                  => InTransit(x)'
        BY <1>1, <1>2 DEF TreeInv, Family, Tree
    <2>4. \A x \in Nodes :
              parent'[x] \in Nodes /\ state'[parent'[x]] = "Destroy" =>
                  state'[x] = "Destroy"
        BY <1>2, <1>3 DEF TreeInv, Family, Tree
    <2>5. \A x \in Nodes :
              parent'[x] \in Nodes /\ parent'[parent'[x]] \in Nodes =>
                  children'[x] = <<>>
        BY <1>2 DEF TreeInv, Family
    <2>6. \A c \in channels' :
              /\ state'[c] # "none" /\ ~InTransit(c)'
              /\ state'[c] = "Destroy" \/ parent'[c] = Map
        <3> TAKE c \in channels'
        <3>1. c \in Nodes /\ c # n
            BY <1>2, <1>3 DEF TypeOK, TreeInv, Family
        <3> QED BY <1>1, <1>2, <3>1 DEF TreeInv, Family, Tree
    <2> QED BY <2>1, <2>2, <2>3, <2>4, <2>5, <2>6 DEF Family
<1> QED BY <1>8, <1>9, <1>10, <1>11 DEF TreeInv

LEMMA AttachInTree ==
    ASSUME TypeOK, Making, TreeInv, NEW t \in Threads, Attach(t)
    PROVE  TreeInv'
<1> USE NodeNumbers
<1> DEFINE n == thread[t].node
<1>1. /\ n \in Nodes /\ t # "game"
      /\ thread[t].at = "created" /\ thread'[t].at = "link"
      /\ \A u \in Threads : thread'[u].node = thread[u].node
      /\ \A u \in Threads \ {t} : thread'[u] = thread[u]
      /\ \A y : InTransit(y)' <=> InTransit(y)
    <2>1. thread' = [thread EXCEPT ![t].at = "link"] /\ thread[t].at = "created"
        BY DEF Attach
    <2>2. thread'[t].at = "link"
        BY <2>1 DEF TypeOK
    <2> QED BY <2>1, <2>2, AttachStep
<1>2. /\ \A y \in Nodes \ {n} : parent'[y] = parent[y]
      /\ parent'[n] = Map
      /\ UNCHANGED <<made, state, children, channels, manager>>
    BY <1>1 DEF TypeOK, Attach, madeVars
<1>3. InTransit(n) /\ state[n] = "Create" /\ parent[n] = None
    BY <1>1 DEF TreeInv, Transit, InTransit
<1>4. children[n] = <<>>
    BY <1>1, <1>3 DEF TreeInv, Family
<1>5. \A p : Members(p)' = Members(p)
    BY <1>2 DEF Members
<1>6. \A p \in Tree : Members(p) \subseteq Nodes /\ n \notin Members(p)
    BY <1>3, MembersAt DEF TreeInv, Lists
<1>7. /\ \A u \in Threads \ {t} : thread[u].node # n
      /\ manager # n
    BY <1>1 DEF Making
<1>8. made \in Nat /\ manager \in Nodes \cup {None}
      /\ \A u \in Threads : thread[u].node \in Nodes \cup {None}
    BY DEF TypeOK
<1> HIDE DEF n
<1>9. Unborn'
    BY <1>1, <1>2, <1>3 DEF TreeInv, Unborn
<1>10. Transit'
    <2>1. \A u \in Threads :
              thread'[u].node # None =>
                  parent'[thread'[u].node] =
                      IF thread'[u].at = "link" THEN Map ELSE None
        <3> TAKE u \in Threads
        <3>1. CASE u = t
            BY <1>1, <1>2, <3>1 DEF n
        <3>2. CASE u # t
            <4>1. thread'[u] = thread[u] /\ thread[u].node # n
                BY <1>1, <1>7, <3>2
            <4>2. thread[u].node # None =>
                      parent'[thread[u].node] = parent[thread[u].node]
                BY <1>2, <1>8, <4>1
            <4> QED BY <4>1, <4>2 DEF TreeInv, Transit
        <3> QED BY <3>1, <3>2
    <2>2. manager' # None => parent'[manager'] = None
        BY <1>2, <1>7, <1>8 DEF TreeInv, Transit
    <2> QED BY <1>1, <1>2, <2>1, <2>2 DEF TreeInv, Transit
<1>11. Lists'
    <2>1. \A p \in Tree : \A x \in Members(p) : parent'[x] = p
        BY <1>2, <1>6 DEF TreeInv, Lists
    <2>2. \A x \in Nodes : parent'[x] \in Nodes => x \in Members(parent'[x])
        BY <1>2 DEF TreeInv, Lists
    <2> QED BY <1>1, <1>2, <1>5, <2>1, <2>2 DEF TreeInv, Lists
<1>12. Family'
    <2>1. \A x \in Nodes :
              state'[x] \in {"none", "Create"} /\ parent'[x] \notin Nodes =>
                  children'[x] = <<>>
        BY <1>2, <1>4 DEF TreeInv, Family
    <2>2. \A x \in Nodes :
              parent'[x] = None /\ state'[x] \in {"Create", "Alive"}
                  => InTransit(x)'
        BY <1>1, <1>2 DEF TreeInv, Family
    <2>3. \A x \in Nodes :
              parent'[x] \in Nodes /\ state'[parent'[x]] = "Destroy" =>
                  state'[x] = "Destroy"
        BY <1>2 DEF TreeInv, Family
    <2>4. \A x \in Nodes :
              parent'[x] \in Nodes /\ parent'[parent'[x]] \in Nodes =>
                  children'[x] = <<>>
        BY <1>2 DEF TreeInv, Family
    <2>5. \A c \in channels' :
              /\ state'[c] # "none" /\ ~InTransit(c)'
              /\ state'[c] = "Destroy" \/ parent'[c] = Map
        <3> TAKE c \in channels'
        <3>1. c \in Nodes /\ c # n
            BY <1>2, <1>3 DEF TypeOK, TreeInv, Family
        <3> QED BY <1>1, <1>2, <3>1 DEF TreeInv, Family
    <2> QED BY <1>2, <2>1, <2>2, <2>3, <2>4, <2>5 DEF TreeInv, Family
<1> QED BY <1>9, <1>10, <1>11, <1>12 DEF TreeInv

LEMMA LinkInTree ==
    ASSUME TypeOK, Making, TreeInv, NEW t \in IOThreads, Link(t)
    PROVE  TreeInv'
<1> USE NodeNumbers
<1> DEFINE n == thread[t].node
<1>1. /\ n \in Nodes /\ t \in Threads
      /\ thread[t].at = "link" /\ thread'[t].node = None
      /\ \A u \in Threads \ {t} : thread'[u] = thread[u]
      /\ \A y \in Nodes : InTransit(y)' <=> InTransit(y) /\ y # n
    <2>1. thread[t].at = "link" /\ t \in Threads /\ Resting.node = None
        BY DEF Link, Threads, Resting
    <2> QED BY <2>1, LinkStep
<1>2. /\ UNCHANGED <<made, state, parent, manager>>
      /\ channels' = channels \cup {n}
      /\ \/ children' = children
         \/ children' = [children EXCEPT ![Map] = Append(children[Map], n)]
    BY DEF Link, madeVars
<1>3. InTransit(n) /\ state[n] = "Create" /\ parent[n] = Map
    BY <1>1 DEF TreeInv, Transit, InTransit
<1>4. Map \in Tree /\ children[Map] \in Seq(Nodes)
    BY DEF TypeOK, Tree
<1>5. n \notin Members(Map)
    BY <1>3, <1>4 DEF TreeInv, Lists
<1>6. /\ \A p \in Tree \ {Map} : children'[p] = children[p]
      /\ \A y : y \in Members(Map)' => y = n \/ y \in Members(Map)
      /\ \A i, j \in DOMAIN children'[Map] :
             children'[Map][i] = children'[Map][j] => i = j
    <2>1. CASE children' = children
        BY <1>4, <2>1 DEF Members, TreeInv, Lists
    <2>2. CASE children' = [children EXCEPT ![Map] = Append(children[Map], n)]
        <3>1. /\ children'[Map] = Append(children[Map], n)
              /\ \A p \in Tree \ {Map} : children'[p] = children[p]
            BY <2>2 DEF TypeOK, Tree
        <3>2. \A i, j \in DOMAIN children[Map] :
                  children[Map][i] = children[Map][j] => i = j
            BY <1>4 DEF TreeInv, Lists
        <3>3. n \notin Range(children[Map])
            BY <1>5 DEF Members
        <3> HIDE DEF n
        <3>4. /\ \A y : y \in Range(Append(children[Map], n))
                           => y = n \/ y \in Range(children[Map])
              /\ \A i, j \in DOMAIN Append(children[Map], n) :
                     Append(children[Map], n)[i] = Append(children[Map], n)[j]
                         => i = j
            BY <1>1, <1>4, <3>2, <3>3, AppendMembers
        <3> QED BY <3>1, <3>4 DEF Members
    <2> QED BY <1>2, <2>1, <2>2
<1>7. \A p \in Tree \ {Map} : Members(p)' = Members(p)
    BY <1>6 DEF Members
<1>8. \A p \in Tree : Members(p) \subseteq Nodes
    BY MembersAt
<1>9. /\ \A y \in Nodes : children'[y] = children[y]
      /\ \A u \in Threads : thread[u].node \in Nodes \cup {None}
      /\ manager \in Nodes \cup {None}
      /\ \A y \in Nodes : y \in Tree \ {Map}
    BY <1>6 DEF Tree, TypeOK
<1> HIDE DEF n
<1>10. Unborn'
    BY <1>1, <1>2 DEF TreeInv, Unborn
<1>11. Transit'
    <2>1. \A u \in Threads :
              thread'[u].node # None => u # t /\ thread'[u] = thread[u]
        BY <1>1
    <2> QED BY <1>1, <1>2, <2>1 DEF TreeInv, Transit
<1>12. Lists'
    <2>1. ASSUME NEW p \in Tree, NEW x \in Members(p)'
          PROVE  parent'[x] = p /\ state'[x] # "none" /\ ~InTransit(x)'
        <3>1. CASE p = Map /\ x = n
            BY <1>1, <1>2, <1>3, <3>1
        <3>2. CASE x \in Members(p)
            BY <1>1, <1>2, <1>8, <3>2 DEF TreeInv, Lists
        <3> QED BY <1>6, <1>7, <2>1, <3>1, <3>2
    <2>2. \A p \in Tree : \A i, j \in DOMAIN children'[p] :
              children'[p][i] = children'[p][j] => i = j
        BY <1>6 DEF TreeInv, Lists
    <2>3. \A x \in Nodes :
              parent'[x] \in Nodes => x \in Range(children'[parent'[x]])
        BY <1>2, <1>9 DEF TreeInv, Lists, Members
    <2> QED BY <2>1, <2>2, <2>3 DEF Lists, Members
<1>13. Family'
    <2>1. \A x \in Nodes :
              parent'[x] = None /\ state'[x] \in {"Create", "Alive"}
                  => InTransit(x)'
        BY <1>1, <1>2, <1>3 DEF TreeInv, Family
    <2>2. \A c \in channels' :
              /\ state'[c] # "none" /\ ~InTransit(c)'
              /\ state'[c] = "Destroy" \/ parent'[c] = Map
        <3> TAKE c \in channels'
        <3>1. CASE c = n
            BY <1>1, <1>2, <1>3, <3>1
        <3>2. CASE c \in channels
            BY <1>1, <1>2, <3>2 DEF TypeOK, TreeInv, Family
        <3> QED BY <1>2, <3>1, <3>2
    <2> QED BY <1>2, <1>9, <2>1, <2>2 DEF TreeInv, Family
<1> QED BY <1>10, <1>11, <1>12, <1>13 DEF TreeInv

\* Distroy reaches everything below: what has a destroyed parent is destroyed.
LEMMA TickInTree ==
    ASSUME TypeOK, Making, TreeInv, NEW x \in Tree, Tick(x)
    PROVE  /\ TreeInv'
           /\ \A y \in Tree : state'[y] \in {state[y], "Destroy"}
           /\ \A y \in Nodes : state[y] \in {"none", "Create"} /\ parent[y] = None
                                  => state'[y] = state[y]
<1> USE NodeNumbers
<1>1. /\ \A y : InTransit(y)' <=> InTransit(y)
      /\ UNCHANGED <<thread, manager, made, parent, children>>
    BY WalkStep DEF Tick, madeVars
<1>2. PICK doomed \in SUBSET channels :
          /\ channels' = channels \ doomed
          /\ state' = [y \in DOMAIN state |->
                IF \E c \in doomed : y \in Distroy(c) THEN "Destroy"
                ELSE state[y]]
    BY DEF Tick
<1>3. DOMAIN state = Tree
    BY DEF TypeOK, Tree
<1>4. /\ \A p : Members(p)' = Members(p)
      /\ \A p \in Tree : Members(p) \subseteq Nodes
      /\ channels \subseteq Nodes
      /\ \A u \in Threads : thread[u].node \in Nodes \cup {None}
    BY <1>1, MembersAt DEF Members, TypeOK
<1>5. ASSUME NEW c \in doomed, NEW y \in Distroy(c)
      PROVE  /\ y \in Nodes /\ state[y] # "none" /\ ~InTransit(y)
             /\ state[y] = "Destroy" \/ parent[y] # None
             /\ \A z \in Nodes : parent[z] = y => z \in Distroy(c)
    <2>1. c \in channels /\ c \in Nodes /\ c \in Tree
        BY <1>4 DEF Tree
    <2>2. /\ state[c] # "none" /\ ~InTransit(c)
          /\ state[c] = "Destroy" \/ parent[c] # None
        BY <2>1 DEF TreeInv, Family
    <2>3. \A z \in Nodes : parent[z] \in Nodes => z \in Members(parent[z])
        BY DEF TreeInv, Lists
    <2>4. CASE y = c
        BY <2>1, <2>2, <2>3, <2>4 DEF Distroy
    <2>5. ASSUME NEW p \in Nodes, y \in Members(p)
          PROVE  /\ y \in Nodes /\ state[y] # "none" /\ ~InTransit(y)
                 /\ parent[y] = p
        BY <1>4, <2>5 DEF TreeInv, Lists, Tree
    <2>6. CASE y \in Members(c)
        <3>1. \A z \in Nodes : parent[z] = y => z \in Members(y)
            BY <2>1, <2>3, <2>5, <2>6
        <3> QED BY <2>1, <2>5, <2>6, <3>1 DEF Distroy
    <2>7. CASE \E q \in Members(c) : y \in Members(q)
        <3>1. PICK q \in Members(c) : y \in Members(q)
            BY <2>7
        <3>2. q \in Nodes /\ parent[q] = c
            BY <1>4, <2>1, <3>1 DEF TreeInv, Lists
        <3>3. /\ y \in Nodes /\ state[y] # "none" /\ ~InTransit(y)
              /\ parent[y] = q
            BY <2>5, <3>1, <3>2
        <3>4. children[y] = <<>>
            BY <2>1, <3>2, <3>3 DEF TreeInv, Family
        <3>5. Members(y) = {}
            BY <3>3, <3>4, MembersAt DEF Tree
        <3>6. \A z \in Nodes : parent[z] # y
            BY <2>3, <3>3, <3>5
        <3> QED BY <3>2, <3>3, <3>6
    <2> QED BY <2>4, <2>6, <2>7 DEF Distroy
<1>6. /\ \A y \in Tree : state'[y] \in {state[y], "Destroy"}
      /\ \A y \in Tree : state'[y] # state[y] =>
            /\ y \in Nodes /\ state[y] # "none" /\ ~InTransit(y)
            /\ parent[y] # None
            /\ \A z \in Nodes : parent[z] = y => state'[z] = "Destroy"
    <2>1. ASSUME NEW y \in Tree, state'[y] # state[y]
          PROVE  /\ y \in Nodes /\ state[y] # "none" /\ ~InTransit(y)
                 /\ parent[y] # None
                 /\ \A z \in Nodes : parent[z] = y => state'[z] = "Destroy"
        <3>1. state[y] # "Destroy" /\ \E c \in doomed : y \in Distroy(c)
            BY <1>2, <1>3, <2>1
        <3>2. PICK c \in doomed : y \in Distroy(c)
            BY <3>1
        <3>3. \A z \in Distroy(c) : z \in Nodes /\ z \in Tree
            BY <1>5 DEF Tree
        <3>4. \A z \in Distroy(c) : state'[z] = "Destroy"
            BY <1>2, <1>3, <3>3
        <3> QED BY <1>5, <3>1, <3>2, <3>4
    <2> QED BY <1>2, <1>3, <2>1
<1>7. state[Map] = "Alive" /\ Map \in Tree
    BY DEF TreeInv, Family, Tree
<1>8. Unborn'
    <2>1. \A y \in Nodes : state'[y] = "none" <=> state[y] = "none"
        BY <1>6 DEF Tree
    <2> QED BY <1>1, <2>1 DEF TreeInv, Unborn
<1>9. Transit'
    <2>1. \A y \in Nodes : InTransit(y) => state'[y] = state[y]
        BY <1>6 DEF Tree
    <2> QED BY <1>1, <2>1 DEF TreeInv, Transit
<1>10. Lists'
    <2>1. \A y \in Nodes : state'[y] = "none" <=> state[y] = "none"
        BY <1>6 DEF Tree
    <2> QED BY <1>1, <1>4, <2>1 DEF TreeInv, Lists
<1>11. Family'
    <2>1. state'[Map] = "Alive"
        BY <1>6, <1>7
    <2>2. \A y \in Nodes :
              state'[y] \in {"none", "Create", "Alive"} => state'[y] = state[y]
        BY <1>6 DEF Tree
    <2>3. \A y \in Nodes :
              parent'[y] \in Nodes /\ state'[parent'[y]] = "Destroy" =>
                  state'[y] = "Destroy"
        <3> SUFFICES ASSUME NEW y \in Nodes, parent[y] \in Nodes,
                            state'[parent[y]] = "Destroy"
                     PROVE  state'[y] = "Destroy"
            BY <1>1
        <3>1. CASE state[parent[y]] = "Destroy"
            BY <1>6, <3>1 DEF TreeInv, Family, Tree
        <3>2. CASE state[parent[y]] # "Destroy"
            BY <1>6, <3>2 DEF Tree
        <3> QED BY <3>1, <3>2
    <2>4. \A c \in channels' :
              /\ state'[c] # "none" /\ ~InTransit(c)'
              /\ state'[c] = "Destroy" \/ parent'[c] = Map
        BY <1>1, <1>2, <1>4, <1>6 DEF TreeInv, Family, Tree
    <2> QED BY <1>1, <2>1, <2>2, <2>3, <2>4 DEF TreeInv, Family
<1> QED BY <1>6, <1>8, <1>9, <1>10, <1>11 DEF TreeInv, Tree

LEMMA BeginPlayInTree ==
    ASSUME TypeOK, Making, TreeInv, Walk, NEW x \in Tree, BeginPlay(x)
    PROVE  TreeInv'
<1> USE NodeNumbers
<1>1. /\ \A y : InTransit(y)' <=> InTransit(y)
      /\ UNCHANGED <<thread, manager, made, parent, children, channels>>
    BY WalkStep DEF BeginPlay, madeVars, attachVars
<1>2. /\ loops # <<>> /\ loops[Len(loops)].node = x
      /\ state[x] = "Create" /\ ~IsChannel(x)
      /\ state' = [state EXCEPT ![x] = "Alive"]
    BY DEF BeginPlay, Updates, Top, Begun
<1>3. x \in Nodes /\ ~InTransit(x)
    <2>1. x # Map
        BY <1>2 DEF TreeInv, Family
    <2>2. Len(loops) \in 1 .. Len(loops)
        BY <1>2, TopOfLoops
    <2> QED BY <1>2, <2>1, <2>2, PathIsMade DEF Tree, TreeInv
<1>4. parent[x] \in Nodes
    <2>1. parent[x] # None /\ parent[x] # Map
        BY <1>2, <1>3 DEF TreeInv, Family, IsChannel
    <2> QED BY <1>3, <2>1 DEF TypeOK
<1>5. /\ state'[x] = "Alive" /\ \A y \in Tree \ {x} : state'[y] = state[y]
      /\ x \in Tree /\ Map \in Tree
    BY <1>2, <1>3 DEF TypeOK, Tree
<1>6. /\ \A p : Members(p)' = Members(p)
      /\ \A p \in Tree : Members(p) \subseteq Nodes
      /\ channels \subseteq Nodes /\ Nodes \subseteq Tree
    BY <1>1, MembersAt DEF Members, TypeOK, Tree
<1>7. \A y \in Nodes :
          /\ state'[y] = "none" <=> state[y] = "none"
          /\ state'[y] = "Destroy" <=> state[y] = "Destroy"
          /\ y # x => state'[y] = state[y]
    BY <1>2, <1>5, <1>6
<1>8. Unborn'
    BY <1>1, <1>7 DEF TreeInv, Unborn
<1>9. Transit'
    BY <1>1, <1>3, <1>7 DEF TreeInv, Transit
<1>10. Lists'
    BY <1>1, <1>6, <1>7 DEF TreeInv, Lists
<1>11. Family'
    <2>1. state'[Map] = "Alive"
        BY <1>3, <1>5 DEF TreeInv, Family
    <2>2. \A y \in Nodes :
              state'[y] \in {"none", "Create"} /\ parent'[y] \notin Nodes =>
                  children'[y] = <<>>
        BY <1>1, <1>5, <1>7 DEF TreeInv, Family
    <2>3. \A y \in Nodes :
              parent'[y] = None /\ state'[y] \in {"Create", "Alive"}
                  => InTransit(y)'
        BY <1>1, <1>4, <1>7 DEF TreeInv, Family
    <2>4. \A y \in Nodes :
              parent'[y] \in Nodes /\ state'[parent'[y]] = "Destroy" =>
                  state'[y] = "Destroy"
        BY <1>1, <1>7 DEF TreeInv, Family
    <2>5. \A c \in channels' :
              /\ state'[c] # "none" /\ ~InTransit(c)'
              /\ state'[c] = "Destroy" \/ parent'[c] = Map
        BY <1>1, <1>6, <1>7 DEF TreeInv, Family
    <2> QED BY <1>1, <2>1, <2>2, <2>3, <2>4, <2>5 DEF TreeInv, Family
<1> QED BY <1>8, <1>9, <1>10, <1>11 DEF TreeInv

\* A channel gets its manager, and the manager its monster.
LEMMA AttachManagerInTree ==
    ASSUME TypeOK, Making, TreeInv, Walk, AttachManager
    PROVE  /\ TreeInv'
           /\ \A p \in Tree : Members(p) \subseteq Members(p)'
           /\ manager \in Range(children'[Top.node])
           /\ Top.node \in Nodes /\ state[Top.node] = "Create"
           /\ parent[Top.node] = Map
           /\ parent[manager] = None /\ parent[thread["game"].node] = None
           /\ state[manager] = "Create" /\ state[thread["game"].node] = "Create"
           /\ Top.node # manager /\ Top.node # thread["game"].node
<1> USE NodeNumbers
<1> DEFINE m == thread["game"].node
           g == manager
           c == Top.node
<1>1. /\ thread'["game"].node = None /\ manager' = None
      /\ m \in Nodes /\ g \in Nodes /\ g # m
      /\ \A u \in Threads \ {"game"} :
            /\ thread'[u] = thread[u]
            /\ thread[u].node \notin {g, m}
      /\ \A y \in Nodes : InTransit(y)' <=> InTransit(y) /\ y # g /\ y # m
      /\ thread["game"].at = "created" /\ "game" \in Threads
    <2>1. /\ thread["game"].at = "created" /\ "game" \in Threads
          /\ Resting.node = None
        BY DEF AttachManager, Threads, Resting
    <2> QED BY <2>1, AttachManagerStep
<1>2. c \in Nodes /\ parent[c] = Map /\ state[c] = "Create" /\ loops # <<>>
    BY <1>1, GameBegins
<1>3. /\ parent[m] = None /\ parent[g] = None
      /\ InTransit(m) /\ InTransit(g)
      /\ state[m] = "Create" /\ state[g] = "Create"
    BY <1>1 DEF TreeInv, Transit, InTransit
<1>4. c # m /\ c # g
    BY <1>2, <1>3
<1>5. ~InTransit(c)
    <2>1. Len(loops) \in 1 .. Len(loops) /\ c = loops[Len(loops)].node
        BY <1>2, TopOfLoops DEF Top
    <2> QED BY <1>2, <2>1, PathIsMade DEF TreeInv
<1>6. children[m] = <<>> /\ children[g] = <<>> /\ children[c] = <<>>
    BY <1>1, <1>2, <1>3 DEF TreeInv, Family
<1>7. /\ parent' = [parent EXCEPT ![m] = g, ![g] = c]
      /\ children' = [children EXCEPT ![g] = <<m>>, ![c] = <<g>>]
      /\ state' = [state EXCEPT ![c] = "Alive"]
      /\ UNCHANGED <<made, channels>>
    BY DEF AttachManager, Begun, madeVars, attachVars
<1>8. /\ Nodes \subseteq Tree /\ Map \in Tree
      /\ channels \subseteq Nodes
      /\ \A p \in Tree : Members(p) \subseteq Nodes
      /\ \A u \in Threads : thread[u].node \in Nodes \cup {None}
      /\ \A y \in Nodes : parent[y] \in Nodes \cup {Map, None}
    BY MembersAt DEF Tree, TypeOK
<1> HIDE DEF m, g, c
<1>9. /\ parent'[m] = g /\ parent'[g] = c
      /\ \A y \in Nodes \ {m, g} : parent'[y] = parent[y]
    BY <1>1, <1>7 DEF TypeOK
<1>10. /\ children'[g] = <<m>> /\ children'[c] = <<g>>
       /\ \A p \in Tree \ {g, c} : children'[p] = children[p]
    <2>1. children \in [Tree -> Seq(Nodes)]
        BY DEF TypeOK, Tree
    <2> QED BY <1>1, <1>2, <1>4, <1>7, <1>8, <2>1
<1>11. /\ state'[c] = "Alive"
       /\ \A y \in Tree \ {c} : state'[y] = state[y]
    <2>1. state \in [Tree -> States]
        BY DEF TypeOK, Tree
    <2> QED BY <1>2, <1>7, <1>8, <2>1
<1>12. /\ \A y : y \in Range(children'[g]) <=> y = m
       /\ \A y : y \in Range(children'[c]) <=> y = g
       /\ Members(g) = {} /\ Members(c) = {}
    <2>1. \A z : \A y : y \in Range(<<z>>) <=> y = z
        <3> TAKE z
        <3>1. DOMAIN <<z>> = {1} /\ <<z>>[1] = z
            OBVIOUS
        <3> QED BY <3>1 DEF Range
    <2>2. g \in Tree /\ c \in Tree
        BY <1>1, <1>2, <1>8
    <2>3. Members(g) = {} /\ Members(c) = {}
        BY <1>6, <2>2, MembersAt
    <2> QED BY <1>10, <2>1, <2>3
<1>13. \A p \in Tree \ {g, c} : Range(children'[p]) = Members(p)
    BY <1>10 DEF Members
<1>14. \A y \in Nodes : parent[y] # g /\ parent[y] # c
    BY <1>1, <1>2, <1>12 DEF TreeInv, Lists
<1>15. \A y \in Nodes \ {c} : state'[y] = state[y]
    BY <1>8, <1>11
<1>16. Unborn'
    <2>1. \A x \in Nodes : state'[x] = "none" <=> state[x] = "none"
        BY <1>2, <1>11, <1>15
    <2>2. \A x \in Nodes : x > made => x # m /\ x # g
        BY <1>1, <1>3 DEF TreeInv, Unborn
    <2> QED BY <1>1, <1>7, <1>9, <2>1, <2>2 DEF TreeInv, Unborn
<1>17. Transit'
    <2>1. \A u \in Threads :
              thread'[u].node # None =>
                  /\ u # "game" /\ thread'[u] = thread[u]
                  /\ thread[u].node \in Nodes \ {m, g}
        BY <1>1, <1>8
    <2>2. ASSUME NEW x \in Nodes, InTransit(x)' PROVE state'[x] = "Create"
        <3>1. InTransit(x)
            BY <1>1, <2>2
        <3>2. state[x] = "Create" /\ x # c
            BY <1>1, <1>5, <2>2, <3>1 DEF TreeInv, Transit
        <3> QED BY <1>15, <3>2
    <2>3. \A u \in Threads :
              thread'[u].node # None =>
                  parent'[thread'[u].node] =
                      IF thread'[u].at = "link" THEN Map ELSE None
        BY <1>9, <2>1 DEF TreeInv, Transit
    <2> QED BY <1>1, <2>2, <2>3 DEF Transit
<1>18. Lists'
    <2>1. ASSUME NEW p \in Tree, NEW x \in Range(children'[p])
          PROVE  parent'[x] = p /\ state'[x] # "none" /\ ~InTransit(x)'
        <3>1. CASE p = g
            BY <1>1, <1>3, <1>4, <1>9, <1>12, <1>15, <2>1, <3>1
        <3>2. CASE p = c
            BY <1>1, <1>3, <1>4, <1>9, <1>12, <1>15, <2>1, <3>2
        <3>3. CASE p # g /\ p # c
            <4>1. x \in Members(p) /\ x \in Nodes
                BY <1>8, <1>13, <2>1, <3>3
            <4>2. parent[x] = p /\ state[x] # "none" /\ ~InTransit(x)
                BY <4>1 DEF TreeInv, Lists
            <4>3. x # m /\ x # g
                BY <1>3, <4>2
            <4> QED BY <1>1, <1>9, <1>11, <1>15, <4>1, <4>2, <4>3
        <3> QED BY <3>1, <3>2, <3>3
    <2>2. ASSUME NEW p \in Tree,
                 NEW i \in DOMAIN children'[p], NEW j \in DOMAIN children'[p],
                 children'[p][i] = children'[p][j]
          PROVE  i = j
        <3>1. CASE p = g \/ p = c
            BY <1>10, <2>2, <3>1
        <3>2. CASE p # g /\ p # c
            BY <1>10, <2>2, <3>2 DEF TreeInv, Lists
        <3> QED BY <3>1, <3>2
    <2>3. ASSUME NEW x \in Nodes, parent'[x] \in Nodes
          PROVE  x \in Range(children'[parent'[x]])
        <3>1. CASE x = m
            BY <1>9, <1>12, <3>1
        <3>2. CASE x = g
            BY <1>9, <1>12, <3>2
        <3>3. CASE x # m /\ x # g
            <4>1. parent'[x] = parent[x] /\ parent[x] \in Nodes
                BY <1>9, <2>3, <3>3
            <4>2. parent[x] \in Tree \ {g, c}
                BY <1>8, <1>14, <4>1
            <4> QED BY <1>13, <4>1, <4>2 DEF TreeInv, Lists
        <3> QED BY <3>1, <3>2, <3>3
    <2> QED BY <2>1, <2>2, <2>3 DEF Lists, Members
<1>19. Family'
    <2>1. state'[Map] = "Alive"
        BY <1>2, <1>8, <1>11 DEF TreeInv, Family
    <2>2. ASSUME NEW x \in Nodes, state'[x] \in {"none", "Create"},
                 parent'[x] \notin Nodes
          PROVE  children'[x] = <<>>
        <3>1. x \notin {m, g, c}
            BY <1>1, <1>2, <1>9, <1>11, <2>2
        <3> QED BY <1>8, <1>9, <1>10, <1>15, <2>2, <3>1 DEF TreeInv, Family
    <2>3. ASSUME NEW x \in Nodes, parent'[x] = None,
                 state'[x] \in {"Create", "Alive"}
          PROVE  InTransit(x)'
        <3>1. x \notin {m, g, c}
            BY <1>1, <1>2, <1>4, <1>9, <2>3
        <3> QED BY <1>1, <1>9, <1>15, <2>3, <3>1 DEF TreeInv, Family
    <2>4. ASSUME NEW x \in Nodes, parent'[x] \in Nodes,
                 state'[parent'[x]] = "Destroy"
          PROVE  state'[x] = "Destroy"
        <3>1. CASE x = m
            BY <1>1, <1>3, <1>4, <1>9, <1>15, <2>4, <3>1
        <3>2. CASE x = g
            BY <1>9, <1>11, <2>4, <3>2
        <3>3. CASE x # m /\ x # g
            <4>1. parent'[x] = parent[x] /\ parent[x] # c
                BY <1>9, <1>14, <3>3
            <4>2. state[x] = "Destroy"
                BY <1>15, <2>4, <4>1 DEF TreeInv, Family
            <4> QED BY <1>2, <1>15, <4>2
        <3> QED BY <3>1, <3>2, <3>3
    <2>5. ASSUME NEW x \in Nodes, parent'[x] \in Nodes,
                 parent'[parent'[x]] \in Nodes
          PROVE  children'[x] = <<>>
        <3>1. CASE x = m
            BY <1>1, <1>4, <1>6, <1>8, <1>10, <3>1
        <3>2. CASE x = g
            BY <1>2, <1>4, <1>9, <2>5, <3>2
        <3>3. CASE x # m /\ x # g
            <4>1. parent'[x] = parent[x] /\ parent[x] \in Nodes
                BY <1>9, <2>5, <3>3
            <4>2. parent[x] # g /\ parent[x] # c
                BY <1>14
            <4>3. parent[x] # m
                <5>1. Members(m) = {}
                    BY <1>1, <1>6, <1>8, MembersAt
                <5> QED BY <1>1, <4>1, <5>1 DEF TreeInv, Lists
            <4>4. parent'[parent[x]] = parent[parent[x]]
                BY <1>9, <4>1, <4>2, <4>3
            <4>5. children[x] = <<>> /\ x # c
                BY <1>2, <2>5, <4>1, <4>4 DEF TreeInv, Family
            <4> QED BY <1>8, <1>10, <3>3, <4>5
        <3> QED BY <3>1, <3>2, <3>3
    <2>6. \A y \in channels' :
              /\ state'[y] # "none" /\ ~InTransit(y)'
              /\ state'[y] = "Destroy" \/ parent'[y] = Map
        <3> TAKE y \in channels'
        <3>1. /\ y \in Nodes /\ y \in channels
              /\ state[y] # "none" /\ ~InTransit(y)
              /\ state[y] = "Destroy" \/ parent[y] = Map
            BY <1>7, <1>8 DEF TreeInv, Family
        <3>2. y # m /\ y # g
            BY <1>3, <3>1
        <3>3. parent'[y] = parent[y]
            BY <1>9, <3>1, <3>2
        <3>4. CASE y = c
            BY <1>1, <1>2, <1>11, <3>1, <3>3, <3>4
        <3>5. CASE y # c
            BY <1>1, <1>15, <3>1, <3>3, <3>5
        <3> QED BY <3>4, <3>5
    <2> QED BY <2>1, <2>2, <2>3, <2>4, <2>5, <2>6 DEF Family
<1>20. \A p \in Tree : Members(p) \subseteq Members(p)'
    BY <1>12, <1>13 DEF Members
<1>21. g \in Range(children'[c])
    BY <1>12
<1> QED BY <1>2, <1>3, <1>4, <1>16, <1>17, <1>18, <1>19, <1>20, <1>21
        DEF TreeInv, m, g, c

LEMMA RemoveInTree ==
    ASSUME TypeOK, Making, TreeInv, Walk, NEW x \in Tree, Remove(x)
    PROVE  /\ TreeInv'
           /\ UNCHANGED state /\ state[x] = "Destroy" /\ x \in Nodes
           /\ parent'[x] = None
           /\ \A y \in Nodes \ {x} : parent'[y] = parent[y]
           /\ \A p \in Tree : Members(p) \ {x} = Range(children'[p])
<1> USE NodeNumbers
<1>1. /\ \A y : InTransit(y)' <=> InTransit(y)
      /\ UNCHANGED <<thread, manager, made, state, channels>>
      /\ state[x] = "Destroy" /\ Updates(x, "Destroy")
    BY WalkStep DEF Remove, madeVars, Updates
<1>2. x \in Nodes
    BY <1>1 DEF TreeInv, Family, Tree
<1>3. /\ \A p \in Tree : Members(p) \subseteq Nodes
      /\ channels \subseteq Nodes /\ Nodes \subseteq Tree
      /\ \A u \in Threads : thread[u].node \in Nodes \cup {None}
      /\ manager \in Nodes \cup {None}
    BY MembersAt DEF TypeOK, Tree
<1>4. ~InTransit(x)
    BY <1>1, <1>2 DEF TreeInv, Transit
<1>5. /\ parent'[x] = None
      /\ \A y \in Nodes \ {x} : parent'[y] = parent[y]
      /\ \A p \in Tree : \A y : y \in Range(children'[p])
                                  <=> y \in Members(p) /\ y # x
      /\ \A p \in Tree : \A i, j \in DOMAIN children'[p] :
             children'[p][i] = children'[p][j] => i = j
      /\ \A p \in Tree : children'[p] = children[p] \/ x \in Members(p)
    <2>1. CASE parent[x] = None
        <3>1. parent' = parent /\ children' = children
            BY <2>1 DEF Remove
        <3>2. \A p \in Tree : x \notin Members(p)
            BY <2>1 DEF TreeInv, Lists, Tree
        <3>3. \A p \in Tree : \A y : y \in Range(children'[p])
                                       <=> y \in Members(p) /\ y # x
            BY <3>1, <3>2 DEF Members
        <3> QED BY <2>1, <3>1, <3>3 DEF TreeInv, Lists
    <2>2. CASE parent[x] # None
        <3> DEFINE q == parent[x]
        <3>1. x \in Members(q) /\ q \in Tree
            BY <1>1, <2>2, RemovesMember DEF TreeInv
        <3>2. /\ parent' = [parent EXCEPT ![x] = None]
              /\ children' = [children EXCEPT ![q] = Detached(q, x)]
            BY <2>2 DEF Remove
        <3>3. \A i, j \in DOMAIN children[q] :
                  children[q][i] = children[q][j] => i = j
            BY <3>1 DEF TreeInv, Lists
        <3>4. parent'[x] = None /\ \A y \in Nodes \ {x} : parent'[y] = parent[y]
            BY <1>2, <3>2 DEF TypeOK
        <3>5. /\ children'[q] = Detached(q, x)
              /\ \A p \in Tree \ {q} : children'[p] = children[p]
            <4>1. children \in [Tree -> Seq(Nodes)]
                BY DEF TypeOK, Tree
            <4> QED BY <3>1, <3>2, <4>1
        <3>6. \A p \in Tree \ {q} : x \notin Members(p)
            BY DEF TreeInv, Lists
        <3> HIDE DEF q
        <3>7. /\ \A y : y \in Range(Detached(q, x)) <=> y # x /\ y \in Members(q)
              /\ \A i, j \in DOMAIN Detached(q, x) :
                    Detached(q, x)[i] = Detached(q, x)[j] => i = j
            BY <3>1, <3>3, DetachMembers
        <3>8. ASSUME NEW p \in Tree
              PROVE  /\ \A y : y \in Range(children'[p])
                                  <=> y \in Members(p) /\ y # x
                     /\ \A i, j \in DOMAIN children'[p] :
                           children'[p][i] = children'[p][j] => i = j
                     /\ children'[p] = children[p] \/ x \in Members(p)
            <4>1. CASE p = q
                BY <3>1, <3>5, <3>7, <4>1
            <4>2. CASE p # q
                <5>1. children'[p] = children[p] /\ x \notin Members(p)
                    BY <3>5, <3>6, <4>2
                <5> QED BY <5>1 DEF Members, TreeInv, Lists
            <4> QED BY <4>1, <4>2
        <3> QED BY <3>4, <3>8
    <2> QED BY <2>1, <2>2
<1>6. Unborn'
    <2>1. \A y \in Nodes : y > made => y # x
        BY <1>1 DEF TreeInv, Unborn
    <2> QED BY <1>1, <1>5, <2>1 DEF TreeInv, Unborn
<1>7. Transit'
    <2>1. /\ \A u \in Threads : thread[u].node # x
          /\ manager # x
        BY <1>4 DEF InTransit
    <2>2. /\ \A u \in Threads : thread[u].node # None =>
                 parent'[thread[u].node] = parent[thread[u].node]
          /\ manager # None => parent'[manager] = parent[manager]
        BY <1>3, <1>5, <2>1
    <2> QED BY <1>1, <2>2 DEF TreeInv, Transit
<1>8. Lists'
    <2>1. \A p \in Tree : \A y \in Range(children'[p]) :
              parent'[y] = p /\ state'[y] # "none" /\ ~InTransit(y)'
        <3> TAKE p \in Tree
        <3> TAKE y \in Range(children'[p])
        <3>1. y \in Members(p) /\ y # x /\ y \in Nodes
            BY <1>3, <1>5
        <3>2. parent[y] = p /\ state[y] # "none" /\ ~InTransit(y)
            BY <3>1 DEF TreeInv, Lists
        <3> QED BY <1>1, <1>5, <3>1, <3>2
    <2>2. \A y \in Nodes :
              parent'[y] \in Nodes => y \in Range(children'[parent'[y]])
        BY <1>3, <1>5 DEF TreeInv, Lists
    <2> QED BY <1>5, <2>1, <2>2 DEF Lists, Members
<1>9. Family'
    <2>1. \A y \in Nodes :
              state'[y] \in {"none", "Create"} /\ parent'[y] \notin Nodes =>
                  children'[y] = <<>>
        <3> SUFFICES ASSUME NEW y \in Nodes, state[y] \in {"none", "Create"},
                            parent'[y] \notin Nodes
                     PROVE  children'[y] = <<>>
            BY <1>1
        <3>1. parent[y] \notin Nodes
            BY <1>1, <1>5
        <3>2. children[y] = <<>>
            BY <3>1 DEF TreeInv, Family
        <3>3. x \notin Members(y)
            BY <1>3, <3>2, MembersAt
        <3> QED BY <1>3, <1>5, <3>2, <3>3
    <2>2. \A y \in Nodes :
              parent'[y] = None /\ state'[y] \in {"Create", "Alive"}
                  => InTransit(y)'
        BY <1>1, <1>5 DEF TreeInv, Family
    <2>3. \A y \in Nodes :
              parent'[y] \in Nodes /\ state'[parent'[y]] = "Destroy" =>
                  state'[y] = "Destroy"
        BY <1>1, <1>5 DEF TreeInv, Family
    <2>4. \A y \in Nodes :
              parent'[y] \in Nodes /\ parent'[parent'[y]] \in Nodes =>
                  children'[y] = <<>>
        <3> SUFFICES ASSUME NEW y \in Nodes, parent'[y] \in Nodes,
                            parent'[parent'[y]] \in Nodes
                     PROVE  children'[y] = <<>>
            OBVIOUS
        <3>1. parent[y] = parent'[y] /\ parent[parent[y]] \in Nodes
            BY <1>5
        <3>2. children[y] = <<>>
            BY <3>1 DEF TreeInv, Family
        <3>3. x \notin Members(y)
            BY <1>3, <3>2, MembersAt
        <3> QED BY <1>3, <1>5, <3>2, <3>3
    <2>5. \A c \in channels' :
              /\ state'[c] # "none" /\ ~InTransit(c)'
              /\ state'[c] = "Destroy" \/ parent'[c] = Map
        BY <1>1, <1>3, <1>5 DEF TreeInv, Family
    <2> QED BY <1>1, <2>1, <2>2, <2>3, <2>4, <2>5 DEF TreeInv, Family
<1> QED BY <1>1, <1>2, <1>5, <1>6, <1>7, <1>8, <1>9 DEF TreeInv

LEMMA TreeStep ==
    ASSUME IInv, [Next]_vars
    PROVE  TreeInv'
<1>1. TypeOK /\ Making /\ Budget /\ TreeInv /\ Walk
    BY DEF IInv, TreeInv
<1>2. ASSUME NEW t \in Threads, OpenChannel(t)
      PROVE  TreeInv'
    <2>1. t # "game" /\ thread[t].at = "idle" /\ thread[t].node = None
        BY <1>1, <1>2, ComponentTreeAssumption DEF OpenChannel, Making
    <2>2. /\ \A u \in Threads : thread'[u].node = thread[u].node
          /\ \A u \in Threads \ {t} : thread'[u] = thread[u]
          /\ \A y : InTransit(y)' <=> InTransit(y)
          /\ UNCHANGED <<made, state, parent, children, channels, manager>>
        BY <1>1, <1>2, <2>1, OpenStep
        DEF OpenChannel, Create, treeVars, attachVars
    <2> QED BY <1>1, <2>1, <2>2, QuietTree
<1>3. ASSUME NEW x \in Tree, MakeManager(x)
      PROVE  TreeInv'
    <2>1. /\ "game" \in Threads /\ thread["game"].at = "idle"
          /\ loops # <<>> /\ Top.node = x /\ Top.next = Fresh
          /\ IsChannel(x) /\ state[x] = "Create" /\ thread["game"].node = None
        BY <1>1, <1>3 DEF MakeManager, Updates, Threads, Making
    <2>2. /\ \A u \in Threads : thread'[u].node = thread[u].node
          /\ \A u \in Threads \ {"game"} : thread'[u] = thread[u]
          /\ \A y : InTransit(y)' <=> InTransit(y)
          /\ UNCHANGED <<made, state, parent, children, channels, manager>>
        BY <1>1, <1>3, <2>1, OpenStep
        DEF MakeManager, Create, treeVars, attachVars, madeVars
    <2> QED BY <1>1, <2>1, <2>2, QuietTree
<1>4. ASSUME NEW t \in Threads, SetId(t) \/ Insert(t) \/ Count(t)
      PROVE  TreeInv'
    <2>1. /\ \A u \in Threads : thread'[u].node = thread[u].node
          /\ \A u \in Threads \ {t} : thread'[u] = thread[u]
          /\ \A y : InTransit(y)' <=> InTransit(y)
        BY <1>1, <1>4, SetIdStep
    <2>2. /\ UNCHANGED <<made, state, parent, children, channels, manager>>
          /\ thread[t].at # "link"
        BY <1>4 DEF SetId, Insert, Count, treeVars, attachVars, madeVars
    <2>3. thread'[t].at # "link"
        BY <1>1, <1>4 DEF SetId, Insert, Count, TypeOK
    <2> QED BY <1>1, <2>1, <2>2, <2>3, QuietTree
<1>5. ASSUME MakeMonster
      PROVE  TreeInv'
    <2>1. /\ \A u \in Threads \ {"game"} : thread'[u] = thread[u]
          /\ \A y \in Nodes : InTransit(y)' <=> InTransit(y)
          /\ thread'["game"].node = None /\ manager' = thread["game"].node
          /\ thread["game"].at # "link" /\ "game" \in Threads
        BY <1>1, <1>5, MonsterStep DEF Threads
    <2>2. UNCHANGED <<made, state, parent, children, channels>>
        BY <1>5 DEF MakeMonster, madeVars, treeVars, attachVars
    <2> QED BY <1>1, <2>1, <2>2, QuietTree
<1>6. ASSUME Frame \/ Descend \/ Return
      PROVE  TreeInv'
    <2>1. UNCHANGED <<thread, manager, made, state, parent, children, channels>>
        BY <1>6 DEF Frame, Descend, Return, madeVars, treeVars, attachVars
    <2> QED BY <1>1, <2>1, QuietTree DEF InTransit
<1>7. ASSUME UNCHANGED vars
      PROVE  TreeInv'
    <2>1. UNCHANGED <<thread, manager, made, state, parent, children, channels>>
        BY <1>7 DEF vars, madeVars, treeVars, attachVars
    <2> QED BY <1>1, <2>1, QuietTree DEF InTransit
<1> QED BY <1>1, <1>2, <1>3, <1>4, <1>5, <1>6, <1>7, MakeInTree, AttachInTree,
           LinkInTree, TickInTree, BeginPlayInTree, AttachManagerInTree,
           RemoveInTree
        DEF Next, GameStep, Creates, Opens, Threads, Tree

-----------------------------------------------------------------------------
(* The walk. *)

\* Children are added, and the innermost loop goes to one or stays.
LEMMA WalkGrows ==
    ASSUME TypeOK, Walk,
           loops' # <<>> => loops # <<>>,
           Len(loops') = Len(loops),
           \A i \in 1 .. Len(loops) : loops'[i].node = loops[i].node,
           \A i \in 1 .. Len(loops) - 1 : loops'[i].next = loops[i].next,
           loops # <<>> =>
               loops'[Len(loops)].next
                   \in {None, Fresh} \cup Range(children'[Top.node]),
           \A p \in Tree : Members(p) \subseteq Range(children'[p]),
           \A x \in Nodes : state[x] = "Destroy" /\ parent[x] = None
                                => state'[x] = "Destroy" /\ parent'[x] = None
    PROVE  Walk'
<1> DEFINE Ls == Len(loops)
<1>1. /\ Ls \in Nat
      /\ \A i \in 1 .. Ls : loops[i].node \in Tree
    BY LoopAt
<1> HIDE DEF Ls
<1>2. loops' # <<>> => loops # <<>> /\ Ls # 0
    BY TopOfLoops DEF Ls
<1>3. loops' # <<>> => loops'[1].node = Map
    <2>1. Ls # 0 => 1 \in 1 .. Ls
        BY <1>1
    <2> QED BY <1>2, <2>1 DEF Walk, Ls
<1>4. ASSUME NEW i \in 2 .. Ls
      PROVE  /\ loops'[i].node \in Nodes
             /\ \/ loops'[i].node \in Range(children'[loops'[i - 1].node])
                \/ /\ state'[loops'[i].node] = "Destroy"
                   /\ parent'[loops'[i].node] = None
    <2>1. i \in 1 .. Ls /\ i - 1 \in 1 .. Ls
        BY <1>1
    <2>2. /\ loops'[i].node = loops[i].node
          /\ loops'[i - 1].node = loops[i - 1].node
          /\ loops[i - 1].node \in Tree
        BY <1>1, <2>1 DEF Ls
    <2>3. /\ loops[i].node \in Nodes
          /\ \/ loops[i].node \in Members(loops[i - 1].node)
             \/ state[loops[i].node] = "Destroy" /\ parent[loops[i].node] = None
        BY DEF Walk, Ls
    <2> QED BY <2>2, <2>3
<1>5. \A i, j \in 1 .. Ls : loops'[i].node = loops'[j].node => i = j
    BY DEF Walk, Ls
<1>6. ASSUME NEW i \in 1 .. Ls - 1
      PROVE  loops'[i].next # Fresh /\ loops'[i].next # loops'[i + 1].node
    <2>1. i + 1 \in 1 .. Ls
        BY <1>1
    <2> QED BY <2>1 DEF Walk, Ls
<1>7. ASSUME NEW i \in 1 .. Ls
      PROVE  loops'[i].next
                 \in {None, Fresh} \cup Range(children'[loops'[i].node])
    <2>1. CASE i = Ls
        <3>1. loops # <<>>
            BY <1>7, <2>1, <1>1 DEF Ls
        <3> QED BY <2>1, <3>1 DEF Top, Ls
    <2>2. CASE i # Ls
        <3>1. i \in 1 .. Ls - 1
            BY <1>1, <2>2
        <3>2. loops[i].next \in {None, Fresh} \cup Members(loops[i].node)
            BY DEF Walk, IteratorsValid, Ls
        <3> QED BY <1>1, <3>1, <3>2 DEF Ls
    <2> QED BY <2>1, <2>2
<1>8. Len(loops') = Ls
    BY DEF Ls
<1> QED BY <1>3, <1>4, <1>5, <1>6, <1>7, <1>8
        DEF Walk, IteratorsValid, Members

LEMMA LoopsAfter ==
    ASSUME TypeOK, loops # <<>>, NEW n \in Nodes \cup {None}, ComesToLoop(n)
    PROVE  /\ Len(loops') = Len(loops)
           /\ \A i \in 1 .. Len(loops) : loops'[i].node = loops[i].node
           /\ \A i \in 1 .. Len(loops) - 1 : loops'[i] = loops[i]
           /\ loops'[Len(loops)].next = n
<1> DEFINE Loops == [node : Tree, next : Nodes \cup {None, Fresh}]
<1>1. loops \in Seq(Loops)
    BY DEF TypeOK, Tree
<1>2. PICK l : l = [loops[Len(loops)] EXCEPT !.next = n]
    OBVIOUS
<1>3. loops' = [loops EXCEPT ![Len(loops)] = l]
    BY <1>2 DEF ComesToLoop
<1>4. l \in Loops /\ l.node = loops[Len(loops)].node /\ l.next = n
    BY <1>2, TopOfLoops DEF Top
<1> HIDE DEF Loops
<1>5. PICK k \in Nat \ {0} : k = Len(loops)
    BY TopOfLoops
<1>6. /\ Len(loops') = k
      /\ loops'[k] = l
      /\ \A i \in 1 .. k : i # k => loops'[i] = loops[i]
    BY <1>1, <1>3, <1>4, <1>5
<1>7. \A i \in 1 .. k - 1 : i \in 1 .. k /\ i # k
    BY <1>5
<1>8. \A i \in 1 .. k : loops'[i].node = loops[i].node
    BY <1>4, <1>5, <1>6
<1> QED BY <1>4, <1>5, <1>6, <1>7, <1>8

\* The loops stay as they are.
LEMMA WalkStays ==
    ASSUME TypeOK, Walk, loops' = loops,
           \A p \in Tree : Members(p) \subseteq Range(children'[p]),
           \A x \in Nodes : state[x] = "Destroy" /\ parent[x] = None
                                => state'[x] = "Destroy" /\ parent'[x] = None
    PROVE  Walk'
<1>1. loops # <<>> => loops[Len(loops)].next
                          \in {None, Fresh} \cup Range(children'[Top.node])
    <2> SUFFICES ASSUME loops # <<>>
                 PROVE  loops[Len(loops)].next
                            \in {None, Fresh} \cup Range(children'[Top.node])
        OBVIOUS
    <2>1. Len(loops) \in 1 .. Len(loops) /\ Top.node \in Tree
        BY TopOfLoops
    <2> QED BY <2>1 DEF Walk, IteratorsValid, Top
<1> QED BY <1>1, WalkGrows

LEMMA FrameWalk ==
    ASSUME TypeOK, Frame
    PROVE  Walk'
<1>1. /\ Len(loops') = 1 /\ loops'[1].node = Map /\ loops'[1].next = Fresh
    BY DEF Frame
<1> QED BY <1>1 DEF Walk, IteratorsValid

LEMMA ReturnWalk ==
    ASSUME TypeOK, Walk, Return
    PROVE  Walk'
<1>1. PICK k \in Nat \ {0} : k = Len(loops)
    BY TopOfLoops DEF Return
<1>2. /\ loops # <<>> /\ Len(loops') = k - 1
      /\ \A i \in 1 .. k - 1 : loops'[i] = loops[i]
      /\ UNCHANGED <<state, parent, children>>
    BY <1>1, TopOfLoops DEF Return, treeVars
<1>3. \A i \in 1 .. k - 1 : i \in 1 .. k
    BY <1>1
<1>4. \A i \in 2 .. k - 1 : i \in 2 .. k /\ i \in 1 .. k - 1 /\ i - 1 \in 1 .. k - 1
    BY <1>1
<1>5. \A i \in 1 .. (k - 1) - 1 : i \in 1 .. k - 1 /\ i + 1 \in 1 .. k - 1
    BY <1>1
<1>6. loops' # <<>> => loops'[1].node = Map
    <2>1. loops' \in Seq([node : Tree, next : Nodes \cup {None, Fresh}])
        BY <1>2, TopOfLoops DEF Return
    <2>2. loops' # <<>> => 1 \in 1 .. k - 1
        BY <1>1, <1>2, <2>1
    <2> QED BY <1>2, <2>2 DEF Walk
<1>7. \A i \in 2 .. k - 1 :
          /\ loops'[i].node \in Nodes
          /\ \/ loops'[i].node \in Range(children'[loops'[i - 1].node])
             \/ /\ state'[loops'[i].node] = "Destroy"
                /\ parent'[loops'[i].node] = None
    BY <1>1, <1>2, <1>4 DEF Walk, Members
<1>8. \A i, j \in 1 .. k - 1 : loops'[i].node = loops'[j].node => i = j
    BY <1>1, <1>2, <1>3 DEF Walk
<1>9. \A i \in 1 .. (k - 1) - 1 :
          loops'[i].next # Fresh /\ loops'[i].next # loops'[i + 1].node
    BY <1>1, <1>2, <1>5 DEF Walk
<1>10. \A i \in 1 .. k - 1 :
           loops'[i].next \in {None, Fresh} \cup Range(children'[loops'[i].node])
    BY <1>1, <1>2, <1>3 DEF Walk, IteratorsValid, Members
<1> QED BY <1>2, <1>6, <1>7, <1>8, <1>9, <1>10
        DEF Walk, IteratorsValid, Members

\* The child that the loop comes to was on no loop, since its parent's is the
\* innermost; and the loop has stepped past it.
LEMMA DescendWalk ==
    ASSUME TypeOK, Walk, Lists, Descend
    PROVE  Walk'
<1> USE NodeNumbers
<1> DEFINE y == Top.next
           n == StepsTo(Top.node, y)
<1>1. loops # <<>> /\ Top.node \in Tree /\ y \in Nodes /\ y \in Members(Top.node)
    BY DescendsToMember
<1>2. n \in {None} \cup Members(Top.node) /\ n # y /\ n # Fresh
    <2>1. \A i, j \in DOMAIN children[Top.node] :
              children[Top.node][i] = children[Top.node][j] => i = j
        BY <1>1 DEF Lists
    <2>2. Members(Top.node) \subseteq Nodes
        BY <1>1, MembersAt
    <2> QED BY <1>1, <2>1, <2>2, FollowingMember DEF StepsTo
<1>3. PICK k \in Nat \ {0} : k = Len(loops)
    BY <1>1, TopOfLoops
<1>4. Top = loops[k] /\ k \in 1 .. k
    BY <1>3 DEF Top
<1>5. loops' = Outer \o <<[Top EXCEPT !.next = n], [node |-> y, next |-> Fresh]>>
    BY DEF Descend
<1>6. PICK o : o = Outer
    OBVIOUS
<1>7. PICK a : a = [Top EXCEPT !.next = n]
    OBVIOUS
<1>8. PICK b : b = [node |-> y, next |-> Fresh]
    OBVIOUS
<1>9. a.node = Top.node /\ a.next = n /\ b.node = y /\ b.next = Fresh
    <2>1. Top \in [node : Tree, next : Nodes \cup {None, Fresh}]
        BY <1>1, TopOfLoops
    <2> QED BY <1>7, <1>8, <2>1
<1>10. /\ o \in Seq([node : Tree, next : Nodes \cup {None, Fresh}])
       /\ Len(o) = k - 1
       /\ \A i \in 1 .. k - 1 : o[i] = loops[i]
    BY <1>1, <1>3, <1>6, TopOfLoops
<1>11. /\ Len(loops') = k + 1
       /\ \A i \in 1 .. k - 1 : loops'[i] = loops[i]
       /\ loops'[k] = a /\ loops'[k + 1] = b
    <2> DEFINE Loops == [node : Tree, next : Nodes \cup {None, Fresh}]
    <2>1. loops' = o \o <<a, b>>
        BY <1>5, <1>6, <1>7, <1>8
    <2>2. a \in Loops /\ b \in Loops
        <3>1. Top \in Loops /\ n \in Nodes \cup {None, Fresh}
            BY <1>1, <1>2, TopOfLoops, MembersAt
        <3> QED BY <1>1, <1>7, <1>8, <3>1 DEF Tree
    <2> HIDE DEF Loops
    <2>3. o \in Seq(Loops)
        BY <1>10 DEF Loops
    <2>4. <<a, b>> \in Seq(Loops) /\ Len(<<a, b>>) = 2
          /\ <<a, b>>[1] = a /\ <<a, b>>[2] = b
        BY <2>2
    <2>5. PICK q \in Seq(Loops) : q = <<a, b>>
        BY <2>4
    <2>6. /\ Len(o \o q) = Len(o) + Len(q)
          /\ \A i \in 1 .. Len(o) + Len(q) :
                (o \o q)[i] = IF i <= Len(o) THEN o[i] ELSE q[i - Len(o)]
        BY <2>3, <2>5
    <2>7. /\ Len(o \o q) = k + 1
          /\ \A i \in 1 .. k + 1 :
                (o \o q)[i] = IF i <= k - 1 THEN o[i] ELSE q[i - (k - 1)]
        BY <1>3, <1>10, <2>4, <2>5, <2>6
    <2>8. /\ \A i \in 1 .. k - 1 : (o \o q)[i] = o[i]
          /\ (o \o q)[k] = q[1] /\ (o \o q)[k + 1] = q[2]
        <3>1. \A i \in 1 .. k - 1 : i \in 1 .. k + 1 /\ i <= k - 1
            BY <1>3
        <3>2. k \in 1 .. k + 1 /\ ~(k <= k - 1) /\ k - (k - 1) = 1
            BY <1>3
        <3>3. k + 1 \in 1 .. k + 1 /\ ~(k + 1 <= k - 1) /\ (k + 1) - (k - 1) = 2
            BY <1>3
        <3> QED BY <2>7, <3>1, <3>2, <3>3
    <2> QED BY <1>10, <2>1, <2>4, <2>5, <2>7, <2>8
<1>12. UNCHANGED <<state, parent, children>>
    BY DEF Descend, treeVars
<1> HIDE DEF y, n
<1>13. \A i \in 1 .. k + 1 : i = k + 1 \/ i = k \/ i \in 1 .. k - 1
    BY <1>3
<1>14. \A i \in 1 .. k - 1 : i \in 1 .. k
    BY <1>3
<1>15. \A i \in 1 .. k : loops'[i].node = loops[i].node
    <2>1. \A i \in 1 .. k : i = k \/ i \in 1 .. k - 1
        BY <1>3
    <2> QED BY <1>4, <1>9, <1>11, <2>1
<1>16. \A i \in 1 .. k : loops[i].node # y
    <2> SUFFICES ASSUME NEW i \in 1 .. k, loops[i].node = y
                 PROVE  FALSE
        OBVIOUS
    <2>1. parent[y] = Top.node
        BY <1>1 DEF Lists
    <2>2. CASE i = 1
        <3>1. loops[1].node = Map
            BY <1>1 DEF Walk
        <3> QED BY <1>1, <2>2, <3>1
    <2>3. CASE i # 1
        <3>1. i \in 2 .. k /\ i - 1 \in 1 .. k /\ i - 1 # k
            BY <1>3, <2>3
        <3>2. loops[i - 1].node \in Tree
            BY <1>3, <3>1, LoopAt
        <3>3. Top.node # None
            BY <1>1 DEF Tree
        <3>4. y \in Members(loops[i - 1].node)
            BY <1>3, <2>1, <3>1, <3>3 DEF Walk
        <3>5. parent[y] = loops[i - 1].node
            BY <3>2, <3>4 DEF Lists
        <3> QED BY <1>3, <1>4, <2>1, <3>1, <3>5 DEF Walk
    <2> QED BY <2>2, <2>3
<1>17. loops'[1].node = Map
    <2>1. 1 \in 1 .. k
        BY <1>3
    <2> QED BY <1>1, <1>15, <2>1 DEF Walk
<1>18. ASSUME NEW i \in 2 .. k + 1
       PROVE  /\ loops'[i].node \in Nodes
              /\ \/ loops'[i].node \in Range(children'[loops'[i - 1].node])
                 \/ /\ state'[loops'[i].node] = "Destroy"
                    /\ parent'[loops'[i].node] = None
    <2>1. CASE i = k + 1
        <3>1. i - 1 = k
            BY <1>3, <2>1
        <3> QED BY <1>1, <1>9, <1>11, <1>12, <2>1, <3>1 DEF Members
    <2>2. CASE i # k + 1
        <3>1. i \in 2 .. k /\ i \in 1 .. k /\ i - 1 \in 1 .. k
            BY <1>3, <2>2
        <3> QED BY <1>3, <1>12, <1>15, <3>1 DEF Walk, Members
    <2> QED BY <2>1, <2>2
<1>19. ASSUME NEW i \in 1 .. k + 1, NEW j \in 1 .. k + 1,
              loops'[i].node = loops'[j].node
       PROVE  i = j
    <2>1. \A m \in 1 .. k + 1 : m = k + 1 \/ m \in 1 .. k
        BY <1>3
    <2>2. loops'[k + 1].node = y
        BY <1>9, <1>11
    <2> QED BY <1>3, <1>15, <1>16, <1>19, <2>1, <2>2 DEF Walk
<1>20. ASSUME NEW i \in 1 .. (k + 1) - 1
       PROVE  loops'[i].next # Fresh /\ loops'[i].next # loops'[i + 1].node
    <2>1. i = k \/ (i \in 1 .. k - 1 /\ i + 1 \in 1 .. k)
        BY <1>3
    <2>2. CASE i = k
        BY <1>2, <1>9, <1>11, <2>2 DEF n
    <2>3. CASE i \in 1 .. k - 1 /\ i + 1 \in 1 .. k
        BY <1>3, <1>11, <1>15, <2>3 DEF Walk
    <2> QED BY <2>1, <2>2, <2>3
<1>21. ASSUME NEW i \in 1 .. k + 1
       PROVE  loops'[i].next
                  \in {None, Fresh} \cup Range(children'[loops'[i].node])
    <2>1. CASE i = k + 1
        BY <1>9, <1>11, <2>1
    <2>2. CASE i = k
        BY <1>2, <1>9, <1>11, <1>12, <2>2 DEF n, Members
    <2>3. CASE i \in 1 .. k - 1
        BY <1>3, <1>11, <1>12, <1>14, <2>3 DEF Walk, IteratorsValid, Members
    <2> QED BY <1>13, <2>1, <2>2, <2>3
<1> QED BY <1>11, <1>17, <1>18, <1>19, <1>20, <1>21
        DEF Walk, IteratorsValid, Members

\* What removes itself is in the list of the loop around it only, and that has
\* stepped past it.
LEMMA RemoveWalk ==
    ASSUME TypeOK, Making, TreeInv, Walk, NEW x \in Tree, Remove(x)
    PROVE  Walk'
<1> USE NodeNumbers
<1>1. /\ UNCHANGED state /\ state[x] = "Destroy" /\ x \in Nodes
      /\ parent'[x] = None
      /\ \A y \in Nodes \ {x} : parent'[y] = parent[y]
      /\ \A p \in Tree : Range(children'[p]) = Members(p) \ {x}
    BY RemoveInTree
<1>2. Lists /\ Family
    BY DEF TreeInv
<1>3. Updates(x, "Destroy") /\ loops # <<>> /\ Top.node = x
    BY DEF Remove, Updates
<1>4. PICK k \in Nat \ {0} : k = Len(loops)
    BY <1>3, TopOfLoops
<1>5. k \in 1 .. k /\ loops[k].node = x
    BY <1>3, <1>4 DEF Top
<1>6. \A i \in 1 .. k : loops[i].node \in Tree
    BY <1>4, LoopAt
<1>7. ASSUME NEW i \in 1 .. k, x \in Members(loops[i].node)
      PROVE  k >= 2 /\ i = k - 1
    <2>1. parent[x] = loops[i].node
        BY <1>2, <1>6, <1>7 DEF Lists
    <2>2. parent[x] # None
        BY <1>6, <2>1 DEF Tree
    <2>3. k >= 2 /\ parent[x] = loops[k - 1].node
        BY <1>2, <1>3, <1>4, <2>2, RemovesMember
    <2>4. k - 1 \in 1 .. k
        BY <1>4, <2>3
    <2> QED BY <1>4, <2>1, <2>3, <2>4 DEF Walk
<1>8. Begin(x) \in {None} \cup Range(children'[x])
    <2>1. x \notin Members(x)
        <3>1. k # k - 1
            BY <1>4
        <3> QED BY <1>5, <1>7, <3>1
    <2> QED BY <1>1, <2>1, BeginMember
<1>9. /\ Len(loops') = k
      /\ \A i \in 1 .. k : loops'[i].node = loops[i].node
      /\ \A i \in 1 .. k - 1 : loops'[i] = loops[i]
      /\ loops'[k].next = Begin(x)
    <2>1. Begin(x) \in Nodes \cup {None}
        BY BeginMember, MembersAt
    <2>2. ComesToLoop(Begin(x))
        BY DEF Remove, LoopAfterRemove
    <2> QED BY <1>3, <1>4, <2>1, <2>2, LoopsAfter
<1>10. \A i \in 1 .. k : i = k \/ i \in 1 .. k - 1
    BY <1>4
<1>11. loops'[1].node = Map
    <2>1. 1 \in 1 .. k
        BY <1>4
    <2> QED BY <1>3, <1>9, <2>1 DEF Walk
<1>12. ASSUME NEW i \in 2 .. k
       PROVE  /\ loops'[i].node \in Nodes
              /\ \/ loops'[i].node \in Range(children'[loops'[i - 1].node])
                 \/ /\ state'[loops'[i].node] = "Destroy"
                    /\ parent'[loops'[i].node] = None
    <2>1. i \in 1 .. k /\ i - 1 \in 1 .. k
        BY <1>4
    <2>2. /\ loops[i].node \in Nodes
          /\ \/ loops[i].node \in Members(loops[i - 1].node)
             \/ state[loops[i].node] = "Destroy" /\ parent[loops[i].node] = None
        BY <1>4 DEF Walk
    <2>3. /\ loops'[i].node = loops[i].node
          /\ loops'[i - 1].node = loops[i - 1].node
        BY <1>9, <2>1
    <2>4. CASE loops[i].node = x
        BY <1>1, <2>3, <2>4
    <2>5. CASE loops[i].node # x
        BY <1>1, <1>6, <2>1, <2>2, <2>3, <2>5
    <2> QED BY <2>4, <2>5
<1>13. \A i, j \in 1 .. k : loops'[i].node = loops'[j].node => i = j
    BY <1>4, <1>9 DEF Walk
<1>14. ASSUME NEW i \in 1 .. k - 1
       PROVE  loops'[i].next # Fresh /\ loops'[i].next # loops'[i + 1].node
    <2>1. i + 1 \in 1 .. k
        BY <1>4
    <2> QED BY <1>4, <1>9, <2>1 DEF Walk
<1>15. ASSUME NEW i \in 1 .. k
       PROVE  loops'[i].next
                  \in {None, Fresh} \cup Range(children'[loops'[i].node])
    <2>1. CASE i = k
        BY <1>5, <1>8, <1>9, <2>1
    <2>2. CASE i \in 1 .. k - 1
        <3>1. loops[i].next \in {None, Fresh} \cup Members(loops[i].node)
            BY <1>4 DEF Walk, IteratorsValid
        <3>2. loops[i].next # x \/ x \notin Members(loops[i].node)
            <4> SUFFICES ASSUME x \in Members(loops[i].node)
                         PROVE  loops[i].next # x
                OBVIOUS
            <4>1. i = k - 1 /\ i + 1 = k
                BY <1>4, <1>7
            <4> QED BY <1>4, <1>5, <2>2, <4>1 DEF Walk
        <3>3. /\ loops'[i].next = loops[i].next
              /\ loops'[i].node = loops[i].node
            BY <1>9, <2>2
        <3>4. Range(children'[loops[i].node]) = Members(loops[i].node) \ {x}
            BY <1>1, <1>6
        <3> QED BY <3>1, <3>2, <3>3, <3>4
    <2> QED BY <1>10, <2>1, <2>2
<1> QED BY <1>9, <1>11, <1>12, <1>13, <1>14, <1>15
        DEF Walk, IteratorsValid, Members

LEMMA WalkKept ==
    ASSUME IInv, [Next]_vars
    PROVE  Walk'
<1> USE NodeNumbers
<1>1. TypeOK /\ Making /\ TreeInv /\ Walk /\ Lists /\ Family /\ Transit
    BY DEF IInv, TreeInv
<1>2. ASSUME UNCHANGED <<loops, state, parent, children>>
      PROVE  Walk'
    BY <1>1, <1>2, WalkStays DEF Members
<1>3. ASSUME NEW t \in Threads,
             \/ OpenChannel(t) \/ SetId(t) \/ Insert(t) \/ Count(t)
      PROVE  Walk'
    <2>1. UNCHANGED <<loops, state, parent, children>>
        BY <1>3 DEF OpenChannel, SetId, Insert, Count, treeVars
    <2> QED BY <1>2, <2>1
<1>4. ASSUME (\E x \in Tree : MakeManager(x)) \/ MakeMonster \/ UNCHANGED vars
      PROVE  Walk'
    <2>1. UNCHANGED <<loops, state, parent, children>>
        BY <1>4 DEF MakeManager, MakeMonster, vars, treeVars
    <2> QED BY <1>2, <2>1
<1>5. ASSUME NEW t \in Threads, Make(t)
      PROVE  Walk'
    <2>1. \A x \in Nodes : state[x] = "Destroy" => state'[x] = "Destroy"
        <3>1. made + 1 \in Nodes /\ state[made + 1] = "none"
            <4>1. made + 1 \in Nodes /\ made + 1 > made
                BY <1>1, <1>5, RoomToMake DEF IInv, Make, TypeOK
            <4> QED BY <4>1 DEF IInv, Unborn
        <3> QED BY <1>1, <1>5, <3>1 DEF Make, TypeOK
    <2>2. UNCHANGED <<loops, parent, children>>
        BY <1>5 DEF Make
    <2> QED BY <1>1, <2>1, <2>2, WalkStays DEF Members
<1>6. ASSUME NEW t \in Threads, Attach(t)
      PROVE  Walk'
    <2>1. state[thread[t].node] = "Create"
        BY <1>1, <1>6, AttachStep DEF Transit, InTransit
    <2>2. \A x \in Nodes : x # thread[t].node => parent'[x] = parent[x]
        BY <1>1, <1>6 DEF Attach, TypeOK
    <2>3. UNCHANGED <<loops, state, children>>
        BY <1>6 DEF Attach
    <2> QED BY <1>1, <2>1, <2>2, <2>3, WalkStays DEF Members
<1>7. ASSUME NEW t \in IOThreads, Link(t)
      PROVE  Walk'
    <2>1. UNCHANGED <<loops, state, parent>>
        BY <1>7 DEF Link
    <2>2. ASSUME NEW p \in Tree
          PROVE  Members(p) \subseteq Range(children'[p])
        <3>1. thread[t].node \in Nodes /\ children[Map] \in Seq(Nodes)
            BY <1>1, <1>7, LinkStep DEF TypeOK
        <3>2. \A y \in Range(children[Map]) :
                  y \in Range(Append(children[Map], thread[t].node))
            BY <3>1, AppendMembers
        <3>3. \/ children' = children
              \/ children' = [children EXCEPT ![Map] =
                                 Append(children[Map], thread[t].node)]
            BY <1>7 DEF Link
        <3> QED BY <1>1, <2>2, <3>2, <3>3 DEF Members, TypeOK, Tree
    <2> QED BY <1>1, <2>1, <2>2, WalkStays
<1>8. ASSUME NEW x \in Tree, Tick(x)
      PROVE  Walk'
    <2>1. \A y \in Tree : state'[y] \in {state[y], "Destroy"}
        BY <1>1, <1>8, TickInTree
    <2>2. UNCHANGED <<parent, children>> /\ ComesToLoop(Begin(x))
          /\ loops # <<>> /\ Top.node = x
        BY <1>8 DEF Tick, Updates
    <2>3. Begin(x) \in {None} \cup Members(x) /\ Begin(x) \in Nodes \cup {None}
        BY <1>1, BeginMember, MembersAt
    <2>4. /\ Len(loops') = Len(loops)
          /\ \A i \in 1 .. Len(loops) : loops'[i].node = loops[i].node
          /\ \A i \in 1 .. Len(loops) - 1 : loops'[i] = loops[i]
          /\ loops'[Len(loops)].next = Begin(x)
        BY <1>1, <2>2, <2>3, LoopsAfter
    <2>5. \A p : Range(children'[p]) = Members(p)
        BY <2>2 DEF Members
    <2>6. \A y \in Nodes : state[y] = "Destroy" => state'[y] = "Destroy"
        BY <2>1 DEF Tree
    <2> QED BY <1>1, <2>2, <2>3, <2>4, <2>5, <2>6, WalkGrows
<1>9. ASSUME NEW x \in Tree, BeginPlay(x)
      PROVE  Walk'
    <2>1. UNCHANGED <<parent, children>> /\ ComesToLoop(Begin(x))
          /\ loops # <<>> /\ Top.node = x /\ state[x] = "Create"
          /\ state' = [state EXCEPT ![x] = "Alive"]
        BY <1>9 DEF BeginPlay, Updates, Begun
    <2>2. Begin(x) \in {None} \cup Members(x) /\ Begin(x) \in Nodes \cup {None}
        BY <1>1, BeginMember, MembersAt
    <2>3. /\ Len(loops') = Len(loops)
          /\ \A i \in 1 .. Len(loops) : loops'[i].node = loops[i].node
          /\ \A i \in 1 .. Len(loops) - 1 : loops'[i] = loops[i]
          /\ loops'[Len(loops)].next = Begin(x)
        BY <1>1, <2>1, <2>2, LoopsAfter
    <2>4. \A p : Range(children'[p]) = Members(p)
        BY <2>1 DEF Members
    <2>5. \A y \in Nodes : state[y] = "Destroy" => state'[y] = "Destroy"
        BY <1>1, <2>1 DEF TypeOK
    <2> QED BY <1>1, <2>1, <2>2, <2>3, <2>4, <2>5, WalkGrows
<1>10. ASSUME AttachManager
       PROVE  Walk'
    <2>1. /\ \A p \in Tree : Members(p) \subseteq Range(children'[p])
          /\ manager \in Range(children'[Top.node])
          /\ state[Top.node] = "Create"
          /\ state[manager] = "Create" /\ state[thread["game"].node] = "Create"
        BY <1>1, <1>10, AttachManagerInTree DEF Members
    <2>2. ComesToLoop(manager) /\ manager \in Nodes /\ loops # <<>>
        <3>1. thread["game"].at # "idle" /\ ComesToLoop(manager)
            BY <1>10 DEF AttachManager
        <3> QED BY <1>1, <1>10, <3>1, GameBegins, AttachManagerStep
    <2>3. /\ Len(loops') = Len(loops)
          /\ \A i \in 1 .. Len(loops) : loops'[i].node = loops[i].node
          /\ \A i \in 1 .. Len(loops) - 1 : loops'[i] = loops[i]
          /\ loops'[Len(loops)].next = manager
        BY <1>1, <2>2, LoopsAfter
    <2>4. \A y \in Nodes : state[y] = "Destroy" /\ parent[y] = None
                               => state'[y] = "Destroy" /\ parent'[y] = None
        <3> SUFFICES ASSUME NEW y \in Nodes, state[y] = "Destroy"
                     PROVE  state'[y] = state[y] /\ parent'[y] = parent[y]
            OBVIOUS
        <3>1. y # Top.node /\ y # manager /\ y # thread["game"].node
            BY <2>1
        <3> QED BY <1>1, <1>10, <3>1 DEF AttachManager, TypeOK
    <2> QED BY <1>1, <2>1, <2>2, <2>3, <2>4, WalkGrows
<1> QED BY <1>1, <1>3, <1>4, <1>5, <1>6, <1>7, <1>8, <1>9, <1>10, FrameWalk,
           ReturnWalk, DescendWalk, RemoveWalk
        DEF Next, GameStep, Creates, Opens, Threads, Tree

-----------------------------------------------------------------------------
(* The budget of three nodes for each channel. *)

\* Steps that make no node and begin none.
LEMMA QuietBudget ==
    ASSUME Budget, UNCHANGED <<made, opened>>, MadeByGame' = MadeByGame,
           \A t \in IOThreads : thread'[t].at = "make" <=> thread[t].at = "make",
           \A x \in Nodes : x \in Unbegun' => x \in Unbegun,
           TypeOK
    PROVE  Budget'
<1>1. Openers' = Openers
    BY DEF Openers
<1>2. Unbegun' \subseteq Unbegun
    BY DEF Unbegun
<1>3. PICK U : U = Unbegun'
    OBVIOUS
<1>4. /\ Cardinality(U) \in Nat /\ Cardinality(Unbegun) \in Nat
      /\ Cardinality(U) <= Cardinality(Unbegun)
    BY <1>2, <1>3, Counts, ComponentTreeAssumption, FS_Subset, FS_CardinalityType
<1>5. PICK a, b, c, o, g : /\ a = Cardinality(Openers) /\ b = Cardinality(Unbegun)
                           /\ c = Cardinality(U) /\ o = opened /\ g = MadeByGame
    OBVIOUS
<1>6. /\ made + 3 * a + 2 * b <= 3 * o + g
      /\ made \in Nat /\ a \in Nat /\ b \in Nat /\ c \in Nat /\ c <= b
      /\ o \in Nat /\ g \in {0, 1, 2}
    BY <1>4, <1>5, Counts, ComponentTreeAssumption
    DEF Budget, TypeOK, MadeByGame
<1>7. made + 3 * a + 2 * c <= 3 * o + g
    BY <1>6
<1> QED BY <1>1, <1>3, <1>5, <1>7 DEF Budget

\* A node is made, a channel opened or begun: a, b, c, o and g count what
\* Budget does.
LEMMA BudgetMoves ==
    ASSUME TypeOK, Budget,
           NEW a \in Nat, NEW b \in Nat, NEW g \in {0, 1, 2},
           Cardinality(Openers') = a, Cardinality(Unbegun') <= b,
           Cardinality(Unbegun') \in Nat, MadeByGame' = g,
           made' \in Nat, opened' \in Nat,
           3 * opened + MadeByGame - made - 3 * Cardinality(Openers)
               - 2 * Cardinality(Unbegun)
             <= 3 * opened' + g - made' - 3 * a - 2 * b
    PROVE  Budget'
<1>1. PICK a0, b0, b1, o, g0, m, n, q :
          /\ a0 = Cardinality(Openers) /\ b0 = Cardinality(Unbegun)
          /\ b1 = Cardinality(Unbegun') /\ o = opened /\ g0 = MadeByGame
          /\ m = made /\ n = made' /\ q = opened'
    OBVIOUS
<1>2. m + 3 * a0 + 2 * b0 <= 3 * o + g0
    BY <1>1 DEF Budget
<1>3. /\ m \in Nat /\ a0 \in Nat /\ b0 \in Nat /\ b1 \in Nat /\ b1 <= b
      /\ o \in Nat /\ g0 \in {0, 1, 2} /\ n \in Nat /\ q \in Nat
    <2>1. made \in Nat /\ opened \in Nat
        BY ComponentTreeAssumption DEF TypeOK
    <2>2. MadeByGame \in {0, 1, 2}
        BY DEF MadeByGame
    <2>3. Cardinality(Openers) \in Nat /\ Cardinality(Unbegun) \in Nat
        BY Counts, ComponentTreeAssumption
    <2> QED BY <1>1, <2>1, <2>2, <2>3
<1>4. 3 * o + g0 - m - 3 * a0 - 2 * b0 <= 3 * q + g - n - 3 * a - 2 * b
    BY <1>1
<1>5. 0 <= 3 * q + g - n - 3 * a - 2 * b
    BY <1>2, <1>3, <1>4
<1>6. n + 3 * a + 2 * b1 <= 3 * q + g
    BY <1>3, <1>5
<1> QED BY <1>1, <1>6 DEF Budget

LEMMA OpenBudget ==
    ASSUME TypeOK, Making, Budget, NEW t \in Threads, OpenChannel(t)
    PROVE  Budget'
<1>1. /\ t \in IOThreads /\ t # "game" /\ thread[t].at = "idle"
      /\ thread' = [thread EXCEPT ![t] = [at |-> "make", node |-> None]]
      /\ opened' = opened + 1 /\ made' = made
      /\ UNCHANGED <<state, parent, manager>>
    BY ComponentTreeAssumption DEF OpenChannel, Create, treeVars
<1>2. /\ \A u \in Threads \ {t} : thread'[u] = thread[u]
      /\ thread'[t] = [at |-> "make", node |-> None]
      /\ "game" \in Threads /\ IOThreads \subseteq Threads
    BY <1>1 DEF TypeOK, Threads
<1>3. Openers' = Openers \cup {t} /\ t \notin Openers
    BY <1>1, <1>2 DEF Openers
<1>4. thread[t].node = None
    BY <1>1 DEF Making
<1>5. Unbegun' = Unbegun
    BY <1>1, <1>2, <1>4 DEF Unbegun
<1>6. MadeByGame' = MadeByGame
    BY <1>1, <1>2 DEF MadeByGame
<1>7. Cardinality(Openers') = Cardinality(Openers) + 1
    BY <1>3, Counts, ComponentTreeAssumption, FS_AddElement
<1>8. PICK a, b, g : /\ a = Cardinality(Openers) /\ b = Cardinality(Unbegun)
                     /\ g = MadeByGame
    OBVIOUS
<1>9. /\ a \in Nat /\ b \in Nat /\ g \in {0, 1, 2} /\ made \in Nat
      /\ opened \in Nat
    BY <1>8, Counts, ComponentTreeAssumption DEF TypeOK, MadeByGame
<1>10. /\ a + 1 \in Nat /\ opened + 1 \in Nat
       /\ 3 * opened + g - made - 3 * a - 2 * b
            <= 3 * (opened + 1) + g - made - 3 * (a + 1) - 2 * b
       /\ b <= b
    BY <1>9
<1> QED BY <1>1, <1>5, <1>6, <1>7, <1>8, <1>9, <1>10, BudgetMoves

LEMMA MakeBudget ==
    ASSUME TypeOK, Making, Unborn, Budget, NEW t \in Threads, Make(t)
    PROVE  Budget'
<1> USE NodeNumbers
<1>1. /\ thread'[t] = [at |-> "id", node |-> made + 1]
      /\ made + 1 \in Nodes
      /\ \A u \in Threads \ {t} : thread'[u] = thread[u]
      /\ thread[t].at = "make" /\ thread[t].node = None
    BY MakeStep DEF Make, Making
<1>2. /\ UNCHANGED <<parent, manager, opened>> /\ made' = made + 1
      /\ state' = [state EXCEPT ![made + 1] = "Create"]
    BY DEF Make
<1>3. state[made + 1] = "none" /\ parent[made + 1] = None
    <2>1. made + 1 > made
        BY DEF TypeOK
    <2> QED BY <1>1, <2>1 DEF Unborn
<1>4. /\ \A x \in Nodes \ {made + 1} : state'[x] = state[x]
      /\ "game" \in Threads /\ IOThreads \subseteq Threads
    BY <1>2 DEF TypeOK, Threads
<1>5. made + 1 \notin Unbegun
    BY <1>3 DEF Unbegun
<1>6. PICK a, b, g : /\ a = Cardinality(Openers) /\ b = Cardinality(Unbegun)
                     /\ g = MadeByGame
    OBVIOUS
<1>7. /\ a \in Nat /\ b \in Nat /\ g \in {0, 1, 2} /\ made \in Nat
      /\ opened \in Nat
    BY <1>6, Counts, ComponentTreeAssumption DEF TypeOK, MadeByGame
<1>8. CASE t = "game"
    <2>1. Openers' = Openers
        BY <1>1, <1>4, <1>8, ComponentTreeAssumption DEF Openers
    <2>2. Unbegun' = Unbegun
        <3>1. \A u \in IOThreads : thread'[u] = thread[u]
            BY <1>1, <1>4, <1>8, ComponentTreeAssumption
        <3>2. \A u \in IOThreads : thread'[u].node # made + 1
            BY <1>4, <3>1, <1>1, MakeStep, <1>8, ComponentTreeAssumption
            DEF Unborn, InTransit, TypeOK
        <3>3. \A x \in Nodes : x \in Unbegun' <=> x \in Unbegun
            BY <1>2, <1>3, <1>4, <3>1, <3>2 DEF Unbegun
        <3> QED BY <3>3 DEF Unbegun
    <2>3. MadeByGame' = g + 1 /\ g \in {0, 1}
        BY <1>1, <1>2, <1>6, <1>8 DEF MadeByGame
    <2>4. /\ g + 1 \in {0, 1, 2} /\ made + 1 \in Nat
          /\ 3 * opened + g - made - 3 * a - 2 * b
               <= 3 * opened + (g + 1) - (made + 1) - 3 * a - 2 * b
          /\ b <= b
        BY <1>7, <2>3
    <2> QED BY <1>2, <1>6, <1>7, <2>1, <2>2, <2>3, <2>4, BudgetMoves
<1>9. CASE t # "game"
    <2>1. t \in Openers /\ Openers' = Openers \ {t}
        BY <1>1, <1>4, <1>9 DEF Openers, Threads
    <2>2. Unbegun' = Unbegun \cup {made + 1}
        <3>1. \A u \in IOThreads \ {t} : thread'[u] = thread[u]
            BY <1>1, <1>4
        <3>2. t \in IOThreads
            BY <1>9 DEF Threads
        <3>3. \A x \in Nodes : x \in Unbegun' <=> x \in Unbegun \/ x = made + 1
            <4> TAKE x \in Nodes
            <4>1. CASE x = made + 1
                BY <1>1, <1>2, <3>2, <4>1 DEF Unbegun, TypeOK
            <4>2. CASE x # made + 1
                BY <1>1, <1>2, <1>4, <3>1, <3>2, <4>2 DEF Unbegun
            <4> QED BY <4>1, <4>2
        <3>4. Unbegun' \subseteq Nodes /\ Unbegun \subseteq Nodes
            BY DEF Unbegun
        <3> QED BY <1>1, <3>3, <3>4
    <2>3. MadeByGame' = g
        BY <1>1, <1>2, <1>4, <1>6, <1>9 DEF MadeByGame
    <2>4. Cardinality(Openers') = a - 1
        BY <1>6, <2>1, Counts, ComponentTreeAssumption, FS_RemoveElement
    <2>5. Cardinality(Unbegun') = b + 1
        BY <1>5, <1>6, <2>2, Counts, ComponentTreeAssumption, FS_AddElement
    <2>6. a # 0
        BY <1>6, <2>1, Counts, ComponentTreeAssumption, FS_EmptySet
    <2>7. /\ a - 1 \in Nat /\ b + 1 \in Nat /\ made + 1 \in Nat
          /\ 3 * opened + g - made - 3 * a - 2 * b
               <= 3 * opened + g - (made + 1) - 3 * (a - 1) - 2 * (b + 1)
          /\ b + 1 <= b + 1
        BY <1>7, <2>6
    <2> QED BY <1>2, <1>6, <1>7, <2>3, <2>4, <2>5, <2>7, BudgetMoves
<1> QED BY <1>8, <1>9

LEMMA BeginBudget ==
    ASSUME TypeOK, Making, TreeInv, Walk, Budget, AttachManager
    PROVE  Budget'
<1> USE NodeNumbers
<1>1. /\ Top.node \in Nodes /\ state[Top.node] = "Create"
      /\ parent[Top.node] = Map
      /\ Top.node # manager /\ Top.node # thread["game"].node
    BY AttachManagerInTree
<1>2. /\ thread'["game"] = Resting
      /\ thread["game"].node \in Nodes /\ manager \in Nodes
      /\ manager # thread["game"].node
      /\ \A u \in Threads \ {"game"} : thread'[u] = thread[u]
    BY AttachManagerStep
<1>3. /\ thread["game"].at = "created" /\ manager # None
      /\ UNCHANGED <<made, opened>>
      /\ parent' = [parent EXCEPT ![thread["game"].node] = manager,
                                  ![manager] = Top.node]
      /\ state' = [state EXCEPT ![Top.node] = "Alive"]
    BY DEF AttachManager, Begun, madeVars
<1>4. MadeByGame = 2 /\ MadeByGame' = 0
    BY <1>2, <1>3 DEF MadeByGame, Resting
<1>5. Openers' = Openers
    BY <1>2, ComponentTreeAssumption DEF Openers, Threads
<1>6. PICK U : U = Unbegun'
    OBVIOUS
<1>7. U \subseteq Unbegun \ {Top.node}
    <2>1. state'[Top.node] = "Alive"
        BY <1>1, <1>3 DEF TypeOK
    <2>2. \A x \in Nodes : x # Top.node => state'[x] = state[x]
        BY <1>3 DEF TypeOK
    <2>3. \A x \in Nodes : parent'[x] = Map => parent[x] = Map
        BY <1>1, <1>2, <1>3 DEF TypeOK
    <2>4. \A u \in IOThreads : thread'[u] = thread[u]
        BY <1>2, ComponentTreeAssumption DEF Threads
    <2>5. \A x \in Nodes : x \in Unbegun' => x \in Unbegun /\ x # Top.node
        BY <2>1, <2>2, <2>3, <2>4 DEF Unbegun
    <2> QED BY <1>6, <2>5 DEF Unbegun
<1>8. Top.node \in Unbegun
    BY <1>1 DEF Unbegun
<1>9. PICK a, b, c : /\ a = Cardinality(Openers) /\ b = Cardinality(Unbegun)
                     /\ c = Cardinality(U)
    OBVIOUS
<1>10. a \in Nat /\ b \in Nat /\ made \in Nat /\ opened \in Nat
    BY <1>9, Counts, ComponentTreeAssumption DEF TypeOK
<1>11. Cardinality(Unbegun \ {Top.node}) = b - 1
       /\ IsFiniteSet(Unbegun \ {Top.node})
    BY <1>8, <1>9, Counts, ComponentTreeAssumption, FS_RemoveElement
<1>12. b # 0
    BY <1>8, <1>9, Counts, ComponentTreeAssumption, FS_EmptySet
<1>13. c \in Nat /\ c <= b - 1
    BY <1>7, <1>9, <1>11, FS_Subset, FS_CardinalityType
<1>14. /\ b - 1 \in Nat /\ 0 \in {0, 1, 2}
       /\ 3 * opened + 2 - made - 3 * a - 2 * b
            <= 3 * opened + 0 - made - 3 * a - 2 * (b - 1)
    BY <1>10, <1>12
<1> QED BY <1>3, <1>4, <1>5, <1>6, <1>9, <1>10, <1>13, <1>14, BudgetMoves

LEMMA BudgetStep ==
    ASSUME IInv, [Next]_vars
    PROVE  Budget'
<1> USE NodeNumbers
<1>1. TypeOK /\ Making /\ TreeInv /\ Walk /\ Budget /\ Unborn /\ Transit
    BY DEF IInv, TreeInv
<1>2. "game" \in Threads /\ IOThreads \subseteq Threads /\ "game" \notin IOThreads
    BY ComponentTreeAssumption DEF Threads
<1>3. ASSUME NEW t \in Threads, SetId(t) \/ Insert(t) \/ Count(t)
      PROVE  Budget'
    <2>1. /\ UNCHANGED <<made, opened, state, parent, manager>>
          /\ thread[t].at \notin {"idle", "make", "link"}
          /\ thread'[t].at \notin {"idle", "make", "link"}
        BY <1>1, <1>3 DEF SetId, Insert, Count, madeVars, treeVars, TypeOK
    <2>2. /\ \A u \in Threads : thread'[u].node = thread[u].node
          /\ \A u \in Threads \ {t} : thread'[u] = thread[u]
        BY <1>1, <1>3, SetIdStep
    <2>3. MadeByGame' = MadeByGame
        BY <1>2, <2>1, <2>2 DEF MadeByGame
    <2>4. \A u \in IOThreads : thread'[u].at = "make" <=> thread[u].at = "make"
        BY <1>2, <2>1, <2>2
    <2>5. \A x \in Nodes : x \in Unbegun' => x \in Unbegun
        BY <1>2, <2>1, <2>2 DEF Unbegun
    <2> QED BY <1>1, <2>1, <2>3, <2>4, <2>5, QuietBudget
<1>4. ASSUME NEW t \in Threads, Attach(t)
      PROVE  Budget'
    <2>1. /\ UNCHANGED <<made, opened, state, manager>>
          /\ t \in IOThreads
          /\ thread[t].at = "created"
          /\ thread' = [thread EXCEPT ![t].at = "link"]
          /\ parent' = [parent EXCEPT ![thread[t].node] = Map]
        BY <1>4 DEF Attach, madeVars
    <2>2. /\ \A u \in Threads : thread'[u].node = thread[u].node
          /\ \A u \in Threads \ {t} : thread'[u] = thread[u]
          /\ thread[t].node \in Nodes
        BY <1>1, <1>4, AttachStep
    <2>3. thread'[t].at = "link"
        BY <1>1, <2>1 DEF TypeOK
    <2>4. MadeByGame' = MadeByGame
        BY <1>2, <2>1, <2>2 DEF MadeByGame
    <2>5. \A u \in IOThreads : thread'[u].at = "make" <=> thread[u].at = "make"
        BY <1>2, <2>1, <2>2, <2>3
    <2>6. \A x \in Nodes : x # thread[t].node => parent'[x] = parent[x]
        BY <1>1, <2>1 DEF TypeOK
    <2>7. \A x \in Nodes : x \in Unbegun' => x \in Unbegun
        BY <1>2, <2>1, <2>2, <2>6 DEF Unbegun
    <2> QED BY <1>1, <2>1, <2>4, <2>5, <2>7, QuietBudget
<1>5. ASSUME NEW t \in IOThreads, Link(t)
      PROVE  Budget'
    <2>1. /\ UNCHANGED <<made, opened, state, parent, manager>>
          /\ thread[t].at = "link"
        BY <1>5 DEF Link, madeVars
    <2>2. /\ thread'[t].at = "idle" /\ thread'[t].node = None
          /\ \A u \in Threads \ {t} : thread'[u] = thread[u]
        BY <1>1, <1>5, LinkStep DEF Resting
    <2>3. MadeByGame' = MadeByGame
        BY <1>2, <2>1, <2>2 DEF MadeByGame
    <2>4. \A u \in IOThreads : thread'[u].at = "make" <=> thread[u].at = "make"
        BY <1>2, <2>1, <2>2
    <2>5. \A x \in Nodes : x \in Unbegun' => x \in Unbegun
        BY <1>2, <2>1, <2>2 DEF Unbegun
    <2> QED BY <1>1, <2>1, <2>3, <2>4, <2>5, QuietBudget
<1>6. ASSUME UNCHANGED <<made, opened, thread, manager>>,
             \A x \in Nodes : state'[x] = "Create" => state[x] = "Create",
             \A x \in Nodes : parent'[x] = Map => parent[x] = Map
      PROVE  Budget'
    <2>1. MadeByGame' = MadeByGame
        BY <1>6 DEF MadeByGame
    <2>2. \A x \in Nodes : x \in Unbegun' => x \in Unbegun
        BY <1>6 DEF Unbegun
    <2> QED BY <1>1, <1>6, <2>1, <2>2, QuietBudget
<1>7. ASSUME Frame \/ Descend \/ Return \/ UNCHANGED vars
      PROVE  Budget'
    <2>1. UNCHANGED <<made, opened, thread, manager, state, parent>>
        BY <1>7 DEF Frame, Descend, Return, vars, madeVars, treeVars
    <2> QED BY <1>6, <2>1
<1>8. ASSUME NEW x \in Tree, Tick(x)
      PROVE  Budget'
    <2>1. \A y \in Nodes : state'[y] \in {state[y], "Destroy"}
        BY <1>1, <1>8, TickInTree DEF Tree
    <2>2. UNCHANGED <<made, opened, thread, manager, parent>>
        BY <1>8 DEF Tick, madeVars
    <2> QED BY <1>6, <2>1, <2>2
<1>9. ASSUME NEW x \in Tree, BeginPlay(x)
      PROVE  Budget'
    <2>1. \A y \in Nodes : state'[y] \in {state[y], "Alive"}
        BY <1>1, <1>9 DEF BeginPlay, Begun, TypeOK
    <2>2. UNCHANGED <<made, opened, thread, manager, parent>>
        BY <1>9 DEF BeginPlay, madeVars
    <2> QED BY <1>6, <2>1, <2>2
<1>10. ASSUME NEW x \in Tree, Remove(x)
       PROVE  Budget'
    <2>1. UNCHANGED <<made, opened, thread, manager, state>>
        BY <1>10 DEF Remove, madeVars
    <2>2. \A y \in Nodes : parent'[y] = Map => parent[y] = Map
        BY <1>1, <1>10, RemoveInTree
    <2> QED BY <1>6, <2>1, <2>2
<1>11. ASSUME NEW x \in Tree, MakeManager(x)
       PROVE  Budget'
    <2>1. /\ UNCHANGED <<made, opened, state, parent, manager>>
          /\ thread["game"].at = "idle"
          /\ thread' = [thread EXCEPT !["game"] =
                            [at |-> "make", node |-> None]]
        BY <1>11 DEF MakeManager, Updates, Create, madeVars, treeVars
    <2>2. /\ \A u \in IOThreads : thread'[u] = thread[u]
          /\ thread'["game"].at = "make" /\ manager = None
        BY <1>1, <1>2, <2>1 DEF TypeOK, Making
    <2>3. MadeByGame' = MadeByGame
        BY <2>1, <2>2 DEF MadeByGame
    <2>4. \A y \in Nodes : y \in Unbegun' => y \in Unbegun
        BY <2>1, <2>2 DEF Unbegun
    <2> QED BY <1>1, <2>1, <2>2, <2>3, <2>4, QuietBudget
<1>12. ASSUME MakeMonster
       PROVE  Budget'
    <2>1. UNCHANGED <<made, opened, state, parent>>
        BY <1>12 DEF MakeMonster, madeVars, treeVars
    <2>2. /\ thread'["game"].at = "make" /\ thread["game"].at = "created"
          /\ manager' # None /\ manager = None
          /\ \A u \in IOThreads : thread'[u] = thread[u]
        BY <1>1, <1>2, <1>12, MonsterStep
    <2>3. MadeByGame' = MadeByGame
        BY <2>2 DEF MadeByGame
    <2>4. \A y \in Nodes : y \in Unbegun' => y \in Unbegun
        BY <2>1, <2>2 DEF Unbegun
    <2> QED BY <1>1, <2>1, <2>2, <2>3, <2>4, QuietBudget
<1> QED BY <1>1, <1>3, <1>4, <1>5, <1>7, <1>8, <1>9, <1>10, <1>11, <1>12,
           OpenBudget, MakeBudget, BeginBudget
        DEF Next, GameStep, Creates, Opens, Threads, Tree

-----------------------------------------------------------------------------
(* The table of components. *)

\* Steps that leave the table and the count alone.
LEMMA QuietTable ==
    ASSUME TypeOK, Table, ~raced, UNCHANGED <<id, count, Components>>,
           \A t \in Threads :
               \/ thread'[t] = thread[t]
               \/ thread'[t].at = "idle" /\ thread[t].at # "count"
               \/ /\ thread'[t].node = thread[t].node
                  /\ thread[t].at = "created" /\ thread'[t].at = "link",
           manager' \in {manager, None},
           \A x \in Nodes : state[x] # "none" => state'[x] # "none",
           \A x \in Nodes : parent'[x] # None =>
               \/ parent[x] # None
               \/ [key |-> id[x], com |-> x] \in Components,
           \A x \in Nodes : Removed(x)' => Removed(x)
    PROVE  Table'
<1>1. \A t, u \in Threads : Inside(t)' /\ Inside(u)' => t = u
    BY DEF Table, Inside
<1>2. \A e \in Components : e.com \in Nodes
    BY DEF TypeOK
<1>3. \A e \in Components :
          /\ id[e.com] = e.key /\ state'[e.com] # "none"
          /\ e.key <= count
          /\ e.key = count => \E t \in Threads : thread'[t].at = "count"
    <2> TAKE e \in Components
    <2>1. /\ id[e.com] = e.key /\ state[e.com] # "none"
          /\ e.key <= count
          /\ e.key = count => \E t \in Threads : thread[t].at = "count"
        BY DEF Table
    <2>2. \A t \in Threads : thread[t].at = "count" => thread'[t].at = "count"
        OBVIOUS
    <2> QED BY <1>2, <2>1, <2>2
<1>4. \A t \in Threads :
          /\ thread'[t].at \in {"id", "insert"} =>
                \A e \in Components : e.com # thread'[t].node
          /\ thread'[t].at \in {"insert", "count"} =>
                id[thread'[t].node] = count
          /\ thread'[t].at \in {"count", "created", "link"} =>
                [key |-> id[thread'[t].node], com |-> thread'[t].node]
                    \in Components
    BY DEF Table
<1>5. manager' # None =>
          [key |-> id[manager'], com |-> manager'] \in Components
    BY DEF Table
<1>6. \A x \in Nodes :
          /\ parent'[x] # None => [key |-> id[x], com |-> x] \in Components
          /\ Removed(x)' => \A e \in Components : e.com # x
    BY DEF Table, Registered, Created
<1>7. Registered'
    BY <1>6 DEF Registered, Created
<1>8. \A e, f \in Components : e.key = f.key => e = f
    BY DEF Table
<1> QED BY <1>1, <1>3, <1>4, <1>5, <1>7, <1>8 DEF Table

\* A call of CreateComponent begins while no other is under way.
LEMMA CallTable ==
    ASSUME TypeOK, Table, ~raced, NEW t \in Threads, Create(t), ~raced',
           ~Inside(t), UNCHANGED <<id, count, Components, treeVars>>,
           manager' # None =>
               \/ manager' = manager
               \/ thread[t].at = "created" /\ manager' = thread[t].node
    PROVE  Table'
<1>1. /\ \A u \in Threads \ {t} : thread'[u] = thread[u] /\ ~Inside(u)
      /\ thread'[t] = [at |-> "make", node |-> None]
    BY DEF Create, TypeOK
<1>2. \A u, v \in Threads : Inside(u)' /\ Inside(v)' => u = v
    BY <1>1 DEF Inside
<1>3. \A u \in Threads : thread[u].at # "count"
    BY <1>1 DEF Inside
<1>4. \A u \in Threads :
          /\ thread'[u].at \notin {"id", "insert", "count"}
          /\ thread'[u].at \in {"created", "link"} => thread'[u] = thread[u]
    BY <1>1 DEF Inside
<1>5. manager' # None =>
          [key |-> id[manager'], com |-> manager'] \in Components
    BY DEF Table
<1>6. UNCHANGED <<state, parent>>
    BY DEF treeVars
<1>7. Registered'
    BY <1>6 DEF Table, Registered, Created, Removed
<1>8. \A u \in Threads :
          /\ thread'[u].at \in {"id", "insert"} =>
                \A e \in Components : e.com # thread'[u].node
          /\ thread'[u].at \in {"insert", "count"} =>
                id[thread'[u].node] = count
          /\ thread'[u].at \in {"count", "created", "link"} =>
                [key |-> id[thread'[u].node], com |-> thread'[u].node]
                    \in Components
    BY <1>4 DEF Table
<1>9. \A e \in Components :
          /\ id[e.com] = e.key /\ state[e.com] # "none"
          /\ e.key <= count /\ e.key # count
    BY <1>3 DEF Table
<1>10. \A e, f \in Components : e.key = f.key => e = f
    BY DEF Table
<1> QED BY <1>2, <1>5, <1>6, <1>7, <1>8, <1>9, <1>10 DEF Table

\* The three accesses of a call that nobody comes between.
LEMMA MakeTable ==
    ASSUME TypeOK, Making, Budget, TreeInv, Table, ~raced,
           NEW t \in Threads, Make(t)
    PROVE  Table'
<1> USE NodeNumbers
<1> DEFINE n == made + 1
<1>1. /\ thread'[t] = [at |-> "id", node |-> n]
      /\ n \in Nodes
      /\ \A u \in Threads \ {t} : thread'[u] = thread[u]
      /\ thread[t].at = "make"
    BY MakeStep DEF TreeInv, Make
<1>2. /\ UNCHANGED <<Components, raced, parent, manager>>
      /\ state' = [state EXCEPT ![n] = "Create"]
      /\ id' = [id EXCEPT ![n] = count] /\ count' = count + 1
    BY DEF Make
<1>3. state[n] = "none" /\ parent[n] = None /\ ~InTransit(n)
    <2>1. n > made
        BY DEF TypeOK
    <2> QED BY <1>1, <2>1 DEF TreeInv, Unborn
<1>4. /\ \A x \in Nodes \ {n} : state'[x] = state[x] /\ id'[x] = id[x]
      /\ state'[n] = "Create"
      /\ count \in Nat
      /\ Components \subseteq [key : Nat, com : Nodes]
    BY <1>1, <1>2 DEF TypeOK
<1> HIDE DEF n
<1>5. \A e \in Components : e.com \in Nodes /\ e.com # n /\ e.key \in Nat
    BY <1>3, <1>4 DEF Table
<1>6. \A u \in Threads \ {t} : ~Inside(u) /\ thread[u].node # n
    BY <1>1, <1>3 DEF Table, Inside, InTransit
<1>7. \A u, v \in Threads : Inside(u)' /\ Inside(v)' => u = v
    BY <1>1, <1>6 DEF Inside
<1>8. \A e \in Components :
          /\ id'[e.com] = e.key /\ state'[e.com] # "none"
          /\ e.key <= count' /\ e.key # count'
    <2> TAKE e \in Components
    <2>1. /\ id[e.com] = e.key /\ state[e.com] # "none" /\ e.key <= count
        BY DEF Table
    <2>2. e.key <= count + 1 /\ e.key # count + 1
        BY <1>4, <1>5, <2>1
    <2> QED BY <1>2, <1>4, <1>5, <2>1, <2>2
<1>9. \A u \in Threads :
          /\ thread'[u].at \in {"id", "insert"} =>
                \A e \in Components : e.com # thread'[u].node
          /\ thread'[u].at \notin {"insert", "count"}
          /\ thread'[u].at \in {"created", "link"} =>
                [key |-> id'[thread'[u].node], com |-> thread'[u].node]
                    \in Components
    <2> TAKE u \in Threads
    <2>1. CASE u = t
        BY <1>1, <1>5, <2>1
    <2>2. CASE u # t
        <3>1. thread'[u] = thread[u] /\ ~Inside(u) /\ thread[u].node # n
            BY <1>1, <1>6, <2>2
        <3>2. thread[u].at \in {"created", "link"} =>
                  /\ thread[u].node \in Nodes \ {n}
                  /\ [key |-> id[thread[u].node], com |-> thread[u].node]
                         \in Components
            BY <3>1 DEF Making, Table, TypeOK
        <3> QED BY <1>4, <3>1, <3>2 DEF Inside
    <2> QED BY <2>1, <2>2
<1>10. manager' # None =>
           [key |-> id'[manager'], com |-> manager'] \in Components
    <2>1. manager # n /\ manager \in Nodes \cup {None}
        BY <1>3 DEF InTransit, TypeOK
    <2> QED BY <1>2, <1>4, <2>1 DEF Table
<1>11. Registered'
    <2> SUFFICES ASSUME NEW x \in Nodes
                 PROVE  /\ parent[x] # None =>
                               [key |-> id'[x], com |-> x] \in Components
                        /\ state'[x] = "Destroy" /\ parent[x] = None =>
                               \A e \in Components : e.com # x
        BY <1>2 DEF Registered, Created, Removed
    <2>1. CASE x = n
        BY <1>3, <1>4, <2>1
    <2>2. CASE x # n
        BY <1>4, <2>2 DEF Table, Registered, Created, Removed
    <2> QED BY <2>1, <2>2
<1>12. \A e, f \in Components : e.key = f.key => e = f
    BY DEF Table
<1> QED BY <1>2, <1>7, <1>8, <1>9, <1>10, <1>11, <1>12 DEF Table

LEMMA SetIdTable ==
    ASSUME TypeOK, Making, TreeInv, Table, ~raced,
           NEW t \in Threads, SetId(t)
    PROVE  Table'
<1> USE NodeNumbers
<1> DEFINE n == thread[t].node
<1>1. /\ \A u \in Threads : thread'[u].node = thread[u].node
      /\ \A u \in Threads \ {t} : thread'[u] = thread[u]
      /\ thread[t].at = "id" /\ thread'[t].at = "insert"
      /\ n \in Nodes
    <2>1. /\ thread[t].at = "id"
          /\ thread' = [thread EXCEPT ![t].at = "insert"]
        BY DEF SetId
    <2>2. thread'[t].at = "insert"
        BY <2>1 DEF TypeOK
    <2>3. n \in Nodes
        BY <2>1 DEF TypeOK, Making
    <2> QED BY <2>1, <2>2, <2>3, SetIdStep
<1>2. /\ UNCHANGED <<Components, raced, parent, state, manager, count>>
      /\ id' = [id EXCEPT ![n] = count]
    BY DEF SetId, SecondId, treeVars
<1>3. parent[n] = None /\ state[n] = "Create"
    BY <1>1 DEF TreeInv, Transit, InTransit
<1>4. /\ \A x \in Nodes \ {n} : id'[x] = id[x]
      /\ id'[n] = count
      /\ Components \subseteq [key : Nat, com : Nodes]
    BY <1>1, <1>2 DEF TypeOK
<1>5. \A u \in Threads \ {t} : ~Inside(u) /\ (thread[u].node # n)
    BY <1>1 DEF Table, Inside, Making
<1>6. \A e \in Components : e.com \in Nodes /\ e.com # n
    BY <1>1, <1>4 DEF Table
<1> HIDE DEF n
<1>7. \A u, v \in Threads : Inside(u)' /\ Inside(v)' => u = v
    BY <1>1, <1>5 DEF Inside
<1>8. \A e \in Components :
          /\ id'[e.com] = e.key /\ state'[e.com] # "none"
          /\ e.key <= count' /\ e.key # count'
    <2>1. \A u \in Threads : thread[u].at # "count"
        BY <1>1, <1>5 DEF Inside
    <2> QED BY <1>2, <1>4, <1>6, <2>1 DEF Table
<1>9. \A u \in Threads :
          /\ thread'[u].at \in {"id", "insert"} =>
                \A e \in Components : e.com # thread'[u].node
          /\ thread'[u].at \in {"insert", "count"} =>
                id'[thread'[u].node] = count
          /\ thread'[u].at \in {"count", "created", "link"} =>
                [key |-> id'[thread'[u].node], com |-> thread'[u].node]
                    \in Components
    <2> TAKE u \in Threads
    <2>1. CASE u = t
        BY <1>1, <1>4, <1>6, <2>1 DEF n
    <2>2. CASE u # t
        <3>1. thread'[u] = thread[u] /\ ~Inside(u) /\ thread[u].node # n
            BY <1>1, <1>5, <2>2
        <3>2. thread[u].at \in {"created", "link"} =>
                  /\ thread[u].node \in Nodes \ {n}
                  /\ [key |-> id[thread[u].node], com |-> thread[u].node]
                         \in Components
            BY <3>1 DEF Making, Table, TypeOK
        <3> QED BY <1>4, <3>1, <3>2 DEF Inside
    <2> QED BY <2>1, <2>2
<1>10. manager' # None =>
           [key |-> id'[manager'], com |-> manager'] \in Components
    <2>1. manager \in Nodes => manager # n
        BY <1>1 DEF n, Making
    <2>2. manager \in Nodes \cup {None}
        BY DEF TypeOK
    <2> QED BY <1>2, <1>4, <2>1, <2>2 DEF Table
<1>11. Registered'
    <2> SUFFICES ASSUME NEW x \in Nodes
                 PROVE  /\ parent[x] # None =>
                               [key |-> id'[x], com |-> x] \in Components
                        /\ state[x] = "Destroy" /\ parent[x] = None =>
                               \A e \in Components : e.com # x
        BY <1>2 DEF Registered, Created, Removed
    <2>1. CASE x = n
        BY <1>3, <2>1
    <2>2. CASE x # n
        BY <1>4, <2>2 DEF Table, Registered, Created, Removed
    <2> QED BY <2>1, <2>2
<1>12. \A e, f \in Components : e.key = f.key => e = f
    BY DEF Table
<1> QED BY <1>2, <1>7, <1>8, <1>9, <1>10, <1>11, <1>12 DEF Table

LEMMA InsertTable ==
    ASSUME TypeOK, Making, TreeInv, Table, ~raced,
           NEW t \in Threads, Insert(t)
    PROVE  Table'
<1> USE NodeNumbers
<1> DEFINE n == thread[t].node
           new == [key |-> count, com |-> n]
<1>1. /\ \A u \in Threads : thread'[u].node = thread[u].node
      /\ \A u \in Threads \ {t} : thread'[u] = thread[u]
      /\ thread[t].at = "insert" /\ thread'[t].at = "count"
      /\ n \in Nodes
    <2>1. /\ thread[t].at = "insert"
          /\ thread' = [thread EXCEPT ![t].at = "count"]
        BY DEF Insert
    <2>2. thread'[t].at = "count" /\ n \in Nodes
        BY <2>1 DEF TypeOK, Making
    <2> QED BY <2>1, <2>2, SetIdStep
<1>2. state[n] = "Create" /\ parent[n] = None
    BY <1>1 DEF TreeInv, Transit, InTransit
<1>3. \A u \in Threads \ {t} : ~Inside(u)
    BY <1>1 DEF Table, Inside
<1>4. \A e \in Components : e.key <= count /\ e.key # count /\ e.com # n
    <2>1. \A u \in Threads : thread[u].at # "count"
        BY <1>1, <1>3 DEF Inside
    <2> QED BY <1>1, <2>1 DEF Table
<1>5. /\ UNCHANGED <<id, raced, parent, state, manager, count>>
      /\ Components' = Components \cup {new}
      /\ count \in Nat
    BY <1>4 DEF Insert, treeVars, TypeOK
<1>6. id[n] = count
    BY <1>1 DEF Table
<1>7. new.key = count /\ new.com = n
    OBVIOUS
<1> HIDE DEF n, new
<1>8. \A u, v \in Threads : Inside(u)' /\ Inside(v)' => u = v
    BY <1>1, <1>3 DEF Inside
<1>9. \A e \in Components' :
          /\ id[e.com] = e.key /\ state[e.com] # "none"
          /\ e.key <= count
          /\ e.key = count => \E u \in Threads : thread'[u].at = "count"
    <2> TAKE e \in Components'
    <2>1. CASE e = new
        BY <1>1, <1>2, <1>5, <1>6, <1>7, <2>1
    <2>2. CASE e \in Components
        BY <1>4, <2>2 DEF Table
    <2> QED BY <1>5, <2>1, <2>2
<1>10. \A e, f \in Components' : e.key = f.key => e = f
    BY <1>4, <1>5, <1>7 DEF Table
<1>11. \A u \in Threads :
           /\ thread'[u].at \notin {"id", "insert"}
           /\ thread'[u].at = "count" => id[thread'[u].node] = count
           /\ thread'[u].at \in {"count", "created", "link"} =>
                 [key |-> id[thread'[u].node], com |-> thread'[u].node]
                     \in Components'
    <2> TAKE u \in Threads
    <2>1. CASE u = t
        BY <1>1, <1>5, <1>6, <2>1 DEF n, new
    <2>2. CASE u # t
        BY <1>1, <1>3, <1>5, <2>2 DEF Table, Inside
    <2> QED BY <2>1, <2>2
<1>12. manager' # None =>
           [key |-> id[manager'], com |-> manager'] \in Components'
    BY <1>5 DEF Table
<1>13. Registered'
    <2> SUFFICES ASSUME NEW x \in Nodes
                 PROVE  /\ parent[x] # None =>
                               [key |-> id[x], com |-> x] \in Components'
                        /\ state[x] = "Destroy" /\ parent[x] = None =>
                               \A e \in Components' : e.com # x
        BY <1>5 DEF Registered, Created, Removed
    <2> QED BY <1>2, <1>5, <1>7 DEF Table, Registered, Created, Removed
<1> QED BY <1>5, <1>8, <1>9, <1>10, <1>11, <1>12, <1>13 DEF Table

LEMMA CountTable ==
    ASSUME TypeOK, Making, Table, ~raced, NEW t \in Threads, Count(t)
    PROVE  Table'
<1>1. /\ \A u \in Threads : thread'[u].node = thread[u].node
      /\ \A u \in Threads \ {t} : thread'[u] = thread[u]
      /\ thread[t].at = "count" /\ thread'[t].at = "created"
    <2>1. /\ thread[t].at = "count"
          /\ thread' = [thread EXCEPT ![t].at = "created"]
        BY DEF Count
    <2>2. thread'[t].at = "created"
        BY <2>1 DEF TypeOK
    <2> QED BY <2>1, <2>2, SetIdStep
<1>2. \A u \in Threads \ {t} : ~Inside(u)
    BY <1>1 DEF Table, Inside
<1>3. /\ UNCHANGED <<id, raced, parent, state, manager, Components>>
      /\ count' = count + 1 /\ count \in Nat
      /\ \A e \in Components : e.key \in Nat
    BY DEF Count, treeVars, TypeOK
<1>4. \A u, v \in Threads : Inside(u)' /\ Inside(v)' => u = v
    BY <1>1, <1>2 DEF Inside
<1>5. \A e \in Components :
          /\ id[e.com] = e.key /\ state[e.com] # "none"
          /\ e.key <= count' /\ e.key # count'
    <2> TAKE e \in Components
    <2>1. id[e.com] = e.key /\ state[e.com] # "none" /\ e.key <= count
        BY DEF Table
    <2> QED BY <1>3, <2>1
<1>6. \A u \in Threads :
          /\ thread'[u].at \notin {"id", "insert", "count"}
          /\ thread'[u].at \in {"created", "link"} =>
                [key |-> id[thread'[u].node], com |-> thread'[u].node]
                    \in Components
    BY <1>1, <1>2 DEF Table, Inside
<1>7. Registered' /\ \A e, f \in Components : e.key = f.key => e = f
    BY <1>3 DEF Table, Registered, Created, Removed
<1> QED BY <1>3, <1>4, <1>5, <1>6, <1>7 DEF Table

\* The key erased is the id of the component that leaves, and no other's.
LEMMA RemoveTable ==
    ASSUME TypeOK, Making, TreeInv, Walk, Table, ~raced,
           NEW x \in Tree, Remove(x)
    PROVE  Table'
<1> USE NodeNumbers
<1>1. /\ UNCHANGED state /\ state[x] = "Destroy" /\ x \in Nodes
      /\ parent'[x] = None
      /\ \A y \in Nodes \ {x} : parent'[y] = parent[y]
    BY RemoveInTree
<1>2. UNCHANGED <<id, count, raced, thread, manager>>
    BY DEF Remove
<1>3. ~InTransit(x)
    BY <1>1 DEF TreeInv, Transit
<1>4. /\ \A e \in Components' : e \in Components
      /\ \A e \in Components : e.com # x => e \in Components'
      /\ \A e \in Components' : e.com # x
    <2>1. CASE parent[x] = None
        <3>1. Components' = Components
            BY <2>1 DEF Remove
        <3>2. \A e \in Components : e.com # x
            BY <1>1, <2>1 DEF Table, Registered, Removed
        <3> QED BY <3>1, <3>2
    <2>2. CASE parent[x] # None
        <3>1. Components' = {e \in Components : e.key # id[x]}
            BY <2>2 DEF Remove
        <3>2. [key |-> id[x], com |-> x] \in Components
            BY <1>1, <2>2 DEF Table, Registered, Created
        <3>3. \A e \in Components : e.key = id[x] => e.com = x
            BY <3>2 DEF Table
        <3>4. \A e \in Components : e.com = x => e.key = id[x]
            BY DEF Table
        <3> QED BY <3>1, <3>3, <3>4
    <2> QED BY <2>1, <2>2
<1>5. \A t, u \in Threads : Inside(t)' /\ Inside(u)' => t = u
    BY <1>2 DEF Table, Inside
<1>6. /\ \A t \in Threads : thread[t].node # x
      /\ manager # x
    BY <1>3 DEF InTransit
<1>7. \A y : y # x /\ [key |-> id[y], com |-> y] \in Components
                  => [key |-> id[y], com |-> y] \in Components'
    <2> TAKE y
    <2>1. [key |-> id[y], com |-> y].com = y
        OBVIOUS
    <2> QED BY <1>4, <2>1
<1>8. \A t \in Threads :
          /\ thread[t].at \in {"id", "insert"} =>
                \A e \in Components' : e.com # thread[t].node
          /\ thread[t].at \in {"insert", "count"} =>
                id[thread[t].node] = count
          /\ thread[t].at \in {"count", "created", "link"} =>
                [key |-> id[thread[t].node], com |-> thread[t].node]
                    \in Components'
    BY <1>4, <1>6, <1>7 DEF Table
<1>9. manager # None => [key |-> id[manager], com |-> manager] \in Components'
    BY <1>6, <1>7 DEF Table
<1>10. Registered'
    <2> SUFFICES ASSUME NEW y \in Nodes
                 PROVE  /\ parent'[y] # None =>
                               [key |-> id[y], com |-> y] \in Components'
                        /\ state[y] = "Destroy" /\ parent'[y] = None =>
                               \A e \in Components' : e.com # y
        BY <1>1, <1>2 DEF Registered, Created, Removed
    <2>1. CASE y = x
        BY <1>1, <1>4, <2>1
    <2>2. CASE y # x
        BY <1>1, <1>4, <1>7, <2>2 DEF Table, Registered, Created, Removed
    <2> QED BY <2>1, <2>2
<1>11. \A e, f \in Components' : e.key = f.key => e = f
    BY <1>4 DEF Table
<1>12. \A e \in Components' :
           /\ id[e.com] = e.key /\ state[e.com] # "none"
           /\ e.key <= count
           /\ e.key = count => \E t \in Threads : thread[t].at = "count"
    BY <1>4 DEF Table
<1> QED BY <1>1, <1>2, <1>5, <1>8, <1>9, <1>10, <1>11, <1>12 DEF Table

LEMMA TableStep ==
    ASSUME IInv, [Next]_vars
    PROVE  (raced \/ Table)'
<1> USE NodeNumbers
<1> SUFFICES ASSUME ~raced' PROVE Table'
    OBVIOUS
<1>1. TypeOK /\ Making /\ TreeInv /\ Walk /\ Budget /\ Transit /\ Family
    BY DEF IInv, TreeInv
<1>2. ~raced
    BY DEF Next, GameStep, Creates, Opens, OpenChannel, Create, Make, SetId,
           Insert, Count, Attach, Link, Frame, Tick, BeginPlay, MakeManager,
           MakeMonster, AttachManager, Remove, Descend, Return, vars, tableVars
<1>3. Table
    BY <1>2 DEF IInv
<1>4. ASSUME NEW t \in Threads, OpenChannel(t)
      PROVE  Table'
    <2>1. /\ Create(t) /\ ~Inside(t)
          /\ UNCHANGED <<id, count, Components, treeVars, manager>>
        BY <1>4 DEF OpenChannel, Inside
    <2> QED BY <1>1, <1>2, <1>3, <2>1, CallTable
<1>5. ASSUME NEW x \in Tree, MakeManager(x)
      PROVE  Table'
    <2>1. /\ Create("game") /\ ~Inside("game") /\ "game" \in Threads
          /\ UNCHANGED <<id, count, Components, treeVars, manager>>
        BY <1>5 DEF MakeManager, Inside, Updates, Threads
    <2> QED BY <1>1, <1>2, <1>3, <2>1, CallTable
<1>6. ASSUME MakeMonster
      PROVE  Table'
    <2>1. /\ Create("game") /\ ~Inside("game") /\ "game" \in Threads
          /\ UNCHANGED <<id, count, Components, treeVars>>
          /\ thread["game"].at = "created" /\ manager' = thread["game"].node
        BY <1>6 DEF MakeMonster, Inside, Threads
    <2> QED BY <1>1, <1>2, <1>3, <2>1, CallTable
<1>7. ASSUME NEW t \in Threads, Attach(t)
      PROVE  Table'
    <2>1. /\ UNCHANGED <<id, count, Components, state, manager>>
          /\ thread[t].at = "created"
          /\ thread' = [thread EXCEPT ![t].at = "link"]
          /\ parent' = [parent EXCEPT ![thread[t].node] = Map]
        BY <1>7 DEF Attach, tableVars
    <2>2. /\ \A u \in Threads : thread'[u].node = thread[u].node
          /\ \A u \in Threads \ {t} : thread'[u] = thread[u]
          /\ thread[t].node \in Nodes
        BY <1>1, <1>7, AttachStep
    <2>3. thread'[t].at = "link"
        BY <1>1, <2>1 DEF TypeOK
    <2>4. \A u \in Threads :
              \/ thread'[u] = thread[u]
              \/ /\ thread'[u].node = thread[u].node
                 /\ thread[u].at = "created" /\ thread'[u].at = "link"
        BY <2>1, <2>2, <2>3
    <2>5. /\ \A x \in Nodes \ {thread[t].node} : parent'[x] = parent[x]
          /\ parent'[thread[t].node] = Map
        BY <1>1, <2>1, <2>2 DEF TypeOK
    <2>6. [key |-> id[thread[t].node], com |-> thread[t].node] \in Components
        BY <1>3, <2>1 DEF Table
    <2>7. \A x \in Nodes : parent'[x] # None =>
              parent[x] # None \/ [key |-> id[x], com |-> x] \in Components
        BY <2>5, <2>6
    <2>8. \A x \in Nodes : Removed(x)' => Removed(x)
        BY <2>1, <2>5 DEF Removed
    <2> QED BY <1>1, <1>2, <1>3, <2>1, <2>4, <2>7, <2>8, QuietTable
<1>8. ASSUME NEW t \in IOThreads, Link(t)
      PROVE  Table'
    <2>1. /\ UNCHANGED <<id, count, Components, state, parent, manager>>
          /\ thread[t].at = "link"
        BY <1>8 DEF Link, tableVars
    <2>2. /\ thread'[t].at = "idle"
          /\ \A u \in Threads \ {t} : thread'[u] = thread[u]
        BY <1>1, <1>8, LinkStep DEF Resting
    <2>3. \A u \in Threads :
              \/ thread'[u] = thread[u]
              \/ thread'[u].at = "idle" /\ thread[u].at # "count"
        BY <2>1, <2>2
    <2> QED BY <1>1, <1>2, <1>3, <2>1, <2>3, QuietTable DEF Removed
<1>9. ASSUME Frame \/ Descend \/ Return \/ UNCHANGED vars
      PROVE  Table'
    <2>1. UNCHANGED <<id, count, Components, state, parent, manager, thread>>
        BY <1>9 DEF Frame, Descend, Return, vars, tableVars, treeVars
    <2> QED BY <1>1, <1>2, <1>3, <2>1, QuietTable DEF Removed
<1>10. ASSUME NEW x \in Tree, Tick(x)
       PROVE  Table'
    <2>1. UNCHANGED <<id, count, Components, parent, manager, thread>>
        BY <1>10 DEF Tick, tableVars
    <2>2. /\ \A y \in Nodes : state'[y] \in {state[y], "Destroy"}
          /\ \A y \in Nodes : state[y] \in {"none", "Create"} /\ parent[y] = None
                                 => state'[y] = state[y]
        <3>1. /\ \A y \in Tree : state'[y] \in {state[y], "Destroy"}
              /\ \A y \in Nodes : state[y] \in {"none", "Create"}
                                  /\ parent[y] = None => state'[y] = state[y]
            BY <1>1, <1>10, TickInTree
        <3>2. Nodes \subseteq Tree
            BY DEF Tree
        <3> QED BY <3>1, <3>2
    <2>3. \A y \in Nodes : parent[y] = None => state[y] # "Alive"
        BY <1>1 DEF Family, Transit
    <2>4. \A y \in Nodes : state[y] \in {"none", "Create", "Alive", "Destroy"}
        BY <1>1 DEF TypeOK, States
    <2>5. \A y \in Nodes : Removed(y)' => Removed(y)
        BY <2>1, <2>2, <2>3, <2>4 DEF Removed
    <2>6. \A y \in Nodes : state[y] # "none" => state'[y] # "none"
        BY <2>2
    <2> QED BY <1>1, <1>2, <1>3, <2>1, <2>5, <2>6, QuietTable
<1>11. ASSUME NEW x \in Tree, BeginPlay(x)
       PROVE  Table'
    <2>1. UNCHANGED <<id, count, Components, parent, manager, thread>>
        BY <1>11 DEF BeginPlay, tableVars
    <2>2. \A y \in Nodes : state'[y] \in {state[y], "Alive"}
        BY <1>1, <1>11 DEF BeginPlay, Begun, TypeOK
    <2>3. \A y \in Nodes : Removed(y)' => Removed(y)
        BY <2>1, <2>2 DEF Removed
    <2>4. \A y \in Nodes : state[y] # "none" => state'[y] # "none"
        BY <2>2
    <2> QED BY <1>1, <1>2, <1>3, <2>1, <2>3, <2>4, QuietTable
<1>12. ASSUME AttachManager
       PROVE  Table'
    <2> DEFINE m == thread["game"].node
               g == manager
               c == Top.node
    <2>1. /\ UNCHANGED <<id, count, Components>> /\ manager' = None
          /\ thread["game"].at = "created" /\ g # None
          /\ thread' = [thread EXCEPT !["game"] = Resting]
          /\ parent' = [parent EXCEPT ![m] = g, ![g] = c]
          /\ state' = [state EXCEPT ![c] = "Alive"]
        BY <1>12 DEF AttachManager, Begun, tableVars
    <2>2. /\ state[m] = "Create" /\ state[g] = "Create"
          /\ m \in Nodes /\ g \in Nodes /\ c \in Nodes
        BY <1>1, <1>12, AttachManagerInTree, AttachManagerStep
    <2>3. /\ [key |-> id[m], com |-> m] \in Components
          /\ [key |-> id[g], com |-> g] \in Components
        BY <1>3, <2>1 DEF Table, Threads
    <2>4. \A u \in Threads : thread'[u] = thread[u] \/ thread'[u].at = "idle"
        BY <1>1, <2>1 DEF TypeOK, Resting
    <2>5. \A u \in Threads :
              \/ thread'[u] = thread[u]
              \/ thread'[u].at = "idle" /\ thread[u].at # "count"
        BY <1>1, <2>1, <2>4 DEF TypeOK
    <2>6. /\ \A y \in Nodes : state'[y] \in {state[y], "Alive"}
          /\ \A y \in Nodes \ {m, g} : parent'[y] = parent[y]
        BY <1>1, <2>1 DEF TypeOK
    <2> HIDE DEF m, g, c
    <2>7. \A y \in Nodes : parent'[y] # None =>
              parent[y] # None \/ [key |-> id[y], com |-> y] \in Components
        BY <2>3, <2>6
    <2>8. /\ parent'[m] # None /\ parent'[g] # None
        BY <1>1, <2>1, <2>2 DEF TypeOK
    <2>9. \A y \in Nodes : Removed(y)' => Removed(y)
        BY <2>6, <2>8 DEF Removed
    <2>10. \A y \in Nodes : state[y] # "none" => state'[y] # "none"
        BY <2>6
    <2> QED BY <1>1, <1>2, <1>3, <2>1, <2>5, <2>7, <2>9, <2>10, QuietTable
<1> QED BY <1>1, <1>2, <1>3, <1>4, <1>5, <1>6, <1>7, <1>8, <1>9, <1>10, <1>11,
           <1>12, MakeTable, SetIdTable, InsertTable, CountTable, RemoveTable
        DEF Next, GameStep, Creates, Opens, Threads, Tree

\* The map alone, before any channel is opened.
LEMMA InitInvariant ==
    ASSUME Init
    PROVE  IInv
<1> USE NodeNumbers, ComponentTreeAssumption
<1>1. 0 \in Nat /\ 0 \in 0 .. MaxChan /\ 0 \in 0 .. 3 * MaxChan
    OBVIOUS
<1>2. TypeOK
    <2>1. \A S : <<>> \in Seq(S)
        OBVIOUS
    <2>2. Resting \in [at : Stages, node : Nodes \cup {None}]
        BY DEF Resting, Stages
    <2>3. /\ made \in 0 .. 3 * MaxChan /\ opened \in 0 .. MaxChan
          /\ channels \subseteq Nodes /\ count \in Nat
          /\ Components \subseteq [key : Nat, com : Nodes]
          /\ raced \in BOOLEAN /\ torn \subseteq IOThreads /\ lost \subseteq Nodes
          /\ manager \in Nodes \cup {None}
        BY <1>1 DEF Init
    <2>4. state \in [{Map} \cup Nodes -> States]
        BY DEF Init, States
    <2>5. /\ id \in [Nodes -> Nat]
          /\ parent \in [Nodes -> {Map, None} \cup Nodes]
        BY <1>1 DEF Init
    <2>6. children \in [{Map} \cup Nodes -> Seq(Nodes)]
        BY <2>1 DEF Init
    <2>7. thread \in [Threads -> [at : Stages, node : Nodes \cup {None}]]
        BY <2>2 DEF Init
    <2>8. loops \in Seq([node : {Map} \cup Nodes,
                         next : Nodes \cup {None, Fresh}])
        BY <2>1 DEF Init
    <2> QED BY <2>3, <2>4, <2>5, <2>6, <2>7, <2>8 DEF TypeOK
<1>3. /\ \A t \in Threads : thread[t].at = "idle" /\ thread[t].node = None
      /\ manager = None /\ loops = <<>> /\ "game" \in Threads
    BY DEF Init, Resting, Threads
<1>4. Making
    BY <1>3 DEF Making
<1>5. \A x \in Nodes : ~InTransit(x)
    BY <1>3 DEF InTransit
<1>6. /\ made = 0 /\ channels = {} /\ state[Map] = "Alive"
      /\ \A x \in Nodes : state[x] = "none" /\ parent[x] = None
      /\ \A p \in Tree : children[p] = <<>>
    BY DEF Init, Tree
<1>7. \A p \in Tree : Members(p) = {} /\ DOMAIN children[p] = {}
    BY <1>6 DEF Members, Range
<1>8. Unborn
    BY <1>5, <1>6 DEF Unborn
<1>9. Transit
    BY <1>3, <1>5 DEF Transit
<1>10. Lists
    BY <1>6, <1>7 DEF Lists
<1>11. Family
    BY <1>6, <1>7 DEF Family, Tree
<1>12. Walk
    <2>1. Len(loops) = 0
        BY <1>3
    <2> QED BY <1>3, <2>1 DEF Walk, IteratorsValid
<1>13. Table
    <2>1. Registered
        BY <1>6 DEF Registered, Created, Removed
    <2>2. \A t \in Threads : ~Inside(t)
        BY <1>3 DEF Inside
    <2> QED BY <1>3, <2>1, <2>2 DEF Table, Init
<1>14. Budget
    <2>1. Openers = {} /\ Unbegun = {}
        <3>1. \A t \in IOThreads : thread[t].at # "make"
            BY <1>3 DEF Threads
        <3> QED BY <1>6, <3>1 DEF Openers, Unbegun
    <2>2. Cardinality(Openers) = 0 /\ Cardinality(Unbegun) = 0
        BY <2>1, FS_EmptySet
    <2>3. MadeByGame = 0 /\ opened = 0 /\ made = 0
        BY <1>3 DEF MadeByGame, Init
    <2> QED BY <2>2, <2>3 DEF Budget
<1> QED BY <1>2, <1>4, <1>8, <1>9, <1>10, <1>11, <1>12, <1>13, <1>14 DEF IInv

-----------------------------------------------------------------------------
(* The theorems. *)

\* The inductive invariant holds in every state the map and its threads reach.
THEOREM ComponentTreeInvariance == Spec => []IInv
<1>1. Init => IInv
    BY InitInvariant
<1>2. IInv /\ [Next]_vars => IInv'
    <2> SUFFICES ASSUME IInv, [Next]_vars PROVE IInv'
        OBVIOUS
    <2>1. TypeOK' /\ Making' /\ TreeInv' /\ Walk' /\ Budget'
        BY TypeStep, MakingStep, TreeStep, WalkKept, BudgetStep
    <2>2. (raced \/ Table)'
        BY TableStep
    <2> QED BY <2>1, <2>2 DEF IInv, TreeInv
<1> QED BY <1>1, <1>2, PTL DEF Spec

\* Three nodes for every channel opened are enough, and every list, loop and
\* entry of the table holds nodes.
THEOREM ComponentTypeCorrect == Spec => []TypeOK
<1>1. IInv => TypeOK
    BY DEF IInv
<1> QED BY <1>1, ComponentTreeInvariance, PTL

\* The loop of Component::Update never goes on from a child that was erased: it
\* steps past the child before the child's Update can remove it.
THEOREM IteratorsStayValid == Spec => []IteratorsValid
<1>1. IInv => IteratorsValid
    BY DEF IInv, Walk
<1> QED BY <1>1, ComponentTreeInvariance, PTL

\* What hangs in the tree is in the table under its id and what was removed is
\* not, as long as no two calls of CreateComponent overlapped.
THEOREM ComponentsRegistered == Spec => []Registered
<1>1. IInv => Registered
    BY DEF IInv, Table, Registered
<1> QED BY <1>1, ComponentTreeInvariance, PTL
===============================================================================
