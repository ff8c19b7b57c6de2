---------------------------- MODULE LoginProofs -----------------------------
(***************************************************************************)
(* Proofs about Login, for any clients, packets and threads: types,        *)
(* HandlersFindUser and TablesAgree, which follow from IInv, and           *)
(* CodesDistinct and NoGhosts, which follow from GInv beside it.           *)
(***************************************************************************)
EXTENDS Login, TLAPS

Fns == {"new", "select", "remove", "erase"}

\* The functions that run or wait for c, by kind.
Due(c) == {fn \in Fns : Posting(c, {fn})}

EntryAt(c, n) == running.fn = "new" /\ running.c = c /\ running.at = n

\* The session of c is not there yet; it is not in the table yet.
Fresh(c) == "new" \in Due(c) /\ ~EntryAt(c, 2) /\ ~EntryAt(c, 3)
Unentered(c) == Fresh(c) \/ EntryAt(c, 2)

Active(c) == reader[c] \notin {"none", "stopped"}

Wellformed ==
    /\ \A i \in 1 .. Len(strand) :
          strand[i].c \in Clients /\ strand[i].fn \in Fns /\ strand[i].at = 1
    /\ running # None => running.c \in Clients /\ running.fn \in Fns

\* What is posted for one client is in the order of its life: it is entered
\* once, makes requests, and is removed once; it is erased when nothing else is
\* left.
Before(f, g) == f \in {"new", "select"} /\ g \in {"select", "remove"}
Ordered ==
    /\ \A i, j \in 1 .. Len(strand) :
          i < j /\ strand[i].c = strand[j].c
              => Before(strand[i].fn, strand[j].fn)
    /\ \A i \in 1 .. Len(strand) :
          running # None /\ running.c = strand[i].c
              => Before(running.fn, strand[i].fn)
Queue == Wellformed /\ Ordered

\* What the reader of a session says about the functions posted for it.
BegunAt(c) ==
    /\ socket[c] = "none" => /\ reader[c] = "none"
                             /\ Due(c) = {}
                             /\ currentState[c] = "Login"
    /\ reader[c] = "none" => socket[c] = "none" \/ Fresh(c)
    /\ Due(c) \cap {"remove", "erase"} # {} => reader[c] = "stopped"
    /\ Fresh(c) => reader[c] = "none"
    /\ reader[c] = "stopped" /\ "new" \in Due(c) => "remove" \in Due(c)
Begun == \A c \in Clients : BegunAt(c)

Keys ==
    /\ \A e \in users : e.key = key[e.c] /\ e.key < nextKey
    /\ \A e \in sessions : /\ e.key = key[e.c]
                           /\ \/ e.key < nextKey
                              \/ e.key = nextKey /\ EntryAt(e.c, 3)
    /\ \A d, e \in users \cup sessions : d.key = e.key => d.c = e.c
    /\ \A c \in Clients : EntryAt(c, 3) => key[c] = nextKey
    /\ running.fn = "erase" => running.code = key[running.c]
    /\ \A i \in 1 .. Len(strand) :
          strand[i].fn = "erase" => strand[i].code = key[strand[i].c]

InSessions(c) == \E e \in sessions : e.c = c

\* Since when and until when a client is in the tables.
EnteredAt(c) ==
    /\ Active(c) \/ Due(c) \cap {"select", "remove", "erase"} # {}
          => GetUser(c) \/ "new" \in Due(c)
    /\ Active(c) \/ Due(c) \cap {"select", "remove"} # {}
          => InSessions(c) \/ Unentered(c)
    /\ "new" \in Due(c) => ~GetUser(c)
    /\ Unentered(c) \/ "erase" \in Due(c) => ~InSessions(c)
    /\ socket[c] = "none" => ~InSessions(c) /\ ~GetUser(c)
    /\ reader[c] = "stopped" /\ Due(c) \cap {"remove", "erase"} = {}
          => ~InSessions(c) /\ ~GetUser(c)
Entered == \A c \in Clients : EnteredAt(c)

\* Who is in the game has a character, until it is erased.
PlayingAt(c) ==
    /\ currentState[c] = "InGame" =>
          /\ "new" \notin Due(c)
          /\ reader[c] = "stopped" \/ character[c] # NoChar
    /\ reader[c] = "enter" => currentState[c] = "InGame"
    /\ running.fn = "select" /\ running.c = c /\ running.at = 3
          => character[c] # NoChar
Playing == \A c \in Clients : PlayingAt(c)

Control == Queue /\ Begun /\ Keys /\ Entered /\ Playing

IInv == TypeOK /\ Control

-----------------------------------------------------------------------------
(* The functions that are posted. *)

LEMMA AppendedFunctions ==
    ASSUME NEW s \in Seq(Functions), NEW f \in Functions
    PROVE  /\ Append(s, f) \in Seq(Functions)
           /\ Len(Append(s, f)) = Len(s) + 1
           /\ \A i \in 1 .. Len(s) : Append(s, f)[i] = s[i]
           /\ Append(s, f)[Len(s) + 1] = f
           /\ Len(s) \in Nat
OBVIOUS

LEMMA TailOfFunctions ==
    ASSUME NEW s \in Seq(Functions), s # <<>>
    PROVE  /\ Tail(s) \in Seq(Functions)
           /\ Len(s) \in Nat \ {0}
           /\ Len(Tail(s)) = Len(s) - 1
           /\ \A i \in 1 .. Len(s) - 1 : Tail(s)[i] = s[i + 1]
           /\ Head(s) = s[1]
           /\ s[1] \in Functions
OBVIOUS

LEMMA NoneIsNobody ==
    /\ None \in Functions
    /\ None.fn = "none" /\ None.c = 0 /\ None.at = 0
    /\ \A c \in Clients : c # 0
BY LoginAssumption DEF None, Functions, Ids

\* Posting in terms of Due.
LEMMA PostingIsDue ==
    ASSUME NEW c, NEW kinds \in SUBSET Fns
    PROVE  Posting(c, kinds) <=> Due(c) \cap kinds # {}
BY DEF Due, Posting

LEMMA SameDue ==
    ASSUME strand' = strand, running'.fn = running.fn, running'.c = running.c
    PROVE  \A c : Due(c)' = Due(c)
BY DEF Due, Posting

LEMMA AppendDue ==
    ASSUME StrandTypes, NEW f \in Functions, f.fn \in Fns,
           strand' = Append(strand, f), running' = running
    PROVE  /\ \A c : c # f.c => Due(c)' = Due(c)
           /\ Due(f.c)' = Due(f.c) \cup {f.fn}
<1>1. strand \in Seq(Functions)
  BY DEF StrandTypes
<1>2. /\ Len(strand) \in Nat /\ Len(strand') = Len(strand) + 1
      /\ \A i \in 1 .. Len(strand) : strand'[i] = strand[i]
      /\ strand'[Len(strand) + 1] = f
  BY <1>1, AppendedFunctions
<1>3. \A c, kinds : Posting(c, kinds)' <=> \/ Posting(c, kinds)
                                           \/ f.c = c /\ f.fn \in kinds
  BY <1>2 DEF Posting
<1> QED
  BY <1>3 DEF Due

LEMMA TakeDue ==
    ASSUME StrandTypes, running = None, strand # <<>>,
           running' = Head(strand), strand' = Tail(strand)
    PROVE  \A c \in Clients : Due(c)' = Due(c)
<1>1. strand \in Seq(Functions)
  BY DEF StrandTypes
<1>2. /\ Len(strand) \in Nat \ {0} /\ Len(strand') = Len(strand) - 1
      /\ \A i \in 1 .. Len(strand) - 1 : strand'[i] = strand[i + 1]
      /\ running' = strand[1]
  BY <1>1, TailOfFunctions
<1>3. \A i \in 1 .. Len(strand) : i = 1 \/ /\ i - 1 \in 1 .. Len(strand')
                                           /\ strand'[i - 1] = strand[i]
  BY <1>2
<1>4. \A c \in Clients : \A kinds : Posting(c, kinds) => Posting(c, kinds)'
  BY <1>2, <1>3, NoneIsNobody DEF Posting
<1>5. \A c, kinds : Posting(c, kinds)' => Posting(c, kinds)
  BY <1>2 DEF Posting
<1> QED
  BY <1>4, <1>5 DEF Due

LEMMA RunningIsDue ==
    ASSUME Wellformed, Ordered, running # None
    PROVE  /\ running.fn \in Due(running.c)
           /\ \A g \in Due(running.c) :
                 g = running.fn \/ Before(running.fn, g)
           /\ \A g \in Fns :
                 (\E i \in 1 .. Len(strand) : /\ strand[i].c = running.c
                                              /\ strand[i].fn = g)
                     => Before(running.fn, g)
BY DEF Wellformed, Ordered, Due, Posting

\* A function g of c has run.
LEMMA DoneDue ==
    ASSUME StrandTypes, Wellformed, Ordered, running # None,
           NEW c \in Clients, NEW g, running.c = c, running.fn = g,
           strand' = strand, running' = None
    PROVE  /\ \A d \in Clients : d # c => Due(d)' = Due(d)
           /\ Due(c)' \subseteq Due(c)
           /\ Due(c) \subseteq Due(c)' \cup {g}
           /\ g # "select" => g \notin Due(c)'
<1>1. \A d \in Clients : \A kinds :
         Posting(d, kinds)' <=>
            \E i \in 1 .. Len(strand) :
                strand[i].fn \in kinds /\ strand[i].c = d
  BY NoneIsNobody DEF Posting
<1>2. \A d \in Clients : \A kinds :
         Posting(d, kinds) <=> \/ Posting(d, kinds)'
                               \/ g \in kinds /\ c = d
  BY <1>1 DEF Posting
<1>3. ASSUME g # "select" PROVE g \notin Due(c)'
  <2>1. ~Before(g, g)
    BY <1>3 DEF Before
  <2>2. \A i \in 1 .. Len(strand) : ~(strand[i].fn = g /\ strand[i].c = c)
    BY <2>1 DEF Ordered
  <2>3. ~Posting(c, {g})'
    BY <1>1, <2>2
  <2> QED
    BY <2>3 DEF Due
<1> QED
  BY <1>2, <1>3 DEF Due

\* The last function but one posts the last.
LEMMA RemoveDue ==
    ASSUME StrandTypes, Wellformed, Ordered, running # None,
           running.fn = "remove", NEW f \in Functions, f.fn = "erase",
           f.c = running.c, strand' = Append(strand, f), running' = None
    PROVE  /\ \A c \in Clients : c # f.c => Due(c)' = Due(c)
           /\ Due(f.c)' = {"erase"}
<1>1. strand \in Seq(Functions) /\ f.c \in Clients
  BY DEF StrandTypes, Wellformed
<1>2. /\ Len(strand) \in Nat /\ Len(strand') = Len(strand) + 1
      /\ \A i \in 1 .. Len(strand) : strand'[i] = strand[i]
      /\ strand'[Len(strand) + 1] = f
  BY <1>1, AppendedFunctions
<1>3. \A c \in Clients : \A kinds :
         Posting(c, kinds)' <=>
            \/ \E i \in 1 .. Len(strand) :
                   strand[i].fn \in kinds /\ strand[i].c = c
            \/ f.fn \in kinds /\ f.c = c
  BY <1>2, NoneIsNobody DEF Posting
<1>4. \A i \in 1 .. Len(strand) : strand[i].c # f.c
  BY DEF Wellformed, Ordered, Before
<1>5. \A c \in Clients : c # f.c => Due(c)' = Due(c)
  <2>1. ASSUME NEW c \in Clients, c # f.c
        PROVE  \A kinds : Posting(c, kinds)' <=> Posting(c, kinds)
    <3>1. \A kinds :
             Posting(c, kinds) <=>
                \E i \in 1 .. Len(strand) :
                    strand[i].fn \in kinds /\ strand[i].c = c
      BY <2>1 DEF Posting
    <3> QED
      BY <1>3, <2>1, <3>1
  <2> QED
    BY <2>1 DEF Due
<1>6. \A kinds : Posting(f.c, kinds)' <=> "erase" \in kinds
  BY <1>1, <1>3, <1>4
<1>7. Due(f.c)' = {"erase"}
  BY <1>6 DEF Due, Fns
<1> QED
  BY <1>5, <1>7

LEMMA AppendQueue ==
    ASSUME StrandTypes, Queue, NEW f \in Functions,
           f.c \in Clients, f.fn \in Fns, f.at = 1,
           \A g \in Due(f.c) : Before(g, f.fn),
           strand' = Append(strand, f), running' = running
    PROVE  Queue'
<1>1. strand \in Seq(Functions)
  BY DEF StrandTypes
<1>2. /\ Len(strand) \in Nat /\ Len(strand') = Len(strand) + 1
      /\ \A i \in 1 .. Len(strand) : strand'[i] = strand[i]
      /\ strand'[Len(strand) + 1] = f
  BY <1>1, AppendedFunctions
<1>3. Wellformed'
  BY <1>2 DEF Queue, Wellformed
<1>4. \A i \in 1 .. Len(strand) :
         strand[i].c = f.c => Before(strand[i].fn, f.fn)
  BY DEF Queue, Wellformed, Due, Posting
<1>5. running # None /\ running.c = f.c => Before(running.fn, f.fn)
  BY DEF Queue, Wellformed, Due, Posting
<1>6. \A i, j \in 1 .. Len(strand') :
          i < j /\ strand'[i].c = strand'[j].c
              => Before(strand'[i].fn, strand'[j].fn)
  <2> SUFFICES ASSUME NEW i \in 1 .. Len(strand'), NEW j \in 1 .. Len(strand'),
                      i < j, strand'[i].c = strand'[j].c
               PROVE  Before(strand'[i].fn, strand'[j].fn)
    OBVIOUS
  <2>1. i \in 1 .. Len(strand) /\ strand'[i] = strand[i]
    BY <1>2
  <2>2. CASE j = Len(strand) + 1
    BY <1>2, <1>4, <2>1, <2>2
  <2>3. CASE j \in 1 .. Len(strand)
    BY <1>2, <2>1, <2>3 DEF Queue, Ordered
  <2> QED
    BY <1>2, <2>2, <2>3
<1>7. \A i \in 1 .. Len(strand') :
          running # None /\ running.c = strand'[i].c
              => Before(running.fn, strand'[i].fn)
  <2> SUFFICES ASSUME NEW i \in 1 .. Len(strand'), running # None,
                      running.c = strand'[i].c
               PROVE  Before(running.fn, strand'[i].fn)
    OBVIOUS
  <2>1. CASE i = Len(strand) + 1
    BY <1>2, <1>5, <2>1
  <2>2. CASE i \in 1 .. Len(strand)
    BY <1>2, <2>2 DEF Queue, Ordered
  <2> QED
    BY <1>2, <2>1, <2>2
<1> QED
  BY <1>3, <1>6, <1>7 DEF Queue, Ordered

LEMMA TakeQueue ==
    ASSUME StrandTypes, Queue, running = None, strand # <<>>,
           running' = Head(strand), strand' = Tail(strand)
    PROVE  Queue'
<1>1. strand \in Seq(Functions)
  BY DEF StrandTypes
<1>2. /\ Len(strand) \in Nat \ {0} /\ Len(strand') = Len(strand) - 1
      /\ \A i \in 1 .. Len(strand) - 1 : strand'[i] = strand[i + 1]
      /\ running' = strand[1]
  BY <1>1, TailOfFunctions
<1>3. \A i \in 1 .. Len(strand') : /\ i + 1 \in 1 .. Len(strand)
                                   /\ strand'[i] = strand[i + 1]
  BY <1>2
<1>4. 1 \in 1 .. Len(strand)
  BY <1>2
<1>5. Wellformed'
  BY <1>2, <1>3, <1>4 DEF Queue, Wellformed
<1>6. \A i, j \in 1 .. Len(strand') :
          i < j /\ strand'[i].c = strand'[j].c
              => Before(strand'[i].fn, strand'[j].fn)
  BY <1>3 DEF Queue, Ordered
<1>7. \A i \in 1 .. Len(strand') :
          running'.c = strand'[i].c => Before(running'.fn, strand'[i].fn)
  BY <1>2, <1>3, <1>4 DEF Queue, Ordered
<1> QED
  BY <1>5, <1>6, <1>7 DEF Queue, Ordered

LEMMA DoneQueue ==
    ASSUME Queue, strand' = strand, running' = None
    PROVE  Queue'
BY DEF Queue, Wellformed, Ordered

LEMMA GoesOnQueue ==
    ASSUME Queue, strand' = strand, running # None,
           running'.fn = running.fn, running'.c = running.c
    PROVE  Queue'
BY DEF Queue, Wellformed, Ordered

LEMMA RemoveQueue ==
    ASSUME StrandTypes, Queue, running # None, running.fn = "remove",
           NEW f \in Functions, f.fn = "erase", f.at = 1, f.c = running.c,
           strand' = Append(strand, f), running' = None
    PROVE  Queue'
<1>1. strand \in Seq(Functions) /\ f.c \in Clients
  BY DEF StrandTypes, Queue, Wellformed
<1>2. /\ Len(strand) \in Nat /\ Len(strand') = Len(strand) + 1
      /\ \A i \in 1 .. Len(strand) : strand'[i] = strand[i]
      /\ strand'[Len(strand) + 1] = f
  BY <1>1, AppendedFunctions
<1>3. \A i \in 1 .. Len(strand) : strand[i].c # f.c
  BY DEF Queue, Wellformed, Ordered, Before
<1>4. Wellformed'
  BY <1>1, <1>2 DEF Queue, Wellformed, Fns
<1>5. ASSUME NEW i \in 1 .. Len(strand'), NEW j \in 1 .. Len(strand'),
             i < j, strand'[i].c = strand'[j].c
      PROVE  Before(strand'[i].fn, strand'[j].fn)
  <2>1. i \in 1 .. Len(strand) /\ strand'[i] = strand[i]
    BY <1>2, <1>5
  <2>2. j \in 1 .. Len(strand)
    BY <1>2, <1>3, <1>5, <2>1
  <2> QED
    BY <1>2, <1>5, <2>1, <2>2 DEF Queue, Ordered
<1> QED
  BY <1>4, <1>5 DEF Queue, Ordered

LEMMA TypeStep == IInv /\ [Next]_vars => TypeOK'
<1> SUFFICES ASSUME IInv, [Next]_vars PROVE TypeOK'
  OBVIOUS
<1> USE LoginAssumption
<1>0. /\ ClientTypes /\ CodeTypes /\ StrandTypes /\ TableTypes
      /\ CharacterTypes /\ ChannelTypes
  BY DEF IInv, TypeOK
<1>1. ASSUME UNCHANGED vars PROVE TypeOK'
  <2>1. ClientTypes' /\ CodeTypes' /\ StrandTypes' /\ TableTypes'
    BY <1>0, <1>1
       DEF ClientTypes, CodeTypes, StrandTypes, TableTypes, vars, clientVars,
            codeVars, tableVars
  <2>2. CharacterTypes' /\ ChannelTypes'
    BY <1>0, <1>1 DEF CharacterTypes, ChannelTypes, vars, charVars, chanVars
  <2> QED
    BY <2>1, <2>2 DEF TypeOK
<1>2. ASSUME NEW c \in Clients, Connect(c) PROVE TypeOK'
  <2>1. ClientTypes'
    BY <1>0, <1>2 DEF ClientTypes, Connect, clientVars
  <2>2. Function("new", c, 0) \in Functions
    BY <1>0 DEF CodeTypes, Function, Functions, Ids
  <2>3. StrandTypes'
    BY <1>0, <1>2, <2>2, AppendedFunctions
       DEF StrandTypes, Connect, PostFuction
  <2>4. CodeTypes' /\ TableTypes' /\ CharacterTypes' /\ ChannelTypes'
    BY <1>0, <1>2
       DEF CodeTypes, TableTypes, CharacterTypes, ChannelTypes, Connect,
            codeVars, tableVars, charVars, chanVars
  <2> QED
    BY <2>1, <2>3, <2>4 DEF TypeOK
<1>3. ASSUME NEW c \in Clients, AskCharacter(c) PROVE TypeOK'
  <2>1. ClientTypes'
    <3>1. reader' = reader \/ reader' = [reader EXCEPT ![c] = "decrement"]
      BY <1>3 DEF AskCharacter
    <3>2. awaiting' = awaiting \/ awaiting' = [awaiting EXCEPT ![c] = TRUE]
      BY <1>3 DEF AskCharacter
    <3>3. sent' \in [Clients -> Nat] /\ UNCHANGED <<socket, chosen, failed>>
      BY <1>0, <1>3 DEF ClientTypes, AskCharacter, Reads
    <3>4. reader' \in [Clients -> {"none", "reading", "stopped",
                "decrement", "store", "copy", "count", "create", "post",
                "enter"}]
      BY <1>0, <3>1 DEF ClientTypes
    <3>5. awaiting' \in [Clients -> BOOLEAN]
      BY <1>0, <3>2 DEF ClientTypes
    <3> QED
      BY <1>0, <3>3, <3>4, <3>5 DEF ClientTypes
  <2>2. /\ CodeTypes' /\ StrandTypes' /\ TableTypes'
        /\ CharacterTypes' /\ ChannelTypes'
    BY <1>0, <1>3
       DEF CodeTypes, StrandTypes, TableTypes, CharacterTypes, ChannelTypes,
            AskCharacter, Reads, codeVars, tableVars, charVars, chanVars
  <2> QED
    BY <2>1, <2>2 DEF TypeOK
<1>4. ASSUME NEW c \in Clients, AskMap(c) PROVE TypeOK'
  <2>1. ClientTypes'
    BY <1>0, <1>4 DEF ClientTypes, AskMap, Reads, clientVars
  <2>2. /\ CodeTypes' /\ StrandTypes' /\ TableTypes'
        /\ CharacterTypes' /\ ChannelTypes'
    BY <1>0, <1>4
       DEF CodeTypes, StrandTypes, TableTypes, CharacterTypes, ChannelTypes,
            AskMap, Reads, codeVars, tableVars, charVars, chanVars
  <2> QED
    BY <2>1, <2>2 DEF TypeOK
<1>5. ASSUME NEW c \in Clients, Shut(c) PROVE TypeOK'
  <2>1. ClientTypes'
    BY <1>0, <1>5 DEF ClientTypes, Shut, clientVars
  <2>2. /\ CodeTypes' /\ StrandTypes' /\ TableTypes'
        /\ CharacterTypes' /\ ChannelTypes'
    BY <1>0, <1>5
       DEF CodeTypes, StrandTypes, TableTypes, CharacterTypes, ChannelTypes,
            Shut, codeVars, tableVars, charVars, chanVars
  <2> QED
    BY <2>1, <2>2 DEF TypeOK
<1>6. ASSUME NEW c \in Clients, ReadNothing(c) PROVE TypeOK'
  <2>1. ClientTypes'
    BY <1>0, <1>6 DEF ClientTypes, ReadNothing, clientVars
  <2>2. Function("remove", c, 0) \in Functions
    BY <1>0 DEF CodeTypes, Function, Functions, Ids
  <2>3. StrandTypes'
    BY <1>0, <1>6, <2>2, AppendedFunctions
       DEF StrandTypes, ReadNothing, PostFuction
  <2>4. CodeTypes' /\ TableTypes' /\ CharacterTypes' /\ ChannelTypes'
    BY <1>0, <1>6
       DEF CodeTypes, TableTypes, CharacterTypes, ChannelTypes, ReadNothing,
            codeVars, tableVars, charVars, chanVars
  <2> QED
    BY <2>1, <2>3, <2>4 DEF TypeOK
<1>7. ASSUME NEW c \in Clients, LoadCode(c) PROVE TypeOK'
  <2>1. ClientTypes'
    BY <1>0, <1>7 DEF ClientTypes, LoadCode, clientVars
  <2>2. CodeTypes'
    BY <1>0, <1>7 DEF CodeTypes, LoadCode, codeVars
  <2>3. StrandTypes' /\ TableTypes' /\ CharacterTypes' /\ ChannelTypes'
    BY <1>0, <1>7
       DEF StrandTypes, TableTypes, CharacterTypes, ChannelTypes, LoadCode,
            tableVars, charVars, chanVars
  <2> QED
    BY <2>1, <2>2, <2>3 DEF TypeOK
<1>8. ASSUME NEW c \in Clients, StoreCode(c) PROVE TypeOK'
  <2>1. ClientTypes'
    BY <1>0, <1>8 DEF ClientTypes, StoreCode, clientVars
  <2>2. CodeTypes'
    BY <1>0, <1>8 DEF CodeTypes, StoreCode, codeVars
  <2>3. StrandTypes' /\ TableTypes' /\ CharacterTypes' /\ ChannelTypes'
    BY <1>0, <1>8
       DEF StrandTypes, TableTypes, CharacterTypes, ChannelTypes, StoreCode,
            tableVars, charVars, chanVars
  <2> QED
    BY <2>1, <2>2, <2>3 DEF TypeOK
<1>9. ASSUME NEW c \in Clients, CopyCode(c) PROVE TypeOK'
  <2>1. ClientTypes'
    BY <1>0, <1>9 DEF ClientTypes, CopyCode, clientVars
  <2>2. CodeTypes'
    BY <1>0, <1>9 DEF CodeTypes, CopyCode, codeVars
  <2>3. StrandTypes' /\ TableTypes' /\ CharacterTypes' /\ ChannelTypes'
    BY <1>0, <1>9
       DEF StrandTypes, TableTypes, CharacterTypes, ChannelTypes, CopyCode,
            tableVars, charVars, chanVars
  <2> QED
    BY <2>1, <2>2, <2>3 DEF TypeOK
<1>10. ASSUME NEW c \in Clients, Count(c) PROVE TypeOK'
  <2>1. ClientTypes'
    BY <1>0, <1>10 DEF ClientTypes, Count, clientVars
  <2>2. /\ CodeTypes' /\ StrandTypes' /\ TableTypes'
        /\ CharacterTypes' /\ ChannelTypes'
    BY <1>0, <1>10
       DEF CodeTypes, StrandTypes, TableTypes, CharacterTypes, ChannelTypes,
            Count, codeVars, tableVars, charVars, chanVars
  <2> QED
    BY <2>1, <2>2 DEF TypeOK
<1>11. ASSUME NEW c \in Clients, Create(c) PROVE TypeOK'
  <2>1. ClientTypes'
    BY <1>0, <1>11 DEF ClientTypes, Create, clientVars
  <2>2. CodeTypes'
    BY <1>0, <1>11 DEF CodeTypes, Create, codeVars
  <2>3. StrandTypes' /\ TableTypes' /\ CharacterTypes' /\ ChannelTypes'
    BY <1>0, <1>11
       DEF StrandTypes, TableTypes, CharacterTypes, ChannelTypes, Create,
            tableVars, charVars, chanVars
  <2> QED
    BY <2>1, <2>2, <2>3 DEF TypeOK
<1>12. ASSUME NEW c \in Clients, QueryFails(c) PROVE TypeOK'
  <2>1. ClientTypes'
    BY <1>0, <1>12 DEF ClientTypes, QueryFails, clientVars
  <2>2. /\ CodeTypes' /\ StrandTypes' /\ TableTypes'
        /\ CharacterTypes' /\ ChannelTypes'
    BY <1>0, <1>12
       DEF CodeTypes, StrandTypes, TableTypes, CharacterTypes, ChannelTypes,
            QueryFails, codeVars, tableVars, charVars, chanVars
  <2> QED
    BY <2>1, <2>2 DEF TypeOK
<1>13. ASSUME NEW c \in Clients, PostSelect(c) PROVE TypeOK'
  <2>1. ClientTypes'
    BY <1>0, <1>13 DEF ClientTypes, PostSelect, clientVars
  <2>2. Function("select", c, code[c]) \in Functions
    BY <1>0 DEF CodeTypes, Function, Functions, Ids
  <2>3. StrandTypes'
    BY <1>0, <1>13, <2>2, AppendedFunctions
       DEF StrandTypes, PostSelect, PostFuction
  <2>4. CodeTypes' /\ TableTypes' /\ CharacterTypes' /\ ChannelTypes'
    BY <1>0, <1>13
       DEF CodeTypes, TableTypes, CharacterTypes, ChannelTypes, PostSelect,
            codeVars, tableVars, charVars, chanVars
  <2> QED
    BY <2>1, <2>3, <2>4 DEF TypeOK
<1>14. ASSUME NEW c \in Clients, Enter(c) PROVE TypeOK'
  <2>1. ClientTypes'
    BY <1>0, <1>14 DEF ClientTypes, Enter, clientVars
  <2>2. CharacterTypes'
    BY <1>0, <1>14 DEF CharacterTypes, Enter, charVars
  <2>3. ChannelTypes'
    <3>1. character[c] \in Characters /\ character[c].code \in Nat
      BY <1>0 DEF CharacterTypes, Characters
    <3>2. eraseQ' \subseteq Nat /\ insertQ' \subseteq Characters
      BY <1>0, <1>14, <3>1 DEF ChannelTypes, Enter, LeaveChannel
    <3> QED
      BY <1>0, <1>14, <3>2 DEF ChannelTypes, Enter
  <2>4. CodeTypes' /\ StrandTypes' /\ TableTypes'
    BY <1>0, <1>14
       DEF CodeTypes, StrandTypes, TableTypes, Enter, codeVars, tableVars
  <2> QED
    BY <2>1, <2>2, <2>3, <2>4 DEF TypeOK
<1>15. ASSUME NEW c \in Clients, NewSession(c) PROVE TypeOK'
  <2>1. ClientTypes'
    BY <1>0, <1>15 DEF ClientTypes, NewSession, Runs, clientVars
  <2>2. StrandTypes'
    <3>1. [running EXCEPT !.at = 2] \in Functions
      BY <1>0 DEF StrandTypes, Functions
    <3> QED
      BY <1>0, <1>15, <3>1, NoneIsNobody DEF StrandTypes, NewSession
  <2>3. CodeTypes' /\ TableTypes' /\ CharacterTypes' /\ ChannelTypes'
    BY <1>0, <1>15
       DEF CodeTypes, TableTypes, CharacterTypes, ChannelTypes, NewSession,
            codeVars, tableVars, charVars, chanVars
  <2> QED
    BY <2>1, <2>2, <2>3 DEF TypeOK
<1>16. ASSUME NEW c \in Clients, EnterSession(c) PROVE TypeOK'
  <2>1. StrandTypes'
    <3>1. [running EXCEPT !.at = 3] \in Functions
      BY <1>0 DEF StrandTypes, Functions
    <3> QED
      BY <1>0, <1>16, <3>1, NoneIsNobody DEF StrandTypes, EnterSession
  <2>2. TableTypes'
    BY <1>0, <1>16 DEF TableTypes, EnterSession, Runs, Entries, tableVars
  <2>3. ClientTypes' /\ CodeTypes' /\ CharacterTypes' /\ ChannelTypes'
    BY <1>0, <1>16
       DEF ClientTypes, CodeTypes, CharacterTypes, ChannelTypes,
            EnterSession, clientVars, codeVars, charVars, chanVars
  <2> QED
    BY <2>1, <2>2, <2>3 DEF TypeOK
<1>17. ASSUME NEW c \in Clients, NewUser(c) PROVE TypeOK'
  <2>1. StrandTypes'
    BY <1>0, <1>17, NoneIsNobody DEF StrandTypes, NewUser
  <2>2. TableTypes'
    BY <1>0, <1>17 DEF TableTypes, NewUser, Runs, Entries, KeyAfter, tableVars
  <2>3. ClientTypes' /\ CodeTypes' /\ CharacterTypes' /\ ChannelTypes'
    BY <1>0, <1>17
       DEF ClientTypes, CodeTypes, CharacterTypes, ChannelTypes, NewUser,
            clientVars, codeVars, charVars, chanVars
  <2> QED
    BY <2>1, <2>2, <2>3 DEF TypeOK
<1>18. ASSUME NEW c \in Clients, LockUser(c) PROVE TypeOK'
  <2>1. StrandTypes'
    <3>1. [running EXCEPT !.at = 2] \in Functions
      BY <1>0 DEF StrandTypes, Functions
    <3> QED
      BY <1>0, <1>18, <3>1, NoneIsNobody DEF StrandTypes, LockUser
  <2>2. /\ ClientTypes' /\ CodeTypes' /\ TableTypes'
        /\ CharacterTypes' /\ ChannelTypes'
    BY <1>0, <1>18
       DEF ClientTypes, CodeTypes, TableTypes, CharacterTypes, ChannelTypes,
            LockUser, clientVars, codeVars, tableVars, charVars, chanVars
  <2> QED
    BY <2>1, <2>2 DEF TypeOK
<1>19. ASSUME NEW c \in Clients, LoadCharacterInfo(c) PROVE TypeOK'
  <2>1. StrandTypes'
    <3>1. [running EXCEPT !.at = 3] \in Functions
      BY <1>0 DEF StrandTypes, Functions
    <3> QED
      BY <1>0, <1>19, <3>1, NoneIsNobody DEF StrandTypes, LoadCharacterInfo
  <2>2. LoadedCode \in Nat
    BY <1>0 DEF StrandTypes, Functions, LoadedCode
  <2>3. [user |-> c, code |-> LoadedCode, nth |-> serial[c] + 1]
         \in Characters
    BY <1>0, <2>2 DEF CharacterTypes, Characters, Ids
  <2>4. CharacterTypes'
    <3>1. CASE UNCHANGED charVars
      BY <1>0, <3>1 DEF CharacterTypes, charVars
    <3>2. CASE /\ serial' = [serial EXCEPT ![c] = @ + 1]
               /\ character' = [character EXCEPT ![c] =
                     [user |-> c, code |-> LoadedCode, nth |-> serial[c] + 1]]
               /\ inside' = [inside EXCEPT ![c] = FALSE]
      BY <1>0, <2>3, <3>2 DEF CharacterTypes
    <3> QED
      BY <1>19, <3>1, <3>2 DEF LoadCharacterInfo
  <2>5. ChannelTypes'
    BY <1>0, <1>19 DEF ChannelTypes, LoadCharacterInfo, Runs, chanVars
  <2>6. ClientTypes' /\ CodeTypes' /\ TableTypes'
    BY <1>0, <1>19
       DEF ClientTypes, CodeTypes, TableTypes, LoadCharacterInfo, clientVars,
            codeVars, tableVars
  <2> QED
    BY <2>1, <2>4, <2>5, <2>6 DEF TypeOK
<1>20. ASSUME NEW c \in Clients, Answer(c) PROVE TypeOK'
  <2>1. ClientTypes'
    BY <1>0, <1>20 DEF ClientTypes, Answer, Runs, clientVars
  <2>2. StrandTypes'
    BY <1>0, <1>20, NoneIsNobody DEF StrandTypes, Answer
  <2>3. TableTypes'
    BY <1>0, <1>20 DEF TableTypes, Answer, Runs, tableVars
  <2>4. CodeTypes' /\ CharacterTypes' /\ ChannelTypes'
    BY <1>0, <1>20
       DEF CodeTypes, CharacterTypes, ChannelTypes, Answer, codeVars,
            charVars, chanVars
  <2> QED
    BY <2>1, <2>2, <2>3, <2>4 DEF TypeOK
<1>21. ASSUME NEW c \in Clients, RemoveSession(c) PROVE TypeOK'
  <2>1. Function("erase", c, key[c]) \in Functions
    BY <1>0 DEF TableTypes, Function, Functions, Ids
  <2>2. StrandTypes'
    BY <1>0, <1>21, <2>1, AppendedFunctions, NoneIsNobody
       DEF StrandTypes, RemoveSession, PostFuction
  <2>3. TableTypes'
    BY <1>0, <1>21 DEF TableTypes, RemoveSession, Runs, Without, tableVars
  <2>4. ClientTypes' /\ CodeTypes' /\ CharacterTypes' /\ ChannelTypes'
    BY <1>0, <1>21
       DEF ClientTypes, CodeTypes, CharacterTypes, ChannelTypes,
            RemoveSession, clientVars, codeVars, charVars, chanVars
  <2> QED
    BY <2>2, <2>3, <2>4 DEF TypeOK
<1>22. ASSUME NEW c \in Clients, EraseUser(c) PROVE TypeOK'
  <2>1. StrandTypes'
    BY <1>0, <1>22, NoneIsNobody DEF StrandTypes, EraseUser
  <2>2. TableTypes'
    BY <1>0, <1>22 DEF TableTypes, EraseUser, Runs, Without, tableVars
  <2>3. CharacterTypes'
    BY <1>0, <1>22
       DEF CharacterTypes, EraseUser, Runs, Characters, NoChar, Ids, charVars
  <2>4. ChannelTypes'
    <3>1. character[c].code \in Nat
      BY <1>0 DEF CharacterTypes, Characters
    <3> QED
      BY <1>0, <1>22, <3>1 DEF ChannelTypes, EraseUser, LeaveChannel
  <2>5. ClientTypes' /\ CodeTypes'
    BY <1>0, <1>22 DEF ClientTypes, CodeTypes, EraseUser, clientVars, codeVars
  <2> QED
    BY <2>1, <2>2, <2>3, <2>4, <2>5 DEF TypeOK
<1>23. ASSUME Take PROVE TypeOK'
  <2>1. StrandTypes'
    BY <1>0, <1>23, TailOfFunctions DEF StrandTypes, Take
  <2>2. /\ ClientTypes' /\ CodeTypes' /\ TableTypes'
        /\ CharacterTypes' /\ ChannelTypes'
    BY <1>0, <1>23
       DEF ClientTypes, CodeTypes, TableTypes, CharacterTypes, ChannelTypes,
            Take, clientVars, codeVars, tableVars, charVars, chanVars
  <2> QED
    BY <2>1, <2>2 DEF TypeOK
<1>24. ASSUME Drain PROVE TypeOK'
  <2>1. ChannelTypes'
    BY <1>0, <1>24 DEF ChannelTypes, Drain, chanVars
  <2>2. /\ ClientTypes' /\ CodeTypes' /\ StrandTypes'
        /\ TableTypes' /\ CharacterTypes'
    BY <1>0, <1>24
       DEF ClientTypes, CodeTypes, StrandTypes, TableTypes, CharacterTypes,
            Drain, clientVars, codeVars, tableVars, charVars
  <2> QED
    BY <2>1, <2>2 DEF TypeOK
<1>25. ASSUME Crashed PROVE TypeOK'
  BY <1>1, <1>25 DEF Crashed
<1>26. ASSUME NEW c \in Clients, Client(c) PROVE TypeOK'
  BY <1>2, <1>3, <1>4, <1>5, <1>26 DEF Client
<1>27. ASSUME NEW c \in Clients, Handler(c) PROVE TypeOK'
  BY <1>6, <1>7, <1>8, <1>9, <1>10, <1>11, <1>12, <1>13, <1>14, <1>27
     DEF Handler
<1>28. ASSUME NEW c \in Clients, Posted(c) PROVE TypeOK'
  BY <1>15, <1>16, <1>17, <1>18, <1>19, <1>20, <1>21, <1>22, <1>28 DEF Posted
<1> QED
  BY <1>1, <1>23, <1>24, <1>25, <1>26, <1>27, <1>28 DEF Next


-----------------------------------------------------------------------------
(* What the steps do to the functions and the tables. *)

\* A step that posts nothing, runs nothing and stops no reader.
Quiet ==
    /\ UNCHANGED <<strand, running, tableVars, currentState, character>>
    /\ \A c \in Clients : socket'[c] = "none" <=> socket[c] = "none"
    /\ \A c \in Clients :
          \/ reader'[c] = reader[c]
          \/ /\ Active(c)
             /\ reader'[c] \notin {"none", "stopped"}
             /\ reader'[c] = "enter" => currentState[c] = "InGame"

LEMMA QuietStep == TypeOK /\ Control /\ Quiet => Control'
<1> SUFFICES ASSUME TypeOK, Control, Quiet PROVE Control'
  OBVIOUS
<1>1. UNCHANGED <<strand, running, key, nextKey, sessions, users, currentState,
                  character>>
  BY DEF Quiet, tableVars
<1>2. \A c : Due(c)' = Due(c)
  BY <1>1, SameDue
<1>3. Queue'
  BY <1>1 DEF Control, Queue, Wellformed, Ordered
<1>4. Begun'
  BY <1>1, <1>2 DEF Control, Quiet, Begun, BegunAt, Fresh, EntryAt, Active
<1>5. Keys'
  BY <1>1 DEF Control, Keys, EntryAt
<1>6. Entered'
  BY <1>1, <1>2 DEF Control, Quiet, Entered, EnteredAt, Active, GetUser,
     InSessions,
                    Unentered, Fresh, EntryAt
<1>7. Playing'
  BY <1>1, <1>2 DEF Control, Quiet, Playing, PlayingAt, Active
<1> QED
  BY <1>3, <1>4, <1>5, <1>6, <1>7 DEF Control

LEMMA QuietClient ==
    ASSUME TypeOK, NEW c \in Clients,
           AskCharacter(c) \/ AskMap(c) \/ Shut(c)
    PROVE  Quiet
BY DEF TypeOK, ClientTypes, AskCharacter, AskMap, Reads, Shut, Quiet, Active,
       clientVars, codeVars, tableVars, charVars

LEMMA QuietHandler ==
    ASSUME TypeOK, NEW c \in Clients,
           \/ LoadCode(c) \/ StoreCode(c) \/ CopyCode(c) \/ Count(c)
           \/ Create(c) \/ QueryFails(c)
    PROVE  Quiet
BY DEF TypeOK, ClientTypes, LoadCode, StoreCode, CopyCode, Count, Create,
       QueryFails, Quiet, Active, clientVars, codeVars, tableVars, charVars

LEMMA QuietEnter ==
    ASSUME TypeOK, NEW c \in Clients, Enter(c)
    PROVE  Quiet
BY DEF TypeOK, ClientTypes, Enter, Quiet, Active, clientVars, tableVars

LEMMA QuietRest ==
    ASSUME UNCHANGED vars \/ Drain \/ Crashed
    PROVE  Quiet
BY DEF Drain, Crashed, Quiet, Active, vars, clientVars, tableVars, charVars

LEMMA ConnectStep ==
    ASSUME TypeOK, Control, NEW c \in Clients, Connect(c)
    PROVE  Control'
<1> USE LoginAssumption
<1>0. /\ ClientTypes /\ StrandTypes /\ TableTypes /\ CharacterTypes
      /\ Queue /\ Begun /\ Keys /\ Entered /\ Playing
      /\ Wellformed /\ Ordered
  BY DEF TypeOK, Control, Queue
<1> DEFINE f == Function("new", c, 0)
<1>1. /\ f \in Functions /\ f.fn \in Fns
      /\ f.fn = "new" /\ f.c = c /\ f.at = 1
      /\ strand' = Append(strand, f) /\ running' = running
  BY DEF TypeOK, CodeTypes, Function, Functions, Ids, Fns, Connect, PostFuction
<1> HIDE DEF f
<1>2. \A d : d # c => Due(d)' = Due(d)
  BY <1>0, <1>1, AppendDue
<1>3. Due(c)' = Due(c) \cup {"new"}
  BY <1>0, <1>1, AppendDue
<1>4. \A i \in 1 .. Len(strand') : /\ strand'[i].fn = "erase"
                                    => i \in 1 .. Len(strand)
                                 /\ i \in 1 .. Len(strand)
                                    => strand'[i] = strand[i]
  BY <1>0, <1>1, AppendedFunctions DEF StrandTypes
<1>5. /\ UNCHANGED <<key, nextKey, sessions, users, currentState, character>>
      /\ reader' = reader /\ socket[c] = "none"
      /\ socket' = [socket EXCEPT ![c] = "open"]
  BY DEF Connect, tableVars, charVars
<1>6. Due(c) = {} /\ reader[c] = "none" /\ ~InSessions(c) /\ ~GetUser(c)
      /\ currentState[c] = "Login"
  BY <1>0, <1>5 DEF Begun, BegunAt, Entered, EnteredAt
<1>7. Queue'
  BY <1>0, <1>1, <1>6, AppendQueue
<1>8. Begun'
  <2>1. BegunAt(c)'
    <3>1. ~EntryAt(c, 2) /\ ~EntryAt(c, 3)
      BY <1>6 DEF EntryAt, Due, Posting, Fns
    <3>2. Fresh(c)'
      BY <1>1, <1>3, <3>1 DEF Fresh, EntryAt
    <3>3. socket'[c] = "open" /\ reader'[c] = "none" /\ Due(c)' = {"new"}
      BY <1>0, <1>3, <1>5, <1>6 DEF ClientTypes
    <3> QED
      BY <3>2, <3>3 DEF BegunAt
  <2>2. ASSUME NEW d \in Clients, d # c PROVE BegunAt(d)'
    <3>1. Due(d)' = Due(d)
      BY <1>2, <2>2
    <3>2. Fresh(d)' <=> Fresh(d)
      BY <1>1, <3>1 DEF Fresh, EntryAt
    <3>3. socket'[d] = socket[d] /\ reader'[d] = reader[d]
          /\ currentState' = currentState
      BY <1>0, <1>5, <2>2 DEF ClientTypes
    <3>4. BegunAt(d)
      BY <1>0 DEF Begun
    <3> QED
      BY <3>1, <3>2, <3>3, <3>4 DEF BegunAt
  <2> QED
    BY <2>1, <2>2 DEF Begun
<1>9. Keys'
  BY <1>0, <1>1, <1>4, <1>5 DEF Keys, EntryAt
<1>10. Entered'
  <2>1. \A d : /\ GetUser(d)' <=> GetUser(d)
               /\ InSessions(d)' <=> InSessions(d)
               /\ Active(d)' <=> Active(d)
    BY <1>5 DEF GetUser, InSessions, Active
  <2>2. EnteredAt(c)'
    BY <1>0, <1>3, <1>5, <1>6, <2>1 DEF ClientTypes, EnteredAt, Active
  <2>3. ASSUME NEW d \in Clients, d # c PROVE EnteredAt(d)'
    <3>1. Due(d)' = Due(d) /\ socket'[d] = socket[d] /\ reader' = reader
      BY <1>0, <1>2, <1>5, <2>3 DEF ClientTypes
    <3>2. Unentered(d)' <=> Unentered(d)
      BY <1>1, <3>1 DEF Unentered, Fresh, EntryAt
    <3> QED
      BY <1>0, <2>1, <3>1, <3>2 DEF Entered, EnteredAt
  <2> QED
    BY <2>2, <2>3 DEF Entered
<1>11. Playing'
  BY <1>0, <1>1, <1>2, <1>3, <1>5, <1>6 DEF Playing, PlayingAt
<1> QED
  BY <1>7, <1>8, <1>9, <1>10, <1>11 DEF Control

LEMMA ReadNothingStep ==
    ASSUME TypeOK, Control, NEW c \in Clients, ReadNothing(c)
    PROVE  Control'
<1> USE LoginAssumption
<1>0. /\ ClientTypes /\ StrandTypes /\ TableTypes /\ CharacterTypes
      /\ Queue /\ Begun /\ Keys /\ Entered /\ Playing
      /\ Wellformed /\ Ordered
  BY DEF TypeOK, Control, Queue
<1> DEFINE f == Function("remove", c, 0)
<1>1. /\ f \in Functions /\ f.fn \in Fns
      /\ f.fn = "remove" /\ f.c = c /\ f.at = 1
      /\ strand' = Append(strand, f) /\ running' = running
  BY DEF TypeOK, CodeTypes, Function, Functions, Ids, Fns, ReadNothing,
     PostFuction
<1> HIDE DEF f
<1>2. \A d : d # c => Due(d)' = Due(d)
  BY <1>0, <1>1, AppendDue
<1>3. Due(c)' = Due(c) \cup {"remove"}
  BY <1>0, <1>1, AppendDue
<1>4. \A i \in 1 .. Len(strand') : /\ strand'[i].fn = "erase"
                                    => i \in 1 .. Len(strand)
                                 /\ i \in 1 .. Len(strand)
                                    => strand'[i] = strand[i]
  BY <1>0, <1>1, AppendedFunctions DEF StrandTypes
<1>5. /\ UNCHANGED <<key, nextKey, sessions, users, currentState, character>>
      /\ socket' = socket /\ reader[c] = "reading" /\ socket[c] = "shut"
      /\ reader' = [reader EXCEPT ![c] = "stopped"]
  BY DEF ReadNothing, tableVars, charVars, clientVars
<1>6. Due(c) \cap {"remove", "erase"} = {} /\ ~Fresh(c)
  BY <1>0, <1>5 DEF Begun, BegunAt
<1>7. Queue'
  <2>1. \A g \in Due(c) : Before(g, "remove")
    BY <1>6 DEF Due, Fns, Before
  <2> QED
    BY <1>0, <1>1, <2>1, AppendQueue
<1>8. Begun'
  BY <1>0, <1>1, <1>2, <1>3, <1>5, <1>6 DEF ClientTypes, Begun, BegunAt,
     Fresh, EntryAt
<1>9. Keys'
  BY <1>0, <1>1, <1>4, <1>5 DEF Keys, EntryAt
<1>10. Entered'
  <2>1. EnteredAt(c)'
    <3>1. Active(c) /\ socket[c] # "none"
      BY <1>0, <1>5 DEF Active, Begun, BegunAt
    <3>2. GetUser(c) \/ "new" \in Due(c)
      BY <1>0, <3>1 DEF Entered, EnteredAt
    <3>3. InSessions(c) \/ Unentered(c)
      BY <1>0, <3>1 DEF Entered, EnteredAt
    <3>4. /\ "new" \in Due(c) => ~GetUser(c)
          /\ Unentered(c) => ~InSessions(c)
      BY <1>0 DEF Entered, EnteredAt
    <3>5. /\ GetUser(c)' <=> GetUser(c)
          /\ InSessions(c)' <=> InSessions(c)
          /\ Unentered(c)' <=> Unentered(c)
          /\ ~Active(c)' /\ socket'[c] # "none"
      BY <1>0, <1>1, <1>3, <1>5, <3>1 DEF ClientTypes, GetUser, InSessions,
         Unentered, Fresh,
                    EntryAt, Active
    <3> QED
      BY <1>3, <1>6, <3>2, <3>3, <3>4, <3>5 DEF EnteredAt
  <2>2. ASSUME NEW d \in Clients, d # c PROVE EnteredAt(d)'
    BY <1>0, <1>1, <1>2, <1>5, <2>2
       DEF ClientTypes, Entered, EnteredAt, Fresh, EntryAt, Unentered, Active,
           GetUser, InSessions
  <2> QED
    BY <2>1, <2>2 DEF Entered
<1>11. Playing'
  BY <1>0, <1>1, <1>2, <1>3, <1>5, <1>6 DEF ClientTypes, Playing, PlayingAt
<1> QED
  BY <1>7, <1>8, <1>9, <1>10, <1>11 DEF Control

LEMMA PostSelectStep ==
    ASSUME TypeOK, Control, NEW c \in Clients, PostSelect(c)
    PROVE  Control'
<1> USE LoginAssumption
<1>0. /\ ClientTypes /\ StrandTypes /\ TableTypes /\ CharacterTypes
      /\ Queue /\ Begun /\ Keys /\ Entered /\ Playing
      /\ Wellformed /\ Ordered
  BY DEF TypeOK, Control, Queue
<1> DEFINE f == Function("select", c, code[c])
<1>1. /\ f \in Functions /\ f.fn \in Fns
      /\ f.fn = "select" /\ f.c = c /\ f.at = 1
      /\ strand' = Append(strand, f) /\ running' = running
  BY DEF TypeOK, CodeTypes, Function, Functions, Ids, Fns, PostSelect,
     PostFuction
<1> HIDE DEF f
<1>2. \A d : d # c => Due(d)' = Due(d)
  BY <1>0, <1>1, AppendDue
<1>3. Due(c)' = Due(c) \cup {"select"}
  BY <1>0, <1>1, AppendDue
<1>4. \A i \in 1 .. Len(strand') : /\ strand'[i].fn = "erase"
                                    => i \in 1 .. Len(strand)
                                 /\ i \in 1 .. Len(strand)
                                    => strand'[i] = strand[i]
  BY <1>0, <1>1, AppendedFunctions DEF StrandTypes
<1>5. /\ UNCHANGED <<key, nextKey, sessions, users, currentState, character>>
      /\ socket' = socket /\ reader[c] = "post"
      /\ reader' = [reader EXCEPT ![c] = "reading"]
  BY DEF PostSelect, tableVars, charVars, clientVars
<1>6. Due(c) \cap {"remove", "erase"} = {} /\ ~Fresh(c) /\ socket[c] # "none"
  BY <1>0, <1>5 DEF Begun, BegunAt
<1>7. Queue'
  <2>1. \A g \in Due(c) : Before(g, "select")
    BY <1>6 DEF Due, Fns, Before
  <2> QED
    BY <1>0, <1>1, <2>1, AppendQueue
<1>8. Begun'
  BY <1>0, <1>1, <1>2, <1>3, <1>5, <1>6 DEF ClientTypes, Begun, BegunAt,
     Fresh, EntryAt
<1>9. Keys'
  BY <1>0, <1>1, <1>4, <1>5 DEF Keys, EntryAt
<1>10. Entered'
  BY <1>0, <1>1, <1>2, <1>3, <1>5, <1>6
     DEF ClientTypes, Entered, EnteredAt, Fresh, EntryAt, Unentered, Active,
         GetUser,
         InSessions
<1>11. Playing'
  BY <1>0, <1>1, <1>2, <1>3, <1>5, <1>6 DEF ClientTypes, Playing, PlayingAt
<1> QED
  BY <1>7, <1>8, <1>9, <1>10, <1>11 DEF Control

LEMMA TakeStep ==
    ASSUME TypeOK, Control, Take
    PROVE  Control'
<1> USE LoginAssumption
<1>0. /\ ClientTypes /\ StrandTypes /\ TableTypes /\ CharacterTypes
      /\ Queue /\ Begun /\ Keys /\ Entered /\ Playing
      /\ Wellformed /\ Ordered
  BY DEF TypeOK, Control, Queue
<1>1. /\ running = None /\ strand # <<>> /\ running' = Head(strand)
      /\ strand' = Tail(strand)
      /\ UNCHANGED <<key, nextKey, sessions, users, currentState, character,
                     socket, reader>>
  BY DEF Take, tableVars, charVars, clientVars
<1>2. \A d \in Clients : Due(d)' = Due(d)
  BY <1>0, <1>1, TakeDue
<1>3. Queue'
  BY <1>0, <1>1, TakeQueue
<1>4. /\ Len(strand) \in Nat \ {0} /\ Len(strand') = Len(strand) - 1
      /\ \A i \in 1 .. Len(strand) - 1 : strand'[i] = strand[i + 1]
      /\ running' = strand[1] /\ 1 \in 1 .. Len(strand)
  BY <1>0, <1>1, TailOfFunctions DEF StrandTypes
<1>5. running'.at = 1 /\ running.fn = "none"
  BY <1>0, <1>1, <1>4, NoneIsNobody DEF Wellformed
<1>6. Begun'
  BY <1>0, <1>1, <1>2, <1>5 DEF Begun, BegunAt, Fresh, EntryAt
<1>7. Keys'
  <2>1. \A i \in 1 .. Len(strand') : /\ i + 1 \in 1 .. Len(strand)
                                     /\ strand'[i] = strand[i + 1]
    BY <1>4
  <2>2. running'.fn = "erase" => running'.code = key[running'.c]
    BY <1>0, <1>4 DEF Keys
  <2>3. \A d : ~EntryAt(d, 3) /\ ~EntryAt(d, 3)'
    BY <1>5 DEF EntryAt
  <2> QED
    BY <1>0, <1>1, <2>1, <2>2, <2>3 DEF Keys
<1>8. Entered'
  BY <1>0, <1>1, <1>2, <1>5
     DEF Entered, EnteredAt, Fresh, EntryAt, Unentered, Active, GetUser,
         InSessions
<1>9. Playing'
  BY <1>0, <1>1, <1>2, <1>5 DEF Playing, PlayingAt
<1> QED
  BY <1>3, <1>6, <1>7, <1>8, <1>9 DEF Control

LEMMA NewSessionStep ==
    ASSUME TypeOK, Control, NEW c \in Clients, NewSession(c)
    PROVE  Control'
<1> USE LoginAssumption
<1>0. /\ ClientTypes /\ StrandTypes /\ TableTypes /\ CharacterTypes
      /\ Queue /\ Begun /\ Keys /\ Entered /\ Playing
      /\ Wellformed /\ Ordered
  BY DEF TypeOK, Control, Queue
<1>1. /\ running.fn = "new" /\ running.c = c /\ running.at = 1
      /\ running # None
  BY NoneIsNobody DEF NewSession, Runs
<1>2. /\ "new" \in Due(c)
      /\ \A g \in Due(c) : g = "new" \/ Before("new", g)
  BY <1>0, <1>1, RunningIsDue
<1>3. socket[c] # "none"
  BY <1>0, <1>2 DEF Begun, BegunAt
<1>4. /\ UNCHANGED <<strand, key, nextKey, sessions, users, currentState,
                     character, socket>>
      /\ reader' = [reader EXCEPT ![c] = "reading"]
      /\ running' = [running EXCEPT !.at = 2]
  BY DEF NewSession, tableVars, charVars, clientVars
<1>5. running'.fn = "new" /\ running'.c = c /\ running'.at = 2
  BY <1>0, <1>1, <1>4 DEF StrandTypes, Functions
<1>6. \A d : Due(d)' = Due(d)
  BY <1>1, <1>4, <1>5, SameDue
<1>7. Fresh(c)
  BY <1>1, <1>2 DEF Fresh, EntryAt
<1>8. /\ reader[c] = "none" /\ Due(c) \cap {"remove", "erase"} = {}
      /\ ~InSessions(c) /\ ~GetUser(c) /\ currentState[c] # "InGame"
  BY <1>0, <1>2, <1>7 DEF Begun, BegunAt, Entered, EnteredAt, Unentered,
                          Playing, PlayingAt, TableTypes
<1>9. Queue'
  BY <1>0, <1>1, <1>4, <1>5, GoesOnQueue
<1>10. Begun'
  <2>1. BegunAt(c)'
    BY <1>0, <1>1, <1>2, <1>3, <1>4, <1>5, <1>6, <1>8
       DEF ClientTypes, BegunAt, Fresh, EntryAt, Begun
  <2>2. ASSUME NEW d \in Clients, d # c PROVE BegunAt(d)'
    BY <1>0, <1>1, <1>2, <1>3, <1>4, <1>5, <1>6, <1>8, <2>2
       DEF Begun, ClientTypes, BegunAt, Fresh, EntryAt, Begun
  <2> QED
    BY <2>1, <2>2 DEF Begun
<1>11. Keys'
  BY <1>0, <1>1, <1>4, <1>5 DEF Keys, EntryAt
<1>12. Entered'
  <2>1. EnteredAt(c)'
    BY <1>0, <1>1, <1>2, <1>3, <1>4, <1>5, <1>6, <1>8
       DEF ClientTypes, EnteredAt, Fresh, EntryAt, Unentered, Active,
           GetUser, InSessions, Entered
  <2>2. ASSUME NEW d \in Clients, d # c PROVE EnteredAt(d)'
    BY <1>0, <1>1, <1>2, <1>3, <1>4, <1>5, <1>6, <1>8, <2>2
       DEF Entered, ClientTypes, EnteredAt, Fresh, EntryAt, Unentered, Active,
           GetUser, InSessions, Entered
  <2> QED
    BY <2>1, <2>2 DEF Entered
<1>13. Playing'
  <2>1. PlayingAt(c)'
    BY <1>0, <1>1, <1>4, <1>5, <1>6, <1>8
       DEF ClientTypes, PlayingAt, Playing
  <2>2. ASSUME NEW d \in Clients, d # c PROVE PlayingAt(d)'
    BY <1>0, <1>1, <1>4, <1>5, <1>6, <1>8, <2>2
       DEF Playing, ClientTypes, PlayingAt, Playing
  <2> QED
    BY <2>1, <2>2 DEF Playing
<1> QED
  BY <1>9, <1>10, <1>11, <1>12, <1>13 DEF Control

LEMMA EnterSessionStep ==
    ASSUME TypeOK, Control, NEW c \in Clients, EnterSession(c)
    PROVE  Control'
<1> USE LoginAssumption
<1>0. /\ ClientTypes /\ StrandTypes /\ TableTypes /\ CharacterTypes
      /\ Queue /\ Begun /\ Keys /\ Entered /\ Playing
      /\ Wellformed /\ Ordered
  BY DEF TypeOK, Control, Queue
<1>1. /\ running.fn = "new" /\ running.c = c /\ running.at = 2
      /\ running # None
  BY NoneIsNobody DEF EnterSession, Runs
<1>2. /\ "new" \in Due(c)
      /\ \A g \in Due(c) : g = "new" \/ Before("new", g)
  BY <1>0, <1>1, RunningIsDue
<1>3. socket[c] # "none"
  BY <1>0, <1>2 DEF Begun, BegunAt
<1>4. /\ UNCHANGED <<strand, nextKey, users, currentState, character, socket,
                     reader>>
      /\ key' = [key EXCEPT ![c] = nextKey]
      /\ sessions' = sessions \cup {[key |-> nextKey, c |-> c]}
      /\ running' = [running EXCEPT !.at = 3]
  BY DEF EnterSession, charVars, clientVars
<1>5. running'.fn = "new" /\ running'.c = c /\ running'.at = 3
  BY <1>0, <1>1, <1>4 DEF StrandTypes, Functions
<1>6. \A d : Due(d)' = Due(d)
  BY <1>1, <1>4, <1>5, SameDue
<1>7. /\ ~InSessions(c) /\ ~GetUser(c) /\ "erase" \notin Due(c)
      /\ ~Fresh(c) /\ reader[c] # "none"
      /\ reader[c] = "stopped" => "remove" \in Due(c)
  BY <1>0, <1>1, <1>2, <1>3
     DEF Begun, BegunAt, Entered, EnteredAt, Unentered, EntryAt, Fresh, Before
<1>8. Queue'
  BY <1>0, <1>1, <1>4, <1>5, GoesOnQueue
<1>9. Begun'
  <2>1. BegunAt(c)'
    BY <1>0, <1>1, <1>2, <1>3, <1>4, <1>5, <1>6, <1>7
       DEF ClientTypes, BegunAt, Fresh, EntryAt, Begun
  <2>2. ASSUME NEW d \in Clients, d # c PROVE BegunAt(d)'
    BY <1>0, <1>1, <1>2, <1>3, <1>4, <1>5, <1>6, <1>7, <2>2
       DEF Begun, ClientTypes, BegunAt, Fresh, EntryAt, Begun
  <2> QED
    BY <2>1, <2>2 DEF Begun
<1>10. Keys'
  <2>1. \A e \in users : e.c # c /\ e.c \in Clients /\ e.key < nextKey
    BY <1>0, <1>7 DEF GetUser, TableTypes, Entries, Keys
  <2>2. \A e \in sessions : e.c # c /\ e.c \in Clients /\ e.key < nextKey
    BY <1>0, <1>1, <1>7 DEF InSessions, TableTypes, Entries, Keys, EntryAt
  <2>3. key'[c] = nextKey /\ \A d \in Clients : d # c => key'[d] = key[d]
    BY <1>0, <1>4 DEF TableTypes
  <2>4. ASSUME NEW i \in 1 .. Len(strand), strand[i].fn = "erase"
        PROVE  strand[i].code = key'[strand[i].c]
    <3>1. strand[i].c \in Clients /\ strand[i].c # c
      BY <1>7, <1>0, <2>4 DEF Wellformed, Due, Fns, Posting
    <3> QED
      BY <1>0, <2>3, <2>4, <3>1 DEF Keys
  <2>5. nextKey \in Nat
    BY <1>0 DEF TableTypes
  <2> QED
    BY <1>0, <1>1, <1>4, <1>5, <2>1, <2>2, <2>3, <2>4, <2>5 DEF Keys, EntryAt
<1>11. Entered'
  <2>1. EnteredAt(c)'
    <3>1. InSessions(c)'
      <4> DEFINE e == [key |-> nextKey, c |-> c]
      <4>1. e \in sessions' /\ e.c = c
        BY <1>4
      <4> QED
        BY <4>1 DEF InSessions
    <3>2. ~GetUser(c)' /\ socket'[c] # "none"
      BY <1>3, <1>4, <1>7 DEF GetUser
    <3>3. ~Unentered(c)' /\ "new" \in Due(c)' /\ "erase" \notin Due(c)'
      BY <1>2, <1>5, <1>6, <1>7 DEF Unentered, Fresh, EntryAt
    <3>4. reader'[c] = "stopped" => "remove" \in Due(c)'
      BY <1>4, <1>6, <1>7
    <3> QED
      BY <3>1, <3>2, <3>3, <3>4 DEF EnteredAt
  <2>2. ASSUME NEW d \in Clients, d # c PROVE EnteredAt(d)'
    BY <1>0, <1>1, <1>2, <1>3, <1>4, <1>5, <1>6, <1>7, <2>2
       DEF Entered, ClientTypes, EnteredAt, Fresh, EntryAt, Unentered, Active,
           GetUser, InSessions, Entered
  <2> QED
    BY <2>1, <2>2 DEF Entered
<1>12. Playing'
  BY <1>0, <1>1, <1>4, <1>5, <1>6 DEF Playing, PlayingAt
<1> QED
  BY <1>8, <1>9, <1>10, <1>11, <1>12 DEF Control

LEMMA NewUserStep ==
    ASSUME TypeOK, Control, NEW c \in Clients, NewUser(c)
    PROVE  Control'
<1> USE LoginAssumption
<1>0. /\ ClientTypes /\ StrandTypes /\ TableTypes /\ CharacterTypes
      /\ Queue /\ Begun /\ Keys /\ Entered /\ Playing
      /\ Wellformed /\ Ordered
  BY DEF TypeOK, Control, Queue
<1>1. /\ running.fn = "new" /\ running.c = c /\ running.at = 3
      /\ running # None
  BY NoneIsNobody DEF NewUser, Runs
<1>2. /\ "new" \in Due(c)
      /\ \A g \in Due(c) : g = "new" \/ Before("new", g)
  BY <1>0, <1>1, RunningIsDue
<1>3. socket[c] # "none"
  BY <1>0, <1>2 DEF Begun, BegunAt
<1>4. /\ UNCHANGED <<strand, key, sessions, currentState, character, socket,
                     reader>>
      /\ users' = users \cup {[key |-> nextKey, c |-> c]}
      /\ nextKey' = nextKey + 1 /\ running' = None
  BY DEF NewUser, KeyAfter, charVars, clientVars
<1>5. /\ \A d \in Clients : d # c => Due(d)' = Due(d)
      /\ Due(c)' \subseteq Due(c) /\ Due(c) \subseteq Due(c)' \cup {"new"}
      /\ "new" \notin Due(c)'
  BY <1>0, <1>1, <1>4, DoneDue
<1>6. running'.fn = "none" /\ nextKey \in Nat
  BY <1>0, <1>4, NoneIsNobody DEF TableTypes
<1>7. /\ ~GetUser(c) /\ "erase" \notin Due(c)
      /\ ~Fresh(c) /\ reader[c] # "none"
      /\ reader[c] = "stopped" => "remove" \in Due(c)
  BY <1>0, <1>1, <1>2, <1>3
     DEF Begun, BegunAt, Entered, EnteredAt, Unentered, EntryAt, Fresh, Before
<1>8. InSessions(c)
  BY <1>0, <1>1, <1>7 DEF Entered, EnteredAt, Unentered, EntryAt, Active
<1>9. Queue'
  BY <1>0, <1>4, DoneQueue
<1>10. Begun'
  <2>1. BegunAt(c)'
    BY <1>0, <1>1, <1>2, <1>3, <1>4, <1>5, <1>6, <1>7
       DEF ClientTypes, BegunAt, Fresh, EntryAt, Begun
  <2>2. ASSUME NEW d \in Clients, d # c PROVE BegunAt(d)'
    BY <1>0, <1>1, <1>2, <1>3, <1>4, <1>5, <1>6, <1>7, <2>2
       DEF Begun, ClientTypes, BegunAt, Fresh, EntryAt, Begun
  <2> QED
    BY <2>1, <2>2 DEF Begun
<1>11. Keys'
  <2>1. \A e \in users : e.key = key[e.c] /\ e.key < nextKey
    BY <1>0 DEF Keys
  <2>2. \A e \in sessions : /\ e.key = key[e.c] /\ e.key < nextKey + 1
                            /\ e.key = nextKey => e.c = c
    BY <1>0, <1>1, <1>6 DEF Keys, EntryAt, TableTypes, Entries
  <2>3. key[c] = nextKey
    BY <1>0, <1>1 DEF Keys, EntryAt
  <2>4. \A e \in users \cup sessions : e.key \in Nat
    BY <1>0 DEF TableTypes, Entries
  <2>5. \A d, e \in users' \cup sessions : d.key = e.key => d.c = e.c
    BY <1>0, <1>4, <1>6, <2>1, <2>2, <2>4 DEF Keys
  <2>6. \A e \in users' : e.key = key[e.c] /\ e.key < nextKey + 1
    BY <1>4, <1>6, <2>1, <2>3, <2>4
  <2> QED
    BY <1>0, <1>1, <1>4, <1>6, <2>2, <2>5, <2>6 DEF Keys, EntryAt
<1>12. Entered'
  <2>1. EnteredAt(c)'
    <3>1. InSessions(c)' /\ GetUser(c)'
      <4> DEFINE e == [key |-> nextKey, c |-> c]
      <4>1. e \in users' /\ e.c = c /\ InSessions(c)'
        BY <1>4, <1>8 DEF InSessions
      <4> QED
        BY <4>1 DEF GetUser
    <3>2. "new" \notin Due(c)' /\ "erase" \notin Due(c)' /\ ~Unentered(c)'
      BY <1>5, <1>6, <1>7 DEF Unentered, Fresh, EntryAt
    <3>3. reader'[c] = "stopped" => "remove" \in Due(c)'
      BY <1>4, <1>5, <1>7
    <3>4. socket'[c] # "none"
      BY <1>3, <1>4
    <3> QED
      BY <3>1, <3>2, <3>3, <3>4 DEF EnteredAt
  <2>2. ASSUME NEW d \in Clients, d # c PROVE EnteredAt(d)'
    BY <1>0, <1>1, <1>2, <1>3, <1>4, <1>5, <1>6, <1>7, <1>8, <2>2
       DEF Entered, ClientTypes, EnteredAt, Fresh, EntryAt, Unentered, Active,
           GetUser, InSessions, Entered
  <2> QED
    BY <2>1, <2>2 DEF Entered
<1>13. Playing'
  <2>1. PlayingAt(c)'
    BY <1>0, <1>1, <1>4, <1>5, <1>6
       DEF PlayingAt, Playing
  <2>2. ASSUME NEW d \in Clients, d # c PROVE PlayingAt(d)'
    BY <1>0, <1>1, <1>4, <1>5, <1>6, <2>2
       DEF Playing, PlayingAt, Playing
  <2> QED
    BY <2>1, <2>2 DEF Playing
<1> QED
  BY <1>9, <1>10, <1>11, <1>12, <1>13 DEF Control

\* A request goes on; the character it makes is one.
LEMMA SelectGoesOn ==
    ASSUME TypeOK, Control, NEW c \in Clients,
           running.fn = "select", running.c = c,
           UNCHANGED <<strand, key, nextKey, sessions, users, currentState,
                       socket, reader>>,
           running'.fn = "select", running'.c = c,
           \A d \in Clients : \/ character'[d] = character[d]
                              \/ character'[d] # NoChar,
           running'.at = 3 => character'[c] # NoChar
    PROVE  Control'
<1> USE LoginAssumption
<1>0. /\ ClientTypes /\ StrandTypes /\ TableTypes /\ CharacterTypes
      /\ Queue /\ Begun /\ Keys /\ Entered /\ Playing
      /\ Wellformed /\ Ordered
  BY DEF TypeOK, Control, Queue
<1>1. \A d : Due(d)' = Due(d)
  BY SameDue
<1>2. running # None
  BY NoneIsNobody
<1>3. Queue'
  BY <1>0, <1>2, GoesOnQueue
<1>4. \A d, n : ~EntryAt(d, n) /\ ~EntryAt(d, n)'
  BY DEF EntryAt
<1>5. Begun'
  BY <1>0, <1>1, <1>4 DEF Begun, BegunAt, Fresh
<1>6. Keys'
  BY <1>0, <1>4 DEF Keys
<1>7. Entered'
  BY <1>0, <1>1, <1>4
     DEF Entered, EnteredAt, Fresh, Unentered, Active, GetUser, InSessions
<1>8. Playing'
  BY <1>0, <1>1 DEF Playing, PlayingAt
<1> QED
  BY <1>3, <1>5, <1>6, <1>7, <1>8 DEF Control

\* A request that runs belongs to a user.
LEMMA SelectHasUser ==
    ASSUME TypeOK, Control, NEW c \in Clients,
           running.fn = "select", running.c = c
    PROVE  /\ GetUser(c)
           /\ "new" \notin Due(c)
           /\ "select" \in Due(c)
<1> USE LoginAssumption
<1>0. /\ ClientTypes /\ StrandTypes /\ TableTypes /\ CharacterTypes
      /\ Queue /\ Begun /\ Keys /\ Entered /\ Playing
      /\ Wellformed /\ Ordered
  BY DEF TypeOK, Control, Queue
<1>1. running # None
  BY NoneIsNobody
<1>2. /\ "select" \in Due(c)
      /\ \A g \in Due(c) : g = "select" \/ Before("select", g)
  BY <1>0, <1>1, RunningIsDue
<1>3. "new" \notin Due(c)
  BY <1>2 DEF Before
<1> QED
  BY <1>0, <1>2, <1>3 DEF Entered, EnteredAt

LEMMA LockUserStep ==
    ASSUME TypeOK, Control, NEW c \in Clients, LockUser(c)
    PROVE  Control'
<1>1. running.fn = "select" /\ running.c = c
  BY DEF LockUser, Runs
<1>2. /\ UNCHANGED <<strand, key, nextKey, sessions, users, currentState,
                     socket, reader, character>>
      /\ running' = [running EXCEPT !.at = 2]
  BY <1>1, SelectHasUser DEF LockUser, tableVars, charVars, clientVars
<1>3. running'.fn = "select" /\ running'.c = c /\ running'.at = 2
  BY <1>1, <1>2 DEF TypeOK, StrandTypes, Functions
<1> QED
  BY <1>1, <1>2, <1>3, SelectGoesOn

LEMMA LoadCharacterInfoStep ==
    ASSUME TypeOK, Control, NEW c \in Clients, LoadCharacterInfo(c)
    PROVE  Control'
<1>1. running.fn = "select" /\ running.c = c /\ running.at = 2
  BY DEF LoadCharacterInfo, Runs
<1>2. UNCHANGED <<strand, key, nextKey, sessions, users, currentState,
                  socket, reader>>
  BY DEF LoadCharacterInfo, tableVars, clientVars
<1>3. CASE UNCHANGED <<charVars, running>>
  BY <1>1, <1>2, <1>3, SelectGoesOn DEF charVars
<1>4. CASE /\ character' = [character EXCEPT ![c] =
                 [user |-> c, code |-> LoadedCode, nth |-> serial[c] + 1]]
           /\ running' = [running EXCEPT !.at = 3]
  <2>1. running'.fn = "select" /\ running'.c = c
    BY <1>1, <1>4 DEF TypeOK, StrandTypes, Functions
  <2>2. character'[c] =
           [user |-> c, code |-> LoadedCode, nth |-> serial[c] + 1]
    BY <1>4 DEF TypeOK, CharacterTypes
  <2>3. character'[c].user = c
    BY <2>2
  <2>4. character'[c] # NoChar
    BY <2>3, LoginAssumption DEF NoChar
  <2>5. \A d \in Clients : d # c => character'[d] = character[d]
    BY <1>4 DEF TypeOK, CharacterTypes
  <2> QED
    BY <1>1, <1>2, <2>1, <2>4, <2>5, SelectGoesOn
<1> QED
  BY <1>3, <1>4 DEF LoadCharacterInfo

LEMMA AnswerStep ==
    ASSUME TypeOK, Control, NEW c \in Clients, Answer(c)
    PROVE  Control'
<1> USE LoginAssumption
<1>0. /\ ClientTypes /\ StrandTypes /\ TableTypes /\ CharacterTypes
      /\ Queue /\ Begun /\ Keys /\ Entered /\ Playing
      /\ Wellformed /\ Ordered
  BY DEF TypeOK, Control, Queue
<1>1. /\ running.fn = "select" /\ running.c = c /\ running.at = 3
      /\ running # None
  BY NoneIsNobody DEF Answer, Runs
<1>2. /\ UNCHANGED <<strand, key, nextKey, sessions, users, socket, reader,
                     character>>
      /\ currentState' = [currentState EXCEPT ![c] = "InGame"]
      /\ running' = None
  BY DEF Answer, tableVars, charVars
<1>3. /\ \A d \in Clients : d # c => Due(d)' = Due(d)
      /\ Due(c)' \subseteq Due(c) /\ Due(c) \subseteq Due(c)' \cup {"select"}
  BY <1>0, <1>1, <1>2, DoneDue
<1>4. GetUser(c) /\ "new" \notin Due(c) /\ "select" \in Due(c)
  BY <1>1, SelectHasUser
<1>5. \A d, n : ~EntryAt(d, n) /\ ~EntryAt(d, n)'
  BY <1>1, <1>2, NoneIsNobody DEF EntryAt
<1>6. socket[c] # "none" /\ character[c] # NoChar
  BY <1>0, <1>1, <1>4 DEF Begun, BegunAt, Playing, PlayingAt
<1>7. Queue'
  BY <1>0, <1>2, DoneQueue
<1>8. Begun'
  <2>1. BegunAt(c)'
    BY <1>0, <1>2, <1>3, <1>4, <1>5, <1>6 DEF Begun, BegunAt, Fresh
  <2>2. ASSUME NEW d \in Clients, d # c PROVE BegunAt(d)'
    BY <1>0, <1>2, <1>3, <1>5, <2>2 DEF TableTypes, Begun, BegunAt, Fresh
  <2> QED
    BY <2>1, <2>2 DEF Begun
<1>9. Keys'
  BY <1>0, <1>1, <1>2, <1>5, NoneIsNobody DEF Keys
<1>10. Entered'
  <2>1. \A d : /\ GetUser(d)' <=> GetUser(d)
               /\ InSessions(d)' <=> InSessions(d)
    BY <1>2 DEF GetUser, InSessions
  <2>2. EnteredAt(c)'
    BY <1>0, <1>2, <1>3, <1>4, <1>5, <1>6, <2>1
       DEF Entered, EnteredAt, Fresh, Unentered, Active
  <2>3. ASSUME NEW d \in Clients, d # c PROVE EnteredAt(d)'
    BY <1>0, <1>2, <1>3, <1>5, <2>1, <2>3
       DEF Entered, EnteredAt, Fresh, Unentered, Active
  <2> QED
    BY <2>2, <2>3 DEF Entered
<1>11. Playing'
  BY <1>0, <1>2, <1>3, <1>4, <1>6, NoneIsNobody
     DEF TableTypes, Playing, PlayingAt
<1> QED
  BY <1>7, <1>8, <1>9, <1>10, <1>11 DEF Control

\* Erasing a key from a table takes out the client that has it, nobody else.
LEMMA WithoutKey ==
    ASSUME NEW table, NEW c,
           \A e \in table : e.key = key[e.c],
           \E e \in table : e.c = c,
           \A d, e \in table : d.key = e.key => d.c = e.c
    PROVE  \A e \in table : e \in Without(table, key[c]) <=> e.c # c
BY DEF Without

LEMMA RemoveSessionStep ==
    ASSUME TypeOK, Control, NEW c \in Clients, RemoveSession(c)
    PROVE  Control'
<1> USE LoginAssumption
<1>0. /\ ClientTypes /\ StrandTypes /\ TableTypes /\ CharacterTypes
      /\ Queue /\ Begun /\ Keys /\ Entered /\ Playing
      /\ Wellformed /\ Ordered
  BY DEF TypeOK, Control, Queue
<1> DEFINE f == Function("erase", c, key[c])
<1>1. /\ running.fn = "remove" /\ running.c = c
      /\ running # None
  BY NoneIsNobody DEF RemoveSession, Runs
<1>2. Due(c) = {"remove"}
  <2>1. \A g \in Due(c) : g = "remove" \/ Before("remove", g)
    BY <1>0, <1>1, RunningIsDue
  <2>2. "remove" \in Due(c)
    BY <1>0, <1>1, RunningIsDue
  <2> QED
    BY <2>1, <2>2 DEF Before
<1>3. reader[c] = "stopped" /\ socket[c] # "none"
  BY <1>0, <1>2 DEF Begun, BegunAt
<1>4. GetUser(c) /\ InSessions(c)
  BY <1>0, <1>2, <1>1 DEF Entered, EnteredAt, Unentered, Fresh, EntryAt
<1>5. /\ UNCHANGED <<key, nextKey, users, currentState, character, socket,
                     reader>>
      /\ sessions' = Without(sessions, key[c])
      /\ strand' = Append(strand, f) /\ running' = None
  <2>1. HasKey(users, key[c])
    BY <1>0, <1>4 DEF GetUser, HasKey, Keys
  <2> QED
    BY <2>1 DEF RemoveSession, PostFuction, charVars, clientVars
<1>6. /\ f \in Functions /\ f.fn = "erase" /\ f.c = c /\ f.at = 1
      /\ f.code = key[c]
  BY <1>0 DEF TableTypes, Function, Functions, Ids
<1> HIDE DEF f
<1>7. \A d \in Clients : d # c => Due(d)' = Due(d)
  BY <1>0, <1>1, <1>5, <1>6, RemoveDue
<1>8. Due(c)' = {"erase"}
  BY <1>0, <1>1, <1>5, <1>6, RemoveDue
<1>9. \A d, n : ~EntryAt(d, n) /\ ~EntryAt(d, n)'
  BY <1>1, <1>5, NoneIsNobody DEF EntryAt
<1>10. \A e : e \in sessions' <=> e \in sessions /\ e.c # c
  <2>1. /\ \A e \in sessions : e.key = key[e.c]
        /\ \E e \in sessions : e.c = c
        /\ \A d, e \in sessions : d.key = e.key => d.c = e.c
    BY <1>0, <1>4 DEF Keys, InSessions
  <2>2. \A e \in sessions : e \in sessions' <=> e.c # c
    BY <1>5, <2>1, WithoutKey
  <2> QED
    BY <1>5, <2>2 DEF Without
<1>11. Queue'
  BY <1>0, <1>1, <1>5, <1>6, RemoveQueue
<1>12. Begun'
  <2>1. BegunAt(c)'
    BY <1>3, <1>5, <1>8, <1>9 DEF BegunAt, Fresh
  <2>2. ASSUME NEW d \in Clients, d # c PROVE BegunAt(d)'
    BY <1>0, <1>5, <1>7, <1>9, <2>2 DEF Begun, BegunAt, Fresh
  <2> QED
    BY <2>1, <2>2 DEF Begun
<1>13. Keys'
  <2>1. \A i \in 1 .. Len(strand') :
           strand'[i].fn = "erase" => strand'[i].code = key[strand'[i].c]
    <3>1. /\ Len(strand) \in Nat /\ Len(strand') = Len(strand) + 1
          /\ \A i \in 1 .. Len(strand) : strand'[i] = strand[i]
          /\ strand'[Len(strand) + 1] = f
      BY <1>0, <1>5, <1>6, AppendedFunctions DEF StrandTypes
    <3>2. \A i \in 1 .. Len(strand') :
             i \in 1 .. Len(strand) \/ strand'[i] = f
      BY <3>1
    <3> QED
      BY <1>0, <1>6, <3>1, <3>2 DEF Keys
  <2>2. \A e \in sessions' : /\ e.key = key[e.c]
                             /\ e.key < nextKey
    BY <1>0, <1>9, <1>10 DEF Keys
  <2>3. \A d, e \in users \cup sessions' : d.key = e.key => d.c = e.c
    BY <1>0, <1>10 DEF Keys
  <2> QED
    BY <1>0, <1>5, <1>9, <2>1, <2>2, <2>3, NoneIsNobody DEF Keys
<1>14. Entered'
  <2>1. \A d : /\ GetUser(d)' <=> GetUser(d)
               /\ InSessions(d)' <=> InSessions(d) /\ d # c
    BY <1>5, <1>10 DEF GetUser, InSessions
  <2>2. EnteredAt(c)'
    BY <1>3, <1>4, <1>5, <1>8, <1>9, <2>1
       DEF EnteredAt, Fresh, Unentered, Active
  <2>3. ASSUME NEW d \in Clients, d # c PROVE EnteredAt(d)'
    BY <1>0, <1>5, <1>7, <1>9, <2>1, <2>3
       DEF Entered, EnteredAt, Fresh, Unentered, Active
  <2> QED
    BY <2>2, <2>3 DEF Entered
<1>15. Playing'
  BY <1>0, <1>2, <1>3, <1>5, <1>7, <1>8, NoneIsNobody
     DEF Playing, PlayingAt
<1> QED
  BY <1>11, <1>12, <1>13, <1>14, <1>15 DEF Control

LEMMA EraseUserStep ==
    ASSUME TypeOK, Control, NEW c \in Clients, EraseUser(c)
    PROVE  Control'
<1> USE LoginAssumption
<1>0. /\ ClientTypes /\ StrandTypes /\ TableTypes /\ CharacterTypes
      /\ Queue /\ Begun /\ Keys /\ Entered /\ Playing
      /\ Wellformed /\ Ordered
  BY DEF TypeOK, Control, Queue
<1>1. /\ running.fn = "erase" /\ running.c = c
      /\ running # None
  BY NoneIsNobody DEF EraseUser, Runs
<1>2. Due(c) = {"erase"}
  <2>1. \A g \in Due(c) : g = "erase" \/ Before("erase", g)
    BY <1>0, <1>1, RunningIsDue
  <2>2. "erase" \in Due(c)
    BY <1>0, <1>1, RunningIsDue
  <2> QED
    BY <2>1, <2>2 DEF Before
<1>3. reader[c] = "stopped" /\ socket[c] # "none"
  BY <1>0, <1>2 DEF Begun, BegunAt
<1>4. GetUser(c) /\ ~InSessions(c)
  BY <1>0, <1>2 DEF Entered, EnteredAt
<1>5. /\ UNCHANGED <<strand, key, nextKey, sessions, currentState, socket,
                     reader>>
      /\ users' = Without(users, key[c]) /\ running' = None
      /\ character' = [character EXCEPT ![c] = NoChar]
  BY <1>0, <1>1 DEF EraseUser, Keys, clientVars
<1>6. /\ \A d \in Clients : d # c => Due(d)' = Due(d)
      /\ Due(c)' = {}
  BY <1>0, <1>1, <1>2, <1>5, DoneDue
<1>7. \A d, n : ~EntryAt(d, n) /\ ~EntryAt(d, n)'
  BY <1>1, <1>5, NoneIsNobody DEF EntryAt
<1>8. \A e : e \in users' <=> e \in users /\ e.c # c
  <2>1. /\ \A e \in users : e.key = key[e.c]
        /\ \E e \in users : e.c = c
        /\ \A d, e \in users : d.key = e.key => d.c = e.c
    BY <1>0, <1>4 DEF Keys, GetUser
  <2>2. \A e \in users : e \in users' <=> e.c # c
    BY <1>5, <2>1, WithoutKey
  <2> QED
    BY <1>5, <2>2 DEF Without
<1>9. Queue'
  BY <1>0, <1>5, DoneQueue
<1>10. Begun'
  <2>1. BegunAt(c)'
    BY <1>3, <1>5, <1>6, <1>7 DEF BegunAt, Fresh
  <2>2. ASSUME NEW d \in Clients, d # c PROVE BegunAt(d)'
    BY <1>0, <1>5, <1>6, <1>7, <2>2 DEF Begun, BegunAt, Fresh
  <2> QED
    BY <2>1, <2>2 DEF Begun
<1>11. Keys'
  BY <1>0, <1>5, <1>7, <1>8, NoneIsNobody DEF Keys
<1>12. Entered'
  <2>1. \A d : /\ GetUser(d)' <=> GetUser(d) /\ d # c
               /\ InSessions(d)' <=> InSessions(d)
    BY <1>5, <1>8 DEF GetUser, InSessions
  <2>2. EnteredAt(c)'
    BY <1>3, <1>4, <1>5, <1>6, <1>7, <2>1
       DEF EnteredAt, Fresh, Unentered, Active
  <2>3. ASSUME NEW d \in Clients, d # c PROVE EnteredAt(d)'
    BY <1>0, <1>5, <1>6, <1>7, <2>1, <2>3
       DEF Entered, EnteredAt, Fresh, Unentered, Active
  <2> QED
    BY <2>2, <2>3 DEF Entered
<1>13. Playing'
  <2>1. \A d \in Clients : d # c => character'[d] = character[d]
    BY <1>0, <1>5 DEF CharacterTypes
  <2> QED
    BY <1>0, <1>2, <1>3, <1>5, <1>6, <2>1, NoneIsNobody DEF Playing, PlayingAt
<1> QED
  BY <1>9, <1>10, <1>11, <1>12, <1>13 DEF Control

LEMMA ControlStep == TypeOK /\ Control /\ [Next]_vars => Control'
<1> SUFFICES ASSUME TypeOK, Control, [Next]_vars PROVE Control'
  OBVIOUS
<1>1. ASSUME UNCHANGED vars \/ Drain \/ Crashed PROVE Control'
  BY <1>1, QuietRest, QuietStep
<1>2. CASE Take
  BY <1>2, TakeStep
<1>3. ASSUME NEW c \in Clients, Client(c) PROVE Control'
  <2>1. CASE Connect(c)
    BY <2>1, ConnectStep
  <2>2. CASE AskCharacter(c) \/ AskMap(c) \/ Shut(c)
    BY <2>2, QuietClient, QuietStep
  <2> QED
    BY <1>3, <2>1, <2>2 DEF Client
<1>4. ASSUME NEW c \in Clients, Handler(c) PROVE Control'
  <2>1. CASE ReadNothing(c)
    BY <2>1, ReadNothingStep
  <2>2. CASE PostSelect(c)
    BY <2>2, PostSelectStep
  <2>3. CASE Enter(c)
    BY <2>3, QuietEnter, QuietStep
  <2>4. CASE \/ LoadCode(c) \/ StoreCode(c) \/ CopyCode(c) \/ Count(c)
             \/ Create(c) \/ QueryFails(c)
    BY <2>4, QuietHandler, QuietStep
  <2> QED
    BY <1>4, <2>1, <2>2, <2>3, <2>4 DEF Handler
<1>5. ASSUME NEW c \in Clients, Posted(c) PROVE Control'
  <2>1. CASE NewSession(c)
    BY <2>1, NewSessionStep
  <2>2. CASE EnterSession(c)
    BY <2>2, EnterSessionStep
  <2>3. CASE NewUser(c)
    BY <2>3, NewUserStep
  <2>4. CASE LockUser(c)
    BY <2>4, LockUserStep
  <2>5. CASE LoadCharacterInfo(c)
    BY <2>5, LoadCharacterInfoStep
  <2>6. CASE Answer(c)
    BY <2>6, AnswerStep
  <2>7. CASE RemoveSession(c)
    BY <2>7, RemoveSessionStep
  <2>8. CASE EraseUser(c)
    BY <2>8, EraseUserStep
  <2> QED
    BY <1>5, <2>1, <2>2, <2>3, <2>4, <2>5, <2>6, <2>7, <2>8 DEF Posted
<1> QED
  BY <1>1, <1>2, <1>3, <1>4, <1>5 DEF Next

LEMMA InitIInv == Init => IInv
<1> SUFFICES ASSUME Init PROVE IInv
  OBVIOUS
<1> USE LoginAssumption
<1>1. NoChar \in Characters
  BY DEF NoChar, Characters, Ids
<1>2. ClientTypes /\ CodeTypes /\ TableTypes /\ ChannelTypes
  BY DEF Init, ClientTypes, CodeTypes, TableTypes, ChannelTypes
<1>3. StrandTypes /\ CharacterTypes
  BY <1>1, NoneIsNobody DEF Init, StrandTypes, CharacterTypes
<1>4. Len(strand) = 0 /\ 1 .. Len(strand) = {}
  BY DEF Init
<1>5. \A c \in Clients : Due(c) = {}
  BY <1>4, NoneIsNobody DEF Init, Due, Posting, Fns
<1>6. \A c, n : ~EntryAt(c, n)
  BY NoneIsNobody DEF Init, EntryAt
<1>7. Queue
  BY <1>4 DEF Init, Queue, Wellformed, Ordered
<1>8. Begun
  BY <1>5, <1>6 DEF Init, Begun, BegunAt, Fresh
<1>9. Keys
  BY <1>4, <1>6, NoneIsNobody DEF Init, Keys
<1>10. Entered
  BY <1>5, <1>6
     DEF Init, Entered, EnteredAt, Fresh, Unentered, Active, GetUser,
         InSessions
<1>11. Playing
  BY <1>5, NoneIsNobody DEF Init, Playing, PlayingAt
<1> QED
  BY <1>2, <1>3, <1>7, <1>8, <1>9, <1>10, <1>11 DEF IInv, TypeOK, Control

-----------------------------------------------------------------------------
\* The functions posted for a connection are in the order of its life, and say
\* when it is in the tables and when its character may be used.
THEOREM LoginInvariance == Spec => []IInv
<1>1. IInv /\ [Next]_vars => IInv'
  BY TypeStep, ControlStep DEF IInv
<1> QED
  BY InitIInv, <1>1, PTL DEF Spec

\* The variables keep their types, for any number of clients, packets and
\* threads.
THEOREM LoginTypeCorrect == Spec => []TypeOK
<1>1. IInv => TypeOK
  BY DEF IInv
<1> QED
  BY <1>1, LoginInvariance, PTL

\* InGameState.cpp:51 uses the user and its character without a test, and
\* finds both; LoginState.cpp:55 never finds the user gone.
THEOREM UserIsFound == Spec => []HandlersFindUser
<1>1. ASSUME IInv PROVE HandlersFindUser
  <2>1. ASSUME NEW c \in Clients, reader[c] = "enter"
        PROVE  GetUser(c) /\ character[c] # NoChar
    <3>1. currentState[c] = "InGame" /\ Active(c)
      BY <1>1, <2>1 DEF IInv, Control, Playing, PlayingAt, Active
    <3>2. "new" \notin Due(c) /\ character[c] # NoChar
      BY <1>1, <2>1, <3>1 DEF IInv, Control, Playing, PlayingAt
    <3> QED
      BY <1>1, <3>1, <3>2 DEF IInv, Control, Entered, EnteredAt
  <2>2. ASSUME NEW c \in Clients, running.fn = "select", running.c = c
        PROVE  GetUser(c)
    BY <1>1, <2>2, SelectHasUser DEF IInv
  <2> QED
    BY <2>1, <2>2 DEF HandlersFindUser
<1> QED
  BY <1>1, LoginInvariance, PTL

\* NewUser and RemoveSession with what it posts keep SessionManager::sessions
\* and UserManager::users in step, for any number of connections that come and
\* go at once.
THEOREM TablesInStep == Spec => []TablesAgree
<1>1. ASSUME IInv PROVE TablesAgree
  <2>1. SUFFICES ASSUME NEW c \in Clients,
                        ~Posting(c, {"new", "remove", "erase"})
                 PROVE  LET mine == {[key |-> key[c], c |-> c]}
                            Of(table) == {e \in table : e.c = c}
                        IN  IF reader[c] \in {"none", "stopped"}
                            THEN Of(sessions) = {} /\ Of(users) = {}
                            ELSE /\ Of(sessions) = mine /\ Of(users) = mine
                                 /\ \A d \in Clients \ {c} :
                                       ~Posting(d, {"new"}) =>
                                         \A e \in sessions \cup users :
                                             e.key = key[c] => e.c = c
    BY DEF TablesAgree
  <2>2. Due(c) \cap {"new", "remove", "erase"} = {}
    BY <2>1, PostingIsDue DEF Fns
  <2>3. ~Fresh(c) /\ ~Unentered(c)
    BY <1>1, <2>2 DEF Fresh, Unentered, EntryAt, Due, Posting, Fns
  <2>4. /\ \A e \in sessions \cup users : e.key = key[e.c]
        /\ \A d, e \in users \cup sessions : d.key = e.key => d.c = e.c
        /\ sessions \subseteq Entries /\ users \subseteq Entries
    BY <1>1 DEF IInv, Control, Keys, TypeOK, TableTypes
  <2>5. CASE reader[c] \in {"none", "stopped"}
    <3>1. ~InSessions(c) /\ ~GetUser(c)
      BY <1>1, <2>2, <2>3, <2>5
         DEF IInv, Control, Begun, BegunAt, Entered, EnteredAt
    <3> QED
      BY <2>5, <3>1 DEF InSessions, GetUser
  <2>6. CASE reader[c] \notin {"none", "stopped"}
    <3>1. InSessions(c) /\ GetUser(c)
      BY <1>1, <2>2, <2>3, <2>6 DEF IInv, Control, Entered, EnteredAt, Active
    <3>2. \A e \in Entries : e.c = c /\ e.key = key[c]
                              => e = [key |-> key[c], c |-> c]
      BY DEF Entries
    <3>3. {e \in sessions : e.c = c} = {[key |-> key[c], c |-> c]}
      BY <2>4, <3>1, <3>2 DEF InSessions
    <3>4. {e \in users : e.c = c} = {[key |-> key[c], c |-> c]}
      BY <2>4, <3>1, <3>2 DEF GetUser
    <3>5. \A e \in sessions \cup users : e.key = key[c] => e.c = c
      BY <2>4, <3>1 DEF GetUser
    <3> QED
      BY <2>6, <3>3, <3>4, <3>5
  <2> QED
    BY <2>5, <2>6
<1> QED
  BY <1>1, LoginInvariance, PTL
-----------------------------------------------------------------------------
(* Codes, and who is left behind in a channel. *)

SelectAt(i, c) == strand[i].fn = "select" /\ strand[i].c = c
Selecting(c) == running.fn = "select" /\ running.c = c

\* A code that a request of c has drawn, or its character has.
Held(c, n) ==
    \/ reader[c] \in {"copy", "count", "create", "post"} /\ code[c] = n
    \/ Selecting(c) /\ running.code = n
    \/ \E i \in 1 .. Len(strand) : SelectAt(i, c) /\ strand[i].code = n
    \/ character[c] # NoChar /\ character[c].code = n

\* While no two decrements overlapped: codes are counted, and each is drawn once.
Codes ==
    raced \/ /\ \A c \in Clients, n \in Nat : Held(c, n) => n <= charcode
             /\ \A c, d \in Clients, n \in Nat : Held(c, n) /\ Held(d, n) => c = d
             /\ \A c \in Clients :
                   /\ reader[c] = "store" => code[c] = charcode + 1
                   /\ reader[c] = "copy" => code[c] = charcode
             /\ \A c, d \in Clients :
                   {reader[c], reader[d]} \subseteq {"store", "copy"} => c = d

\* A client that waits has one request under way, and a character when it was
\* answered.
Asking(c) ==
    reader[c] \in {"decrement", "store", "copy", "count", "create", "post"}
OnceAt(c) ==
    /\ Asking(c) => awaiting[c] /\ "select" \notin Due(c)
    /\ "select" \in Due(c) => awaiting[c]
    /\ awaiting[c] => ~chosen[c]
    /\ \A i, j \in 1 .. Len(strand) : SelectAt(i, c) /\ SelectAt(j, c) => i = j
    /\ Selecting(c) => \A i \in 1 .. Len(strand) : ~SelectAt(i, c)
    /\ character[c] # NoChar => chosen[c] \/ (Selecting(c) /\ running.at = 3)
Once == \A c \in Patient : OnceAt(c)

\* Who waits to be inserted plays on, or its user is gone for good.
Plays(p) == p = character[p.user] /\ inside[p.user]
Guests ==
    /\ \A c \in Clients : character[c] # NoChar => character[c].user = c
    /\ \A p \in insertQ :
          p.user \in Patient =>
              /\ socket[p.user] # "none" /\ "new" \notin Due(p.user)
              /\ Plays(p) \/ ~GetUser(p.user)

GInv == Codes /\ Once /\ Guests /\ NoGhosts

LEMMA SelectDue ==
    ASSUME NEW c
    PROVE  "select" \in Due(c) <=>
               Selecting(c) \/ \E i \in 1 .. Len(strand) : SelectAt(i, c)
BY DEF Due, Posting, Fns, Selecting, SelectAt

\* A step that makes no request, and ends none that has given a character.
Calm ==
    /\ \A c \in Clients : Selecting(c)' => Selecting(c) /\ running'.code = running.code
    /\ \A c \in Clients :
          Selecting(c) /\ running.at = 3 => Selecting(c)' /\ running'.at = 3
    /\ \A c \in Clients : \A i \in 1 .. Len(strand') :
          SelectAt(i, c)' => /\ i \in 1 .. Len(strand)
                             /\ SelectAt(i, c) /\ strand'[i] = strand[i]
    /\ UNCHANGED <<character, chosen>>

LEMMA SameRequests ==
    ASSUME TypeOK, UNCHANGED <<character, chosen, strand>>,
           \/ running' = running
           \/ running' = None /\ (running.fn # "select" \/ running.at # 3)
           \/ \E n \in 1 .. 3 : /\ running' = [running EXCEPT !.at = n]
                                /\ running.fn # "select" \/ running.at # 3
    PROVE  Calm
<1>1. running \in Functions /\ None.fn = "none"
  BY DEF TypeOK, StrandTypes, None
<1>2. \A n \in 1 .. 3 : /\ [running EXCEPT !.at = n].fn = running.fn
                        /\ [running EXCEPT !.at = n].c = running.c
                        /\ [running EXCEPT !.at = n].code = running.code
  BY <1>1 DEF Functions
<1>3. \A c \in Clients : Selecting(c)' => Selecting(c) /\ running'.code = running.code
  BY <1>1, <1>2 DEF Selecting
<1>4. \A c \in Clients :
         Selecting(c) /\ running.at = 3 => Selecting(c)' /\ running'.at = 3
  BY DEF Selecting
<1>5. \A c \in Clients : \A i \in 1 .. Len(strand') :
          SelectAt(i, c)' => /\ i \in 1 .. Len(strand)
                             /\ SelectAt(i, c) /\ strand'[i] = strand[i]
  BY DEF SelectAt
<1> QED
  BY <1>3, <1>4, <1>5 DEF Calm

LEMMA OtherPosted ==
    ASSUME TypeOK, UNCHANGED <<character, chosen>>,
           NEW f \in Functions, f.fn # "select", strand' = Append(strand, f),
           running' = running \/ (running' = None /\ running.fn # "select")
    PROVE  Calm
<1>1. running \in Functions /\ None.fn = "none" /\ strand \in Seq(Functions)
  BY DEF TypeOK, StrandTypes, None
<1>2. /\ Len(strand) \in Nat /\ Len(strand') = Len(strand) + 1
      /\ \A i \in 1 .. Len(strand) : strand'[i] = strand[i]
      /\ strand'[Len(strand) + 1] = f
  BY <1>1, AppendedFunctions
<1>3. \A c \in Clients : Selecting(c)' => Selecting(c) /\ running'.code = running.code
  BY <1>1 DEF Selecting
<1>4. \A c \in Clients :
         Selecting(c) /\ running.at = 3 => Selecting(c)' /\ running'.at = 3
  BY DEF Selecting
<1>5. \A c \in Clients : \A i \in 1 .. Len(strand') :
          SelectAt(i, c)' => /\ i \in 1 .. Len(strand)
                             /\ SelectAt(i, c) /\ strand'[i] = strand[i]
  BY <1>2 DEF SelectAt
<1> QED
  BY <1>3, <1>4, <1>5 DEF Calm

LEMMA CalmClient ==
    ASSUME TypeOK, NEW c \in Clients, Client(c)
    PROVE  Calm
<1>1. CASE Connect(c)
  <2>1. Function("new", c, 0) \in Functions /\ Function("new", c, 0).fn # "select"
    BY DEF Function, Functions, Ids
  <2>2. /\ strand' = Append(strand, Function("new", c, 0)) /\ running' = running
        /\ UNCHANGED <<character, chosen>>
    BY <1>1 DEF Connect, PostFuction, charVars
  <2> QED
    BY <2>1, <2>2, OtherPosted
<1>2. CASE AskCharacter(c) \/ AskMap(c) \/ Shut(c)
  BY <1>2, SameRequests DEF AskCharacter, AskMap, Shut, charVars
<1> QED
  BY <1>1, <1>2 DEF Client

LEMMA CalmHandler ==
    ASSUME TypeOK, NEW c \in Clients, Handler(c), ~PostSelect(c)
    PROVE  Calm
<1>1. CASE ReadNothing(c)
  <2>1. Function("remove", c, 0) \in Functions /\ Function("remove", c, 0).fn # "select"
    BY DEF Function, Functions, Ids
  <2>2. /\ strand' = Append(strand, Function("remove", c, 0)) /\ running' = running
        /\ UNCHANGED <<character, chosen>>
    BY <1>1 DEF ReadNothing, PostFuction, charVars
  <2> QED
    BY <2>1, <2>2, OtherPosted
<1>2. ASSUME \/ LoadCode(c) \/ StoreCode(c) \/ CopyCode(c) \/ Count(c)
             \/ Create(c) \/ QueryFails(c) \/ Enter(c)
      PROVE  Calm
  <2>1. UNCHANGED <<strand, running, character, chosen>>
    BY <1>2 DEF LoadCode, StoreCode, CopyCode, Count, Create, QueryFails, Enter,
                charVars
  <2> QED
    BY <2>1, SameRequests
<1> QED
  BY <1>1, <1>2 DEF Handler

LEMMA CalmPosted ==
    ASSUME TypeOK, Control, NEW c \in Clients, Posted(c),
           ~LoadCharacterInfo(c), ~Answer(c), ~EraseUser(c)
    PROVE  Calm
<1>1. CASE NewSession(c) \/ EnterSession(c) \/ NewUser(c)
  BY <1>1, SameRequests DEF NewSession, EnterSession, NewUser, Runs, charVars
<1>2. CASE LockUser(c)
  BY <1>2, SameRequests DEF LockUser, Runs, charVars
<1>3. CASE RemoveSession(c)
  <2>1. /\ running' = None /\ running.fn = "remove"
        /\ UNCHANGED <<character, chosen>>
    BY <1>3 DEF RemoveSession, Runs, charVars
  <2>2. CASE strand' = strand
    BY <2>1, <2>2, SameRequests
  <2>3. CASE strand' = Append(strand, Function("erase", c, key[c]))
    <3>1. /\ Function("erase", c, key[c]) \in Functions
          /\ Function("erase", c, key[c]).fn # "select"
      BY DEF TypeOK, TableTypes, Function, Functions, Ids
    <3> QED
      BY <2>1, <2>3, <3>1, OtherPosted
  <2> QED
    BY <1>3, <2>2, <2>3 DEF RemoveSession, PostFuction
<1> QED
  BY <1>1, <1>2, <1>3 DEF Posted

LEMMA CalmRest ==
    ASSUME TypeOK, UNCHANGED vars \/ Drain \/ Crashed
    PROVE  Calm
BY SameRequests DEF Drain, Crashed, vars, charVars

\* A step in which no code is drawn.
LEMMA CodesKept ==
    ASSUME Codes, raced => raced', charcode' = charcode,
           \A c \in Clients, n \in Nat : Held(c, n)' => Held(c, n),
           \A c \in Clients : reader'[c] \in {"store", "copy"}
                                 => reader'[c] = reader[c] /\ code'[c] = code[c]
    PROVE  Codes'
BY DEF Codes

LEMMA CalmHeld ==
    ASSUME Calm, NEW c \in Clients,
           reader'[c] \in {"copy", "count", "create", "post"}
              => /\ reader[c] \in {"copy", "count", "create", "post"}
                 /\ code'[c] = code[c]
    PROVE  \A n \in Nat : Held(c, n)' => Held(c, n)
BY DEF Calm, Held

\* Most steps leave the handlers that hold a code alone, or let go of it.
LEMMA CalmCodes ==
    ASSUME Calm, Codes, UNCHANGED <<code, charcode, raced>>,
           \A c \in Clients :
              reader'[c] = reader[c]
                 \/ reader'[c] \notin {"store", "copy", "count", "create", "post"}
                 \/ /\ reader[c] \in {"count", "create"}
                    /\ reader'[c] \in {"create", "post"}
    PROVE  Codes'
<1>1. \A c \in Clients, n \in Nat : Held(c, n)' => Held(c, n)
  <2> SUFFICES ASSUME NEW c \in Clients
               PROVE  \A n \in Nat : Held(c, n)' => Held(c, n)
    OBVIOUS
  <2>1. reader'[c] \in {"copy", "count", "create", "post"}
           => /\ reader[c] \in {"copy", "count", "create", "post"}
              /\ code'[c] = code[c]
    OBVIOUS
  <2> QED
    BY <2>1, CalmHeld
<1> QED
  BY <1>1, CodesKept

LEMMA LoadCodeCodes ==
    ASSUME TypeOK, Codes, NEW c \in Clients, LoadCode(c)
    PROVE  Codes'
<1>1. /\ reader[c] = "decrement"
      /\ reader' = [reader EXCEPT ![c] = "store"]
      /\ code' = [code EXCEPT ![c] = charcode + 1]
      /\ raced' = (raced \/ \E d \in Clients : reader[d] \in {"store", "copy"})
      /\ UNCHANGED <<charcode, strand, running, character>>
  BY DEF LoadCode, charVars
<1>2. /\ reader'[c] = "store" /\ code'[c] = charcode + 1
      /\ \A d \in Clients : d # c => reader'[d] = reader[d] /\ code'[d] = code[d]
  BY <1>1 DEF TypeOK, ClientTypes, CodeTypes
<1>3. \A d \in Clients, n \in Nat : Held(d, n)' => Held(d, n)
  BY <1>1, <1>2 DEF Held, Selecting, SelectAt
<1>4. CASE raced'
  BY <1>4 DEF Codes
<1>5. CASE ~raced'
  <2>1. ~raced /\ \A d \in Clients : reader[d] \notin {"store", "copy"}
    BY <1>1, <1>5
  <2> QED
    BY <1>1, <1>2, <1>3, <2>1 DEF Codes
<1> QED
  BY <1>4, <1>5

LEMMA StoreCodeCodes ==
    ASSUME TypeOK, Codes, NEW c \in Clients, StoreCode(c)
    PROVE  Codes'
<1>1. /\ reader[c] = "store"
      /\ reader' = [reader EXCEPT ![c] = "copy"]
      /\ charcode' = code[c]
      /\ UNCHANGED <<code, raced, strand, running, character>>
  BY DEF StoreCode, charVars
<1>2. /\ reader'[c] = "copy" /\ charcode \in Nat /\ code[c] \in Nat
      /\ \A d \in Clients : d # c => reader'[d] = reader[d]
  BY <1>1 DEF TypeOK, ClientTypes, CodeTypes
<1>3. CASE raced
  BY <1>1, <1>3 DEF Codes
<1>4. CASE ~raced
  <2>1. charcode' = charcode + 1 /\ code[c] = charcode + 1
    BY <1>1, <1>4 DEF Codes
  <2>2. \A d \in Clients, n \in Nat :
           Held(d, n)' => Held(d, n) \/ (d = c /\ n = charcode + 1)
    BY <1>1, <1>2, <2>1 DEF Held, Selecting, SelectAt
  <2>3. \A d \in Clients, n \in Nat : Held(d, n) => n <= charcode
    BY <1>4 DEF Codes
  <2>4. \A d, e \in Clients, n \in Nat : Held(d, n) /\ Held(e, n) => d = e
    BY <1>4 DEF Codes
  <2>5. \A d \in Clients, n \in Nat : Held(d, n)' => n <= charcode'
    BY <1>2, <2>1, <2>2, <2>3
  <2>6. \A d, e \in Clients, n \in Nat : Held(d, n)' /\ Held(e, n)' => d = e
    BY <1>2, <2>2, <2>3, <2>4
  <2>7. \A d \in Clients : d # c => reader'[d] \notin {"store", "copy"}
    BY <1>1, <1>2, <1>4 DEF Codes
  <2>8. \A d \in Clients : /\ reader'[d] = "store" => code'[d] = charcode' + 1
                           /\ reader'[d] = "copy" => code'[d] = charcode'
    BY <1>1, <1>2, <2>1, <2>7
  <2>9. \A d, e \in Clients : {reader'[d], reader'[e]} \subseteq {"store", "copy"} => d = e
    BY <2>7
  <2> QED
    BY <2>5, <2>6, <2>8, <2>9 DEF Codes
<1> QED
  BY <1>3, <1>4

LEMMA CopyCodeCodes ==
    ASSUME TypeOK, Codes, NEW c \in Clients, CopyCode(c)
    PROVE  Codes'
<1>1. /\ reader[c] = "copy"
      /\ reader' = [reader EXCEPT ![c] = "count"]
      /\ code' = [code EXCEPT ![c] = charcode]
      /\ UNCHANGED <<charcode, raced, strand, running, character>>
  BY DEF CopyCode, charVars
<1>2. /\ reader'[c] = "count" /\ code'[c] = charcode
      /\ \A d \in Clients : d # c => reader'[d] = reader[d] /\ code'[d] = code[d]
  BY <1>1 DEF TypeOK, ClientTypes, CodeTypes
<1>3. CASE raced
  BY <1>1, <1>3 DEF Codes
<1>4. CASE ~raced
  <2>1. code[c] = charcode
    BY <1>1, <1>4 DEF Codes
  <2>2. \A d \in Clients, n \in Nat : Held(d, n)' => Held(d, n)
    BY <1>1, <1>2, <2>1 DEF Held, Selecting, SelectAt
  <2>3. \A d \in Clients : reader'[d] \in {"store", "copy"}
           => reader'[d] = reader[d] /\ code'[d] = code[d]
    BY <1>2
  <2> QED
    BY <1>1, <2>2, <2>3, CodesKept
<1> QED
  BY <1>3, <1>4

LEMMA PostSelectCodes ==
    ASSUME TypeOK, Codes, NEW c \in Clients, PostSelect(c)
    PROVE  Codes'
<1> DEFINE f == Function("select", c, code[c])
<1>1. /\ reader[c] = "post"
      /\ reader' = [reader EXCEPT ![c] = "reading"]
      /\ strand' = Append(strand, f)
      /\ UNCHANGED <<code, charcode, raced, running, character>>
  BY DEF PostSelect, PostFuction, codeVars, charVars
<1>2. strand \in Seq(Functions) /\ f \in Functions /\ f.c = c /\ f.code = code[c]
  BY DEF TypeOK, StrandTypes, CodeTypes, Function, Functions, Ids
<1> HIDE DEF f
<1>3. /\ Len(strand) \in Nat /\ Len(strand') = Len(strand) + 1
      /\ \A i \in 1 .. Len(strand) : strand'[i] = strand[i]
      /\ strand'[Len(strand) + 1] = f
  BY <1>1, <1>2, AppendedFunctions
<1>4. /\ reader'[c] = "reading"
      /\ \A d \in Clients : d # c => reader'[d] = reader[d]
  BY <1>1 DEF TypeOK, ClientTypes
<1>5. \A d \in Clients, n \in Nat :
         (\E i \in 1 .. Len(strand') : SelectAt(i, d)' /\ strand'[i].code = n)
            => \/ \E i \in 1 .. Len(strand) : SelectAt(i, d) /\ strand[i].code = n
               \/ d = c /\ code[c] = n
  BY <1>2, <1>3 DEF SelectAt
<1>6. \A d \in Clients, n \in Nat : Held(d, n)' => Held(d, n)
  BY <1>1, <1>4, <1>5 DEF Held, Selecting
<1>7. \A d \in Clients : reader'[d] \in {"store", "copy"}
           => reader'[d] = reader[d] /\ code'[d] = code[d]
  BY <1>1, <1>4
<1> QED
  BY <1>1, <1>6, <1>7, CodesKept

LEMMA TakeCodes ==
    ASSUME TypeOK, Codes, Take
    PROVE  Codes'
<1>1. /\ running = None /\ strand # <<>>
      /\ running' = Head(strand) /\ strand' = Tail(strand)
      /\ UNCHANGED <<reader, code, charcode, raced, character>>
  BY DEF Take, codeVars, charVars
<1>2. strand \in Seq(Functions)
  BY DEF TypeOK, StrandTypes
<1>3. /\ Len(strand) \in Nat \ {0} /\ Len(strand') = Len(strand) - 1
      /\ \A i \in 1 .. Len(strand) - 1 : strand'[i] = strand[i + 1]
      /\ running' = strand[1]
  BY <1>1, <1>2, TailOfFunctions
<1>4. \A i \in 1 .. Len(strand') : /\ i + 1 \in 1 .. Len(strand)
                                   /\ strand'[i] = strand[i + 1]
  BY <1>3
<1>5. 1 \in 1 .. Len(strand)
  BY <1>3
<1>6. \A d \in Clients, n \in Nat : Held(d, n)' => Held(d, n)
  BY <1>1, <1>3, <1>4, <1>5 DEF Held, Selecting, SelectAt
<1> QED
  BY <1>1, <1>6, CodesKept

LEMMA DoneCodes ==
    ASSUME TypeOK, Codes, NEW c \in Clients,
           LoadCharacterInfo(c) \/ Answer(c) \/ EraseUser(c)
    PROVE  Codes'
<1>1. UNCHANGED <<reader, code, charcode, raced, strand>>
  BY DEF LoadCharacterInfo, Answer, EraseUser, codeVars
<1>2. running \in Functions /\ None.fn = "none"
  BY DEF TypeOK, StrandTypes, None
<1>3. CASE LoadCharacterInfo(c) /\ LoadedCode \in rows /\ UNCHANGED crash
  <2>1. /\ Selecting(c)
        /\ running'.fn = running.fn /\ running'.c = running.c
        /\ running'.code = running.code
        /\ character' = [character EXCEPT ![c] =
              [user |-> c, code |-> running.code, nth |-> serial[c] + 1]]
           \/ character' = character
    BY <1>2, <1>3 DEF LoadCharacterInfo, LoadedCode, Runs, Selecting, Functions,
                      charVars
  <2>2. /\ \A d \in Clients : d # c => character'[d] = character[d]
        /\ \/ character'[c] = character[c]
           \/ character'[c].code = running.code
    BY <2>1 DEF TypeOK, CharacterTypes
  <2>3. \A d \in Clients, n \in Nat : Held(d, n)' => Held(d, n)
    BY <1>1, <2>1, <2>2 DEF Held, Selecting, SelectAt
  <2> QED
    BY <1>1, <2>3, CodesKept
<1>4. CASE LoadCharacterInfo(c) /\ UNCHANGED <<charVars, running>>
  <2>1. \A d \in Clients, n \in Nat : Held(d, n)' => Held(d, n)
    BY <1>1, <1>4 DEF Held, Selecting, SelectAt, charVars
  <2> QED
    BY <1>1, <2>1, CodesKept
<1>5. CASE Answer(c) \/ EraseUser(c)
  <2>1. /\ running' = None
        /\ character' = character \/ character' = [character EXCEPT ![c] = NoChar]
    BY <1>5 DEF Answer, EraseUser, charVars
  <2>2. \A d \in Clients : character'[d] = character[d] \/ character'[d] = NoChar
    BY <2>1 DEF TypeOK, CharacterTypes
  <2>3. \A d \in Clients, n \in Nat : Held(d, n)' => Held(d, n)
    BY <1>1, <1>2, <2>1, <2>2 DEF Held, Selecting, SelectAt
  <2> QED
    BY <1>1, <2>3, CodesKept
<1> QED
  BY <1>3, <1>4, <1>5 DEF LoadCharacterInfo

LEMMA CodesStep == TypeOK /\ Control /\ Codes /\ [Next]_vars => Codes'
<1> SUFFICES ASSUME TypeOK, Control, Codes, [Next]_vars PROVE Codes'
  OBVIOUS
<1>1. ASSUME UNCHANGED vars \/ Drain \/ Crashed PROVE Codes'
  <2>1. UNCHANGED <<reader, code, charcode, raced>>
    BY <1>1 DEF Drain, Crashed, vars, codeVars
  <2> QED
    BY <1>1, <2>1, CalmRest, CalmCodes
<1>2. ASSUME NEW c \in Clients, Client(c) PROVE Codes'
  <2>1. /\ UNCHANGED <<code, charcode, raced>>
        /\ reader' = reader \/ reader' = [reader EXCEPT ![c] = "decrement"]
                            \/ reader' = [reader EXCEPT ![c] = "enter"]
    BY <1>2 DEF Client, Connect, AskCharacter, AskMap, Shut, codeVars
  <2>2. \A d \in Clients : reader'[d] = reader[d]
                              \/ reader'[d] \in {"decrement", "enter"}
    BY <2>1 DEF TypeOK, ClientTypes
  <2> QED
    BY <1>2, <2>1, <2>2, CalmClient, CalmCodes
<1>3. ASSUME NEW c \in Clients,
             \/ ReadNothing(c) \/ Count(c) \/ Create(c) \/ QueryFails(c)
             \/ Enter(c)
      PROVE Codes'
  <2>1. Handler(c) /\ ~PostSelect(c)
    BY <1>3 DEF Handler, ReadNothing, Count, Create, QueryFails, Enter, PostSelect
  <2>2. /\ UNCHANGED <<code, charcode, raced>>
        /\ \/ reader' = [reader EXCEPT ![c] = "stopped"]
           \/ reader' = [reader EXCEPT ![c] = "reading"]
           \/ /\ reader[c] \in {"count", "create"}
              /\ \/ reader' = [reader EXCEPT ![c] = "create"]
                 \/ reader' = [reader EXCEPT ![c] = "post"]
    BY <1>3 DEF ReadNothing, Count, Create, QueryFails, Enter, codeVars
  <2>3. \A d \in Clients :
           \/ reader'[d] = reader[d]
           \/ reader'[d] \in {"stopped", "reading"}
           \/ /\ reader[d] \in {"count", "create"}
              /\ reader'[d] \in {"create", "post"}
    BY <2>2 DEF TypeOK, ClientTypes
  <2> QED
    BY <2>1, <2>2, <2>3, CalmHandler, CalmCodes
<1>4. ASSUME NEW c \in Clients, Posted(c), ~LoadCharacterInfo(c), ~Answer(c),
             ~EraseUser(c)
      PROVE Codes'
  <2>1. /\ UNCHANGED <<code, charcode, raced>>
        /\ reader' = reader \/ reader' = [reader EXCEPT ![c] = "reading"]
    BY <1>4 DEF Posted, NewSession, EnterSession, NewUser, LockUser,
                RemoveSession, codeVars
  <2>2. \A d \in Clients : reader'[d] = reader[d] \/ reader'[d] = "reading"
    BY <2>1 DEF TypeOK, ClientTypes
  <2> QED
    BY <1>4, <2>1, <2>2, CalmPosted, CalmCodes
<1>5. ASSUME NEW c \in Clients, Handler(c) PROVE Codes'
  BY <1>3, <1>5, LoadCodeCodes, StoreCodeCodes, CopyCodeCodes, PostSelectCodes
     DEF Handler
<1>6. ASSUME NEW c \in Clients, Posted(c) PROVE Codes'
  BY <1>4, <1>6, DoneCodes
<1> QED
  BY <1>1, <1>2, <1>5, <1>6, TakeCodes DEF Next

LEMMA CalmOnce ==
    ASSUME Calm, Once, UNCHANGED awaiting,
           \A c \in Clients : Asking(c)' => Asking(c)
    PROVE  Once'
<1> SUFFICES ASSUME NEW c \in Patient PROVE OnceAt(c)'
  BY DEF Once
<1>1. c \in Clients /\ OnceAt(c)
  BY LoginAssumption DEF Once
<1>2. \A i \in 1 .. Len(strand') :
          SelectAt(i, c)' => i \in 1 .. Len(strand) /\ SelectAt(i, c)
  BY <1>1 DEF Calm
<1>3. Selecting(c)' => Selecting(c)
  BY <1>1 DEF Calm
<1>4. ("select" \in Due(c))' =>
          Selecting(c)' \/ \E i \in 1 .. Len(strand') : SelectAt(i, c)'
  BY DEF Due, Posting, Fns, Selecting, SelectAt
<1>5. ("select" \in Due(c))' => "select" \in Due(c)
  BY <1>2, <1>3, <1>4, SelectDue
<1>6. Selecting(c) /\ running.at = 3 => Selecting(c)' /\ running'.at = 3
  BY <1>1 DEF Calm
<1>7. awaiting' = awaiting /\ chosen' = chosen /\ character' = character
  BY DEF Calm
<1>8. Asking(c)' => Asking(c)
  BY <1>1
<1> QED
  BY <1>1, <1>2, <1>3, <1>5, <1>6, <1>7, <1>8 DEF OnceAt

LEMMA AskOnce ==
    ASSUME TypeOK, Once, NEW c \in Clients, AskCharacter(c), currentState[c] = "Login"
    PROVE  Once'
<1> SUFFICES ASSUME NEW d \in Patient PROVE OnceAt(d)'
  BY DEF Once
<1>1. d \in Clients /\ OnceAt(d)
  BY LoginAssumption DEF Once
<1>2. /\ reader' = [reader EXCEPT ![c] = "decrement"]
      /\ awaiting' = [awaiting EXCEPT ![c] = TRUE]
      /\ c \in Patient => ~awaiting[c] /\ ~chosen[c]
      /\ UNCHANGED <<chosen, strand, running, character>>
  BY DEF AskCharacter, charVars
<1>3. Due(d)' = Due(d)
  BY <1>2, SameDue
<1>4. CASE d = c
  <2>1. awaiting'[c] = TRUE /\ reader'[c] = "decrement"
    BY <1>2 DEF TypeOK, ClientTypes
  <2> QED
    BY <1>1, <1>2, <1>3, <1>4, <2>1 DEF OnceAt, Selecting, SelectAt
<1>5. CASE d # c
  <2>1. awaiting'[d] = awaiting[d] /\ reader'[d] = reader[d]
    BY <1>1, <1>2, <1>5 DEF TypeOK, ClientTypes
  <2> QED
    BY <1>1, <1>2, <1>3, <2>1 DEF OnceAt, Selecting, SelectAt, Asking
<1> QED
  BY <1>4, <1>5

LEMMA PostSelectOnce ==
    ASSUME TypeOK, Once, NEW c \in Clients, PostSelect(c)
    PROVE  Once'
<1> DEFINE f == Function("select", c, code[c])
<1> SUFFICES ASSUME NEW d \in Patient PROVE OnceAt(d)'
  BY DEF Once
<1>1. d \in Clients /\ OnceAt(d)
  BY LoginAssumption DEF Once
<1>2. /\ reader[c] = "post"
      /\ reader' = [reader EXCEPT ![c] = "reading"]
      /\ strand' = Append(strand, f)
      /\ UNCHANGED <<awaiting, chosen, running, character>>
  BY DEF PostSelect, PostFuction, clientVars, charVars
<1>3. /\ strand \in Seq(Functions) /\ f \in Functions
      /\ f.c = c /\ f.fn = "select"
  BY DEF TypeOK, StrandTypes, CodeTypes, Function, Functions, Ids
<1> HIDE DEF f
<1>4. /\ Len(strand) \in Nat /\ Len(strand') = Len(strand) + 1
      /\ \A i \in 1 .. Len(strand) : strand'[i] = strand[i]
      /\ strand'[Len(strand) + 1] = f
  BY <1>2, <1>3, AppendedFunctions
<1>5. /\ \A e \in Clients : e # c => Due(e)' = Due(e)
      /\ Due(c)' = Due(c) \cup {"select"}
  BY <1>2, <1>3, AppendDue DEF TypeOK, Fns
<1>6. CASE d # c
  <2>1. reader'[d] = reader[d] /\ Due(d)' = Due(d)
    BY <1>1, <1>2, <1>5, <1>6 DEF TypeOK, ClientTypes
  <2>2. \A i \in 1 .. Len(strand') :
           SelectAt(i, d)' => i \in 1 .. Len(strand) /\ SelectAt(i, d)
    BY <1>3, <1>4, <1>6 DEF SelectAt
  <2> QED
    BY <1>1, <1>2, <2>1, <2>2 DEF OnceAt, Selecting, Asking
<1>7. CASE d = c
  <2>1. reader'[c] = "reading" /\ awaiting[c] /\ "select" \notin Due(c)
    BY <1>1, <1>2, <1>7 DEF TypeOK, ClientTypes, OnceAt, Asking
  <2>2. ~Selecting(c) /\ \A i \in 1 .. Len(strand) : ~SelectAt(i, c)
    BY <2>1, SelectDue
  <2>3. /\ ~Selecting(c)'
        /\ \A i \in 1 .. Len(strand') : SelectAt(i, c)' => i = Len(strand) + 1
    BY <1>2, <1>4, <2>2 DEF SelectAt, Selecting
  <2> QED
    BY <1>1, <1>2, <1>7, <2>1, <2>2, <2>3 DEF OnceAt, Asking
<1> QED
  BY <1>6, <1>7

LEMMA TakeOnce ==
    ASSUME TypeOK, Once, Take
    PROVE  Once'
<1> SUFFICES ASSUME NEW d \in Patient PROVE OnceAt(d)'
  BY DEF Once
<1>1. d \in Clients /\ OnceAt(d)
  BY LoginAssumption DEF Once
<1>2. /\ running = None /\ strand # <<>>
      /\ running' = Head(strand) /\ strand' = Tail(strand)
      /\ UNCHANGED <<reader, awaiting, chosen, character>>
  BY DEF Take, clientVars, charVars
<1>3. strand \in Seq(Functions)
  BY DEF TypeOK, StrandTypes
<1>4. /\ Len(strand) \in Nat \ {0} /\ Len(strand') = Len(strand) - 1
      /\ \A i \in 1 .. Len(strand) - 1 : strand'[i] = strand[i + 1]
      /\ running' = strand[1]
  BY <1>2, <1>3, TailOfFunctions
<1>5. Due(d)' = Due(d)
  BY <1>1, <1>2, TakeDue DEF TypeOK
<1>6. \A i \in 1 .. Len(strand') :
         SelectAt(i, d)' => i + 1 \in 2 .. Len(strand) /\ SelectAt(i + 1, d)
  BY <1>4 DEF SelectAt
<1>7. Selecting(d)' => 1 \in 1 .. Len(strand) /\ SelectAt(1, d)
  BY <1>4 DEF Selecting, SelectAt
<1>8. ~Selecting(d)
  BY <1>2, NoneIsNobody DEF Selecting
<1>9. /\ \A i, j \in 1 .. Len(strand') : SelectAt(i, d)' /\ SelectAt(j, d)' => i = j
      /\ Selecting(d)' => \A i \in 1 .. Len(strand') : ~SelectAt(i, d)'
  <2>1. \A i, j \in 1 .. Len(strand) : SelectAt(i, d) /\ SelectAt(j, d) => i = j
    BY <1>1 DEF OnceAt
  <2>2. \A i \in 1 .. Len(strand') : i \in Int /\ i + 1 # 1
    BY <1>4
  <2>3. ASSUME NEW i \in 1 .. Len(strand'), SelectAt(i, d)',
               NEW j \in 1 .. Len(strand'), SelectAt(j, d)'
        PROVE  i = j
    <3>1. i + 1 = j + 1
      BY <1>6, <2>1, <2>3
    <3> QED
      BY <2>2, <3>1
  <2>4. ASSUME Selecting(d)', NEW i \in 1 .. Len(strand'), SelectAt(i, d)'
        PROVE  FALSE
    <3>1. i + 1 = 1
      BY <1>6, <1>7, <2>1, <2>4
    <3> QED
      BY <2>2, <3>1
  <2> QED
    BY <2>3, <2>4
<1> QED
  BY <1>1, <1>2, <1>5, <1>8, <1>9 DEF OnceAt, Asking

LEMMA DoneOnce ==
    ASSUME TypeOK, Control, Once, NEW c \in Clients,
           LoadCharacterInfo(c) \/ Answer(c) \/ EraseUser(c)
    PROVE  Once'
<1> SUFFICES ASSUME NEW d \in Patient PROVE OnceAt(d)'
  BY DEF Once
<1>1. d \in Clients /\ OnceAt(d)
  BY LoginAssumption DEF Once
<1>2. running \in Functions /\ None.fn = "none"
  BY DEF TypeOK, StrandTypes, None
<1>3. UNCHANGED <<reader, strand>>
  BY DEF LoadCharacterInfo, Answer, EraseUser
<1>4. CASE LoadCharacterInfo(c)
  <2>1. /\ UNCHANGED <<awaiting, chosen>>
        /\ Selecting(c) /\ running.at = 2
        /\ \/ /\ running' = [running EXCEPT !.at = 3]
              /\ \E ch : character' = [character EXCEPT ![c] = ch]
           \/ running' = running /\ character' = character
    BY <1>4 DEF LoadCharacterInfo, Runs, Selecting, clientVars, charVars
  <2>2. running'.fn = running.fn /\ running'.c = running.c
    BY <1>2, <2>1 DEF Functions
  <2>3. Due(d)' = Due(d)
    BY <1>3, <2>2, SameDue
  <2>4. Selecting(d)' <=> Selecting(d)
    BY <2>2 DEF Selecting
  <2>5. CASE d # c
    <3>1. character'[d] = character[d] /\ ~Selecting(d)
      BY <2>1, <2>5, <1>1 DEF TypeOK, CharacterTypes, Selecting
    <3> QED
      BY <1>1, <1>3, <2>1, <2>3, <2>4, <3>1 DEF OnceAt, Asking, SelectAt
  <2>6. CASE d = c
    <3>1. character'[d] # NoChar =>
             chosen'[d] \/ (Selecting(d)' /\ running'.at = 3)
      BY <1>1, <1>2, <2>1, <2>4, <2>6 DEF OnceAt, Functions
    <3> QED
      BY <1>1, <1>3, <2>1, <2>3, <2>4, <3>1 DEF OnceAt, Asking, SelectAt
  <2> QED
    BY <2>5, <2>6
<1>5. ASSUME running' = None PROVE Due(d)' \subseteq Due(d) /\ ~Selecting(d)'
  BY <1>2, <1>3, <1>5 DEF Due, Posting, Fns, Selecting
<1>6. CASE Answer(c)
  <2>1. /\ running' = None /\ Selecting(c) /\ character' = character
        /\ chosen' = [chosen EXCEPT ![c] = TRUE]
        /\ awaiting' = [awaiting EXCEPT ![c] = FALSE]
    BY <1>6 DEF Answer, Runs, Selecting, charVars
  <2>2. CASE d # c
    <3>1. /\ chosen'[d] = chosen[d] /\ awaiting'[d] = awaiting[d]
          /\ ~Selecting(d)
      BY <1>1, <2>1, <2>2 DEF TypeOK, ClientTypes, Selecting
    <3> QED
      BY <1>1, <1>3, <1>5, <2>1, <3>1 DEF OnceAt, Asking, SelectAt
  <2>3. CASE d = c
    <3>1. chosen'[d] /\ ~awaiting'[d]
      BY <1>1, <2>1, <2>3 DEF TypeOK, ClientTypes
    <3>2. "select" \in Due(d) /\ \A i \in 1 .. Len(strand) : ~SelectAt(i, d)
      BY <1>1, <2>1, <2>3, SelectDue DEF OnceAt
    <3>3. ~Asking(d)'
      BY <1>1, <1>3, <3>2 DEF OnceAt, Asking
    <3>4. ~("select" \in Due(d))'
      BY <1>2, <1>3, <2>1, <3>2 DEF Due, Posting, Fns, SelectAt
    <3> QED
      BY <1>1, <1>3, <1>5, <2>1, <3>1, <3>2, <3>3, <3>4 DEF OnceAt, SelectAt
  <2> QED
    BY <2>2, <2>3
<1>7. CASE EraseUser(c)
  <2>1. /\ running' = None /\ ~Selecting(d) /\ UNCHANGED <<awaiting, chosen>>
        /\ character' = [character EXCEPT ![c] = NoChar]
    BY <1>7 DEF EraseUser, Runs, Selecting, clientVars
  <2>2. character'[d] = character[d] \/ character'[d] = NoChar
    BY <2>1, <1>1 DEF TypeOK, CharacterTypes
  <2> QED
    BY <1>1, <1>3, <1>5, <2>1, <2>2 DEF OnceAt, Asking, SelectAt
<1> QED
  BY <1>4, <1>6, <1>7

LEMMA OnceStep == TypeOK /\ Control /\ Once /\ [Next]_vars => Once'
<1> SUFFICES ASSUME TypeOK, Control, Once, [Next]_vars PROVE Once'
  OBVIOUS
<1>1. ASSUME UNCHANGED vars \/ Drain \/ Crashed PROVE Once'
  <2>1. UNCHANGED <<reader, awaiting>>
    BY <1>1 DEF Drain, Crashed, vars, clientVars
  <2> QED
    BY <1>1, <2>1, CalmRest, CalmOnce DEF Asking
<1>2. ASSUME NEW c \in Clients, Client(c) PROVE Once'
  <2>1. CASE AskCharacter(c) /\ currentState[c] = "Login"
    BY <2>1, AskOnce
  <2>2. CASE ~(AskCharacter(c) /\ currentState[c] = "Login")
    <3>1. /\ UNCHANGED awaiting
          /\ reader' = reader \/ reader' = [reader EXCEPT ![c] = "enter"]
      BY <1>2, <2>2 DEF Client, Connect, AskCharacter, AskMap, Shut, clientVars
    <3>2. \A d \in Clients : reader'[d] = reader[d] \/ reader'[d] = "enter"
      BY <3>1 DEF TypeOK, ClientTypes
    <3> QED
      BY <1>2, <3>1, <3>2, CalmClient, CalmOnce DEF Asking
  <2> QED
    BY <2>1, <2>2
<1>3. ASSUME NEW c \in Clients, Handler(c), ~PostSelect(c) PROVE Once'
  <2>1. /\ UNCHANGED awaiting
        /\ \/ reader' = [reader EXCEPT ![c] = "stopped"]
           \/ reader' = [reader EXCEPT ![c] = "reading"]
           \/ Asking(c) /\ \E r : reader' = [reader EXCEPT ![c] = r]
    BY <1>3 DEF Handler, ReadNothing, LoadCode, StoreCode, CopyCode, Count,
                Create, QueryFails, Enter, clientVars, Asking
  <2>2. \A d \in Clients :
           reader'[d] = reader[d] \/ reader'[d] \in {"stopped", "reading"} \/ Asking(d)
    BY <2>1 DEF TypeOK, ClientTypes
  <2> QED
    BY <1>3, <2>1, <2>2, CalmHandler, CalmOnce DEF Asking
<1>4. ASSUME NEW c \in Clients, Posted(c), ~LoadCharacterInfo(c), ~Answer(c),
             ~EraseUser(c)
      PROVE Once'
  <2>1. /\ UNCHANGED awaiting
        /\ reader' = reader \/ reader' = [reader EXCEPT ![c] = "reading"]
    BY <1>4 DEF Posted, NewSession, EnterSession, NewUser, LockUser,
                RemoveSession, clientVars
  <2>2. \A d \in Clients : reader'[d] = reader[d] \/ reader'[d] = "reading"
    BY <2>1 DEF TypeOK, ClientTypes
  <2> QED
    BY <1>4, <2>1, <2>2, CalmPosted, CalmOnce DEF Asking
<1>5. ASSUME NEW c \in Clients, Handler(c) PROVE Once'
  BY <1>3, <1>5, PostSelectOnce
<1>6. ASSUME NEW c \in Clients, Posted(c) PROVE Once'
  BY <1>4, <1>6, DoneOnce
<1> QED
  BY <1>1, <1>2, <1>5, <1>6, TakeOnce DEF Next

\* A step that neither moves a character nor lets anyone in again.
LEMMA GuestsStill ==
    ASSUME Guests, NoGhosts, crash' = "no" => crash = "no",
           UNCHANGED <<character, inside, eraseQ, insertQ, members>>,
           \A c \in Clients :
              socket[c] # "none" /\ "new" \notin Due(c)
                 => /\ socket'[c] # "none"
                    /\ ~("new" \in Due(c))'
                    /\ GetUser(c)' => GetUser(c)
    PROVE  Guests' /\ NoGhosts'
<1>1. NoGhosts'
  BY DEF NoGhosts
<1>2. \A p \in insertQ' : Plays(p)' <=> Plays(p)
  BY DEF Plays
<1> QED
  BY <1>1, <1>2, LoginAssumption DEF Guests

LEMMA NobodyNew ==
    ASSUME TypeOK,
           \/ strand' = strand
           \/ \E f \in Functions : f.fn # "new" /\ strand' = Append(strand, f),
           \/ running'.fn = running.fn /\ running'.c = running.c
           \/ running' = None
    PROVE  \A c : ("new" \in Due(c))' => "new" \in Due(c)
<1>1. strand \in Seq(Functions) /\ None.fn = "none"
  BY DEF TypeOK, StrandTypes, None
<1>2. \A i \in 1 .. Len(strand') :
         strand'[i].fn = "new"
            => i \in 1 .. Len(strand) /\ strand'[i] = strand[i]
  <2>1. CASE strand' = strand
    BY <2>1
  <2>2. CASE \E f \in Functions : f.fn # "new" /\ strand' = Append(strand, f)
    <3>1. PICK f \in Functions : f.fn # "new" /\ strand' = Append(strand, f)
      BY <2>2
    <3> QED
      BY <1>1, <3>1, AppendedFunctions
  <2> QED
    BY <2>1, <2>2
<1>3. running'.fn = "new" => running'.fn = running.fn /\ running'.c = running.c
  BY <1>1
<1> QED
  BY <1>2, <1>3 DEF Due, Posting, Fns

LEMMA GuestsClient ==
    ASSUME TypeOK, Guests, NoGhosts, NEW c \in Clients, Client(c)
    PROVE  Guests' /\ NoGhosts'
<1>1. /\ crash' = "no" => crash = "no"
      /\ UNCHANGED <<character, inside, eraseQ, insertQ, members>>
      /\ \A d : GetUser(d)' => GetUser(d)
  BY DEF Client, Connect, AskCharacter, AskMap, Shut, charVars, chanVars,
         tableVars, GetUser
<1>2. CASE Connect(c)
  <2>1. /\ Function("new", c, 0) \in Functions
        /\ Function("new", c, 0).fn = "new" /\ Function("new", c, 0).c = c
    BY DEF Function, Functions, Ids
  <2>2. /\ socket[c] = "none" /\ socket' = [socket EXCEPT ![c] = "open"]
        /\ strand' = Append(strand, Function("new", c, 0)) /\ running' = running
    BY <1>2 DEF Connect, PostFuction
  <2>3. \A d : c # d => Due(d)' = Due(d)
    BY <2>1, <2>2, AppendDue DEF TypeOK, Fns
  <2>4. \A d \in Clients : d # c => socket'[d] = socket[d]
    BY <2>2 DEF TypeOK, ClientTypes
  <2> QED
    BY <1>1, <2>2, <2>3, <2>4, GuestsStill
<1>3. CASE AskCharacter(c) \/ AskMap(c) \/ Shut(c)
  <2>1. /\ strand' = strand /\ running' = running
        /\ socket' = socket \/ socket' = [socket EXCEPT ![c] = "shut"]
    BY <1>3 DEF AskCharacter, AskMap, Shut, Reads
  <2>2. \A d \in Clients : socket'[d] = socket[d] \/ socket'[d] = "shut"
    BY <2>1 DEF TypeOK, ClientTypes
  <2>3. \A d : ("new" \in Due(d))' => "new" \in Due(d)
    BY <2>1, NobodyNew
  <2> QED
    BY <1>1, <2>2, <2>3, GuestsStill
<1> QED
  BY <1>2, <1>3 DEF Client

LEMMA GuestsEnter ==
    ASSUME TypeOK, Control, Guests, NoGhosts, NEW c \in Clients, Enter(c)
    PROVE  Guests' /\ NoGhosts'
<1>1. UNCHANGED <<socket, strand, running, users, character, members>>
      /\ (crash' = "no" => crash = "no")
  BY DEF Enter, clientVars, tableVars
<1>2. /\ \A d : Due(d)' = Due(d)
      /\ \A d : GetUser(d)' <=> GetUser(d)
  BY <1>1, SameDue DEF GetUser
<1>3. CASE UNCHANGED <<eraseQ, insertQ, inside>>
  BY <1>1, <1>2, <1>3, GuestsStill
<1>4. CASE /\ GetUser(c) /\ character[c] # NoChar
           /\ LeaveChannel(c)
           /\ insertQ' = insertQ \cup {character[c]}
           /\ inside' = [inside EXCEPT ![c] = TRUE]
  <2>1. /\ inside'[c]
        /\ \A d \in Clients : inside[d] => inside'[d]
        /\ eraseQ \subseteq eraseQ'
    BY <1>4 DEF TypeOK, CharacterTypes, LeaveChannel
  <2>2. NoGhosts'
    BY <1>1, <2>1, LoginAssumption DEF NoGhosts
  <2>3. /\ character[c].user = c /\ socket[c] # "none" /\ "new" \notin Due(c)
    BY <1>4 DEF Guests, Control, Entered, EnteredAt
  <2>4. ASSUME NEW p \in insertQ', p.user \in Patient
        PROVE  /\ socket'[p.user] # "none" /\ ~("new" \in Due(p.user))'
               /\ Plays(p)' \/ ~GetUser(p.user)'
    <3>1. CASE p = character[c]
      BY <1>1, <1>2, <2>1, <2>3, <3>1 DEF Plays
    <3>2. CASE p \in insertQ
      <4>1. /\ socket[p.user] # "none" /\ "new" \notin Due(p.user)
            /\ Plays(p) \/ ~GetUser(p.user)
        BY <2>4, <3>2 DEF Guests
      <4>2. Plays(p) => Plays(p)'
        BY <1>1, <2>1, <2>4, LoginAssumption DEF Plays
      <4> QED
        BY <1>1, <1>2, <4>1, <4>2
    <3> QED
      BY <1>4, <2>4, <3>1, <3>2
  <2>5. \A d \in Clients : character'[d] # NoChar => character'[d].user = d
    BY <1>1 DEF Guests
  <2> QED
    BY <2>2, <2>4, <2>5 DEF Guests
<1> QED
  BY <1>3, <1>4 DEF Enter

LEMMA GuestsHandler ==
    ASSUME TypeOK, Control, Guests, NoGhosts, NEW c \in Clients, Handler(c)
    PROVE  Guests' /\ NoGhosts'
<1>1. CASE Enter(c)
  BY <1>1, GuestsEnter
<1>2. ASSUME \/ ReadNothing(c) \/ LoadCode(c) \/ StoreCode(c) \/ CopyCode(c)
             \/ Count(c) \/ Create(c) \/ QueryFails(c) \/ PostSelect(c)
      PROVE  Guests' /\ NoGhosts'
  <2>1. /\ crash' = "no" => crash = "no"
        /\ UNCHANGED <<character, inside, eraseQ, insertQ, members, socket,
                       running, users>>
    BY <1>2 DEF ReadNothing, LoadCode, StoreCode, CopyCode, Count, Create,
                QueryFails, PostSelect, clientVars, charVars, chanVars,
                tableVars
  <2>2. \/ strand' = strand
        \/ strand' = Append(strand, Function("remove", c, 0))
        \/ strand' = Append(strand, Function("select", c, code[c]))
    BY <1>2 DEF ReadNothing, LoadCode, StoreCode, CopyCode, Count, Create,
                QueryFails, PostSelect, PostFuction
  <2>3. /\ Function("remove", c, 0) \in Functions
        /\ Function("remove", c, 0).fn # "new"
        /\ Function("select", c, code[c]) \in Functions
        /\ Function("select", c, code[c]).fn # "new"
    BY DEF Function, Functions, Ids, TypeOK, CodeTypes
  <2>4. \A d : ("new" \in Due(d))' => "new" \in Due(d)
    BY <2>1, <2>2, <2>3, NobodyNew
  <2>5. \A d : GetUser(d)' => GetUser(d)
    BY <2>1 DEF GetUser
  <2> QED
    BY <2>1, <2>4, <2>5, GuestsStill
<1> QED
  BY <1>1, <1>2 DEF Handler

LEMMA GuestsLoad ==
    ASSUME TypeOK, Control, Once, Guests, NoGhosts, NEW c \in Clients,
           LoadCharacterInfo(c)
    PROVE  Guests' /\ NoGhosts'
<1>1. /\ Selecting(c) /\ running.at = 2 /\ c # 0
      /\ UNCHANGED <<socket, strand, users, eraseQ, insertQ, members>>
      /\ crash' = "no" => crash = "no"
  BY NoneIsNobody
     DEF LoadCharacterInfo, Runs, Selecting, clientVars, tableVars, chanVars
<1>2. running \in Functions
  BY DEF TypeOK, StrandTypes
<1>3. running'.fn = running.fn /\ running'.c = running.c
  BY <1>2 DEF LoadCharacterInfo, Functions
<1>4. /\ \A d : Due(d)' = Due(d)
      /\ \A d : GetUser(d)' <=> GetUser(d)
  BY <1>1, <1>3, SameDue DEF GetUser
<1>5. CASE UNCHANGED charVars
  BY <1>1, <1>4, <1>5, GuestsStill DEF charVars
<1>6. CASE /\ character' = [character EXCEPT ![c] =
                [user |-> c, code |-> LoadedCode, nth |-> serial[c] + 1]]
           /\ inside' = [inside EXCEPT ![c] = FALSE]
  <2>1. /\ character'[c].user = c
        /\ \A d \in Clients : d # c => /\ character'[d] = character[d]
                                       /\ inside'[d] = inside[d]
    BY <1>6 DEF TypeOK, CharacterTypes
  <2>2. ASSUME c \in Patient PROVE character[c] = NoChar
    <3>1. OnceAt(c) /\ "select" \in Due(c)
      BY <1>1, <2>2, SelectDue DEF Once
    <3> QED
      BY <1>1, <3>1 DEF OnceAt
  <2>3. ASSUME c \in Patient, NEW p, p.user = c PROVE p # character[c]
    BY <1>1, <2>2, <2>3 DEF NoChar
  <2>4. GetUser(c)
    BY <1>1, SelectHasUser DEF Selecting
  <2>5. NoGhosts'
    BY <1>1, <2>1, <2>3, LoginAssumption DEF NoGhosts
  <2>6. ASSUME NEW p \in insertQ', p.user \in Patient
        PROVE  /\ socket'[p.user] # "none" /\ ~("new" \in Due(p.user))'
               /\ Plays(p)' \/ ~GetUser(p.user)'
    <3>1. /\ socket[p.user] # "none" /\ "new" \notin Due(p.user)
          /\ Plays(p) \/ ~GetUser(p.user)
      BY <1>1, <2>6 DEF Guests
    <3>2. p.user # c
      BY <2>3, <2>4, <2>6, <3>1 DEF Plays
    <3>3. Plays(p) => Plays(p)'
      BY <2>1, <2>6, <3>2, LoginAssumption DEF Plays
    <3> QED
      BY <1>1, <1>4, <3>1, <3>3
  <2>7. \A d \in Clients : character'[d] # NoChar => character'[d].user = d
    BY <2>1 DEF Guests
  <2> QED
    BY <2>5, <2>6, <2>7 DEF Guests
<1> QED
  BY <1>5, <1>6 DEF LoadCharacterInfo

LEMMA GuestsErase ==
    ASSUME TypeOK, Control, Guests, NoGhosts, NEW c \in Clients, EraseUser(c)
    PROVE  Guests' /\ NoGhosts'
<1>1. /\ running.fn = "erase" /\ running.c = c /\ running' = None
      /\ users' = Without(users, running.code)
      /\ inside' = [inside EXCEPT ![c] = FALSE]
      /\ character' = [character EXCEPT ![c] = NoChar]
      /\ LeaveChannel(c)
      /\ UNCHANGED <<socket, strand, insertQ, members>>
      /\ crash' = "no" => crash = "no"
  BY DEF EraseUser, Runs, clientVars
<1>2. running.code = key[c]
  BY <1>1 DEF Control, Keys
<1>3. GetUser(c)
  <2>1. running # None
    BY <1>1, NoneIsNobody
  <2>2. "erase" \in Due(c) /\ \A g \in Due(c) : g = "erase" \/ Before("erase", g)
    BY <1>1, <2>1, RunningIsDue DEF Control, Queue
  <2>3. "new" \notin Due(c)
    BY <2>2 DEF Before
  <2> QED
    BY <2>2, <2>3 DEF Control, Entered, EnteredAt
<1>4. \A e \in users : e \in users' <=> e.c # c
  <2>1. /\ \A e \in users : e.key = key[e.c]
        /\ \E e \in users : e.c = c
        /\ \A d, e \in users : d.key = e.key => d.c = e.c
    BY <1>3 DEF Control, Keys, GetUser
  <2> QED
    BY <1>1, <1>2, <2>1, WithoutKey
<1>5. /\ ~GetUser(c)'
      /\ \A d : GetUser(d)' => GetUser(d)
  BY <1>1, <1>4 DEF GetUser, Without
<1>6. \A d : ("new" \in Due(d))' => "new" \in Due(d)
  BY <1>1, NobodyNew
<1>7. /\ character'[c] = NoChar
      /\ \A d \in Clients : d # c => /\ character'[d] = character[d]
                                     /\ inside'[d] = inside[d]
      /\ eraseQ \subseteq eraseQ'
      /\ inside[c] => character[c].code \in eraseQ'
  BY <1>1 DEF TypeOK, CharacterTypes, LeaveChannel
<1>8. NoGhosts'
  BY <1>1, <1>7, LoginAssumption DEF NoGhosts
<1>9. ASSUME NEW p \in insertQ', p.user \in Patient
      PROVE  /\ socket'[p.user] # "none" /\ ~("new" \in Due(p.user))'
             /\ Plays(p)' \/ ~GetUser(p.user)'
  <2>1. /\ socket[p.user] # "none" /\ "new" \notin Due(p.user)
        /\ Plays(p) \/ ~GetUser(p.user)
    BY <1>1, <1>9 DEF Guests
  <2>2. p.user # c /\ Plays(p) => Plays(p)'
    BY <1>7, <1>9, LoginAssumption DEF Plays
  <2> QED
    BY <1>1, <1>5, <1>6, <2>1, <2>2
<1>10. \A d \in Clients : character'[d] # NoChar => character'[d].user = d
  BY <1>7 DEF Guests
<1> QED
  BY <1>8, <1>9, <1>10 DEF Guests

LEMMA GuestsPosted ==
    ASSUME TypeOK, Control, Once, Guests, NoGhosts, NEW c \in Clients, Posted(c)
    PROVE  Guests' /\ NoGhosts'
<1> DEFINE f == Function("erase", c, key[c])
<1>1. CASE LoadCharacterInfo(c)
  BY <1>1, GuestsLoad
<1>2. CASE EraseUser(c)
  BY <1>2, GuestsErase
<1>3. ASSUME \/ NewSession(c) \/ EnterSession(c) \/ NewUser(c) \/ LockUser(c)
             \/ Answer(c) \/ RemoveSession(c)
      PROVE  Guests' /\ NoGhosts'
  <2>1. /\ crash' = "no" => crash = "no"
        /\ UNCHANGED <<character, inside, eraseQ, insertQ, members, socket>>
    BY <1>3 DEF NewSession, EnterSession, NewUser, LockUser, Answer,
                RemoveSession, clientVars, charVars, chanVars
  <2>2. /\ \/ running' = None
           \/ \E n : running' = [running EXCEPT !.at = n]
        /\ strand' = strand \/ strand' = Append(strand, f)
    BY <1>3 DEF NewSession, EnterSession, NewUser, LockUser, Answer,
                RemoveSession, PostFuction
  <2>3. f \in Functions /\ f.fn # "new"
    BY DEF Function, Functions, Ids, TypeOK, TableTypes
  <2>4. running \in Functions
    BY DEF TypeOK, StrandTypes
  <2>5. running' = None \/ (running'.fn = running.fn /\ running'.c = running.c)
    BY <2>2, <2>4 DEF Functions
  <2>6. \A d : ("new" \in Due(d))' => "new" \in Due(d)
    BY <2>2, <2>3, <2>5, NobodyNew
  <2>7. \A d : "new" \notin Due(d) /\ GetUser(d)' => GetUser(d)
    <3>1. CASE NewUser(c)
      <4>1. /\ users' = users \cup {[key |-> nextKey, c |-> c]}
            /\ "new" \in Due(c)
        BY <3>1 DEF NewUser, Runs, Due, Posting, Fns
      <4> QED
        BY <4>1 DEF GetUser
    <3>2. CASE ~NewUser(c)
      <4>1. users' = users
        BY <1>3, <3>2 DEF NewSession, EnterSession, LockUser, Answer,
                          RemoveSession, tableVars
      <4> QED
        BY <4>1 DEF GetUser
    <3> QED
      BY <3>1, <3>2
  <2> QED
    BY <2>1, <2>6, <2>7, GuestsStill
<1> QED
  BY <1>1, <1>2, <1>3 DEF Posted

LEMMA GuestsDrain ==
    ASSUME TypeOK, Guests, NoGhosts, Drain
    PROVE  Guests' /\ NoGhosts'
<1>1. UNCHANGED <<character, inside, users>> /\ crash = "no" /\ insertQ' = {}
  BY DEF Drain, charVars, tableVars
<1>2. PICK new \in SUBSET insertQ :
         /\ members' = {p \in members : p.code \notin eraseQ} \cup new
         /\ crash' = IF \E p \in new \ {q \in members : q.code \notin eraseQ} :
                           ~GetUser(p.user) \/ ~HasKey(sessions, key[p.user])
                     THEN "no_session" ELSE crash
  BY DEF Drain
<1>3. ASSUME crash' = "no", NEW p \in members', p.user \in Patient
      PROVE  Plays(p)
  <2>1. CASE p \in members /\ p.code \notin eraseQ
    BY <1>1, <1>3, <2>1 DEF NoGhosts, Plays
  <2>2. CASE p \in new /\ ~(p \in members /\ p.code \notin eraseQ)
    BY <1>2, <1>3, <2>2 DEF Guests
  <2> QED
    BY <1>2, <1>3, <2>1, <2>2
<1>4. NoGhosts'
  BY <1>1, <1>3 DEF NoGhosts, Plays
<1> QED
  BY <1>1, <1>4 DEF Guests

LEMMA GuestsStep ==
    TypeOK /\ Control /\ Once /\ Guests /\ NoGhosts /\ [Next]_vars
        => Guests' /\ NoGhosts'
<1> SUFFICES ASSUME TypeOK, Control, Once, Guests, NoGhosts, [Next]_vars
             PROVE  Guests' /\ NoGhosts'
  OBVIOUS
<1>1. ASSUME UNCHANGED vars \/ Crashed PROVE Guests' /\ NoGhosts'
  <2>1. /\ UNCHANGED <<character, inside, eraseQ, insertQ, members, socket,
                       strand, running, users, crash>>
    BY <1>1 DEF Crashed, vars, clientVars, charVars, chanVars, tableVars
  <2>2. /\ \A d : Due(d)' = Due(d)
        /\ \A d : GetUser(d)' <=> GetUser(d)
    BY <2>1, SameDue DEF GetUser
  <2> QED
    BY <2>1, <2>2, GuestsStill
<1>2. CASE Take
  <2>1. /\ UNCHANGED <<character, inside, eraseQ, insertQ, members, socket,
                       users, crash>>
        /\ running = None /\ strand # <<>>
        /\ running' = Head(strand) /\ strand' = Tail(strand)
    BY <1>2 DEF Take, clientVars, charVars, chanVars, tableVars
  <2>2. /\ \A d \in Clients : Due(d)' = Due(d)
        /\ \A d : GetUser(d)' <=> GetUser(d)
    BY <2>1, TakeDue DEF GetUser, TypeOK
  <2> QED
    BY <2>1, <2>2, GuestsStill
<1> QED
  BY <1>1, <1>2, GuestsClient, GuestsHandler, GuestsPosted, GuestsDrain DEF Next

LEMMA InitGInv == Init => GInv
<1> SUFFICES ASSUME Init PROVE GInv
  OBVIOUS
<1>1. /\ 1 .. Len(strand) = {} /\ \A c : ~Selecting(c)
      /\ \A c \in Clients : reader[c] = "none" /\ character[c] = NoChar
  BY NoneIsNobody DEF Init, Selecting
<1>2. \A c \in Clients, n \in Nat : ~Held(c, n)
  BY <1>1 DEF Held
<1>3. Codes
  BY <1>1, <1>2 DEF Codes
<1>4. \A c : "select" \notin Due(c)
  BY <1>1, SelectDue
<1>5. Once
  BY <1>1, <1>4, LoginAssumption DEF Init, Once, OnceAt, Asking
<1>6. Guests /\ NoGhosts
  BY <1>1 DEF Init, Guests, NoGhosts
<1> QED
  BY <1>3, <1>5, <1>6 DEF GInv

\* What codes are drawn, what a client that waits has under way, and who is
\* left in the channel.
THEOREM GuestInvariance == Spec => []GInv
<1>1. IInv /\ GInv /\ [Next]_vars => GInv'
  BY CodesStep, OnceStep, GuestsStep DEF IInv, GInv
<1> QED
  BY InitGInv, LoginInvariance, <1>1, PTL DEF Spec

\* The static charcode of LoginState::On_Read, decremented by any number of
\* read handlers at once, gives two characters one code only if two of the
\* decrements overlapped, however the rest of the requests interleave.
THEOREM CodesAreDistinct == Spec => []CodesDistinct
<1>1. ASSUME IInv, GInv PROVE CodesDistinct
  <2>1. SUFFICES ASSUME ~raced, NEW c \in Clients, NEW d \in Clients, c # d,
                        NoChar \notin {character[c], character[d]},
                        character[c].code = character[d].code
                 PROVE  FALSE
    BY DEF CodesDistinct
  <2>2. character[c].code \in Nat
    BY <1>1 DEF IInv, TypeOK, CharacterTypes, Characters
  <2>3. Held(c, character[c].code) /\ Held(d, character[c].code)
    BY <2>1 DEF Held
  <2> QED
    BY <1>1, <2>1, <2>2, <2>3 DEF GInv, Codes
<1> QED
  BY <1>1, LoginInvariance, GuestInvariance, PTL

\* A client that waits for its answers leaves no character in the channel when
\* it goes, as long as the process runs: of what Channel::Update has inserted,
\* ~User has posted the erase when the character is not played any more.
THEOREM NobodyHaunts == Spec => []NoGhosts
<1>1. GInv => NoGhosts
  BY DEF GInv
<1> QED
  BY <1>1, GuestInvariance, PTL

===============================================================================
