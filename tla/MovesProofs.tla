------------------------------ MODULE MovesProofs ------------------------------
(***************************************************************************)
(* Theorems about Moves, for any characters, monsters, channels, slices    *)
(* and times: no client is left with an old position for good, and a walk  *)
(* ends with the channel it was asked for in.                              *)
(***************************************************************************)
EXTENDS Moves, FiniteSetTheorems, SequenceTheorems, WellFoundedInduction,
        TLAPS

Messages == {m \in [about : SUBSET Things, now : SUBSET Things] :
                m.now \subseteq m.about}
Functions == [op : {"move", "list"}, c : Characters, walk : BOOLEAN]
Stages == {"channel", "manager", "tick", "monsters", "trees", "dead"}

TypeOK ==
    /\ game \in [at : Stages, turn : 1 .. Len(Order)]
    /\ at \in [Characters -> Managers]
    /\ entering \subseteq Characters
    /\ moves \in 0 .. MaxMoves
    /\ {erases, inserts, escapes, members}
          \subseteq [Managers -> SUBSET Characters]
    /\ sends \in [Managers -> Seq(Messages)]
    /\ funcs \in [Managers -> Seq(Functions)]
    /\ {cm, walks} \subseteq [Characters -> Managers \cup {None}]
    /\ changed \subseteq Things
    /\ since \in [chars : [Managers -> 0 .. FlushTime], mons : 0 .. FlushTime]
    /\ knows \in [Characters -> SUBSET Things]
    /\ game.at \in {"monsters", "trees"} => Here = Den

\* A member that stays is where its requests say, and has nothing to wait for.  What
\* is to be erased is a member, and comes back only with an admission behind the
\* erase.  Once a channel was drained its members are members of no other.
Places ==
    /\ \A g \in Managers : \A c \in Staying(g) : at[c] = g /\ c \notin entering
    /\ \A g \in Managers : \A c \in inserts[g] :
          /\ at[c] = g /\ c \notin entering
          /\ c \in members[g] => c \in erases[g]
    /\ \A g \in Managers : \A c \in erases[g] :
          /\ c \in members[g]
          /\ at[c] = g => c \in entering \/ c \in inserts[g]
    /\ game.at \notin {"channel", "dead"} =>
          \A c \in members[Here], g \in Managers : c \in Staying(g) => g = Here

\* The manager of a member that stays is that of its channel, if it has one; so
\* an escape is asked for where the character is.
Pointers ==
    /\ \A g \in Managers : \A c \in Staying(g) : cm[c] \in {None, g}
    /\ \A g \in Managers : \A c \in escapes[g] : c \in Staying(g)

\* A message about characters is delivered in the step behind the one that posts it.
Mail ==
    \A g \in Managers : \A i \in 1 .. Len(sends[g]) :
        \/ sends[g][i].about \subseteq Monsters
        \/ game.at \in {"manager", "dead"} /\ Here = g

\* A request to move that waits in a channel that its character has left is
\* worked through before the character forgets it was there: the erase waits, too,
\* or was run just now and took the pointer away.
Requests ==
    \A g \in Managers : \A i \in 1 .. Len(funcs[g]) :
        LET c == funcs[g][i].c
        IN  \/ funcs[g][i].op # "move"
            \/ at[c] = g
            \/ c \in erases[g]
            \/ /\ game.at \in {"manager", "dead"} /\ Here = g
               /\ c \in Staying(at[c]) => cm[c] = None

\* What the messages that wait have to say of a monster is true, or the monster is
\* marked.
MonstersSettle ==
    game.at # "dead" /\ Den \in Managers =>
        Monsters \subseteq Told(Monsters, sends[Den]) \cup changed

Control == Places /\ Pointers /\ Mail /\ Requests

IInv == TypeOK /\ Control /\ MonstersSettle /\ PositionsSettle /\ WalksAsAsked

-----------------------------------------------------------------------------
(* Numbers, packets and rosters. *)

LEMMA Constants ==
    /\ Slice \in Nat \ {0}
    /\ FlushTime \in Nat /\ MaxAsked \in Nat /\ MaxMoves \in Nat
    /\ None \notin Managers
    /\ Characters \cap Monsters = {}
    /\ IsFiniteSet(Characters) /\ IsFiniteSet(Monsters)
    /\ Order \in Seq(Managers) /\ Len(Order) \in Nat \ {0}
BY MovesAssumption

\* Multiplication by a positive number keeps the order.
LEMMA Times ==
    ASSUME NEW a \in Nat, NEW b \in Nat, NEW n \in Nat \ {0}
    PROVE  /\ a * n \in Nat
           /\ a * n < b * n => a < b
           /\ (a + 1) * n = a * n + n
<1>1. a * n \in Nat /\ b * n \in Nat
    BY SMT
<1>2. a >= b => a * n >= b * n
    BY SMT
<1>3. (a + 1) * n = a * n + n
    BY SMT
<1> QED BY <1>1, <1>2, <1>3

\* The number of full slices below i.
LEMMA Quotient ==
    ASSUME NEW i \in Nat, NEW n \in Nat \ {0}
    PROVE  /\ i \div n \in Nat
           /\ (i \div n) * n <= i /\ i < (i \div n) * n + n
BY SMT

LEMMA Smaller ==
    ASSUME NEW a \in Int, NEW b \in Int
    PROVE  Min({a, b}) = IF a <= b THEN a ELSE b
<1> DEFINE m == IF a <= b THEN a ELSE b
<1>1. m \in {a, b} /\ \A y \in {a, b} : m <= y
    OBVIOUS
<1>2. ASSUME NEW x \in {a, b}, \A y \in {a, b} : x <= y PROVE x = m
    BY <1>2
<1> HIDE DEF m
<1>3. Min({a, b}) \in {a, b} /\ \A y \in {a, b} : Min({a, b}) <= y
    BY <1>1 DEF Min
<1>4. Min({a, b}) = m
    BY <1>2, <1>3
<1> QED BY <1>4 DEF m

\* A builder takes the k-th slice of the sequence.
LEMMA Slices ==
    ASSUME NEW X, NEW s \in Seq(X), NEW k \in Nat
    PROVE  \A x : x \in Builder(s, k + 1) <=>
               \E i \in 1 .. Len(s) :
                   k * Slice < i /\ i <= k * Slice + Slice /\ s[i] = x
<1> USE Constants
<1> DEFINE a == k * Slice
           L == Len(s)
<1>1. a \in Nat /\ (k + 1) * Slice = a + Slice /\ L \in Nat
    BY Times
<1>2. (k + 1) - 1 = k
    OBVIOUS
<1>3. PICK b : b = Min({a + Slice, L})
    OBVIOUS
<1>4. b = IF a + Slice <= L THEN a + Slice ELSE L
    BY <1>1, <1>3, Smaller
<1>5. Builder(s, k + 1) = Range(SubSeq(s, a + 1, b))
    BY <1>1, <1>2, <1>3 DEF Builder
<1> HIDE DEF a, L
<1>6. /\ b \in Int /\ a + 1 \in Int
      /\ \A i \in a + 1 .. b : i \in 1 .. L
    BY <1>1, <1>4
<1>7. \A i \in a + 1 .. b : s[i] \in X
    BY <1>6 DEF L
<1>8. /\ SubSeq(s, a + 1, b) \in Seq(X)
      /\ Len(SubSeq(s, a + 1, b)) = IF a + 1 <= b THEN b - (a + 1) + 1 ELSE 0
      /\ \A i \in 1 .. b - (a + 1) + 1 : SubSeq(s, a + 1, b)[i] = s[(a + 1) + i - 1]
    BY <1>6, <1>7, SubSeqProperties
<1>9. DOMAIN SubSeq(s, a + 1, b) = 1 .. b - a
    BY <1>1, <1>6, <1>8
<1>10. \A i \in 1 .. b - a : SubSeq(s, a + 1, b)[i] = s[a + i]
    BY <1>1, <1>6, <1>8
<1>11. \A y : y \in Range(SubSeq(s, a + 1, b)) <=> \E i \in 1 .. b - a : s[a + i] = y
    BY <1>9, <1>10 DEF Range
<1>12. ASSUME NEW y
       PROVE  (\E i \in 1 .. b - a : s[a + i] = y)
                 <=> \E j \in 1 .. L : a < j /\ j <= a + Slice /\ s[j] = y
    <2>1. ASSUME NEW i \in 1 .. b - a
          PROVE  a + i \in 1 .. L /\ a < a + i /\ a + i <= a + Slice
        BY <1>1, <1>4, <1>6
    <2>2. ASSUME NEW j \in 1 .. L, a < j, j <= a + Slice
          PROVE  j - a \in 1 .. b - a /\ a + (j - a) = j
        BY <1>1, <1>4, <1>6, <2>2
    <2> QED BY <2>1, <2>2
<1>13. \A y : y \in Builder(s, k + 1)
                 <=> \E j \in 1 .. L : a < j /\ j <= a + Slice /\ s[j] = y
    BY <1>5, <1>11, <1>12
<1> QED BY <1>13 DEF L, a

\* A set as a sequence has every element.
LEMMA SetAsSequence ==
    ASSUME NEW X, IsFiniteSet(X)
    PROVE  /\ SetToSeq(X) \in Seq(X)
           /\ \A x \in X : \E i \in 1 .. Len(SetToSeq(X)) : SetToSeq(X)[i] = x
<1> DEFINE n == Cardinality(X)
           f == SetToSeq(X)
<1>1. n \in Nat /\ ExistsBijection(1 .. n, X)
    BY FS_CardinalityType
<1>2. PICK g \in Bijection(1 .. n, X) : TRUE
    BY <1>1 DEF ExistsBijection
<1>3. g \in [1 .. n -> X] /\ IsInjective(g)
    BY <1>2 DEF Bijection, Injection, IsInjective
<1>4. f \in [1 .. n -> X] /\ IsInjective(f)
    BY <1>3 DEF SetToSeq
<1> HIDE DEF f
<1>5. f \in Injection(1 .. n, X)
    BY <1>4 DEF Injection, IsInjective
<1>6. IsFiniteSet(1 .. n) /\ Cardinality(1 .. n) = n
    BY <1>1, FS_Interval
<1>7. f \in Surjection(1 .. n, X)
    BY <1>5, <1>6, FS_Injection
<1>8. \A x \in X : \E i \in 1 .. n : f[i] = x
    BY <1>7 DEF Surjection
<1>9. f \in Seq(X) /\ Len(f) = n
    BY <1>1, <1>4
<1> QED BY <1>8, <1>9 DEF f

\* Every place of a sequence is in the slice that its quotient says.
LEMMA SliceOf ==
    ASSUME NEW i \in Nat \ {0}
    PROVE  LET q == (i - 1) \div Slice
           IN  q \in Nat /\ q * Slice < i /\ i <= q * Slice + Slice
<1> USE Constants
<1>1. i - 1 \in Nat
    OBVIOUS
<1>2. PICK q : q = (i - 1) \div Slice
    OBVIOUS
<1>3. q \in Nat /\ q * Slice <= i - 1 /\ i - 1 < q * Slice + Slice
    BY <1>1, <1>2, Quotient
<1>4. q * Slice \in Nat
    BY <1>3, Times
<1>5. q * Slice < i /\ i <= q * Slice + Slice
    BY <1>3, <1>4
<1> QED BY <1>2, <1>3, <1>5

\* However a set is split into packets, all of it is sent: what is left over by the
\* loop is flushed behind it.
LEMMA PacketsOfAll ==
    ASSUME NEW X, IsFiniteSet(X)
    PROVE  /\ \E n \in Nat : DOMAIN Packets(SetToSeq(X)) = 1 .. n
           /\ \A k \in DOMAIN Packets(SetToSeq(X)) :
                 Packets(SetToSeq(X))[k] \subseteq X
           /\ \A x \in X : \E k \in DOMAIN Packets(SetToSeq(X)) :
                 x \in Packets(SetToSeq(X))[k]
<1> USE Constants
<1>1. PICK s : s = SetToSeq(X)
    OBVIOUS
<1>2. s \in Seq(X) /\ \A x \in X : \E i \in 1 .. Len(s) : s[i] = x
    BY <1>1, SetAsSequence
<1>3. PICK L \in Nat : L = Len(s)
    BY <1>2
<1>4. PICK r : r = (L + Slice - 1) \div Slice
    OBVIOUS
<1>5. L + Slice - 1 \in Nat
    BY <1>3
<1>6. r \in Nat /\ L + Slice - 1 < r * Slice + Slice /\ r * Slice \in Nat
    BY <1>4, <1>5, Quotient, Times
<1>7. Packets(s) = [k \in 1 .. r |-> Builder(s, k)]
    BY <1>3, <1>4 DEF Packets
<1>8. ASSUME NEW k \in 1 .. r
      PROVE  Packets(s)[k] \subseteq X
    <2>1. PICK p \in Nat : p + 1 = k
        <3>1. k - 1 \in Nat /\ (k - 1) + 1 = k
            BY <1>6
        <3> QED BY <3>1
    <2>2. \A x \in Builder(s, p + 1) : \E i \in 1 .. Len(s) : s[i] = x
        BY <1>2, Slices
    <2>3. \A i \in 1 .. Len(s) : s[i] \in X
        BY <1>2
    <2> QED BY <1>7, <2>1, <2>2, <2>3
<1>9. ASSUME NEW x \in X
      PROVE  \E k \in 1 .. r : x \in Packets(s)[k]
    <2>1. PICK i \in 1 .. L : s[i] = x
        BY <1>2, <1>3
    <2>2. PICK q : q = (i - 1) \div Slice
        OBVIOUS
    <2>3. q \in Nat /\ q * Slice < i /\ i <= q * Slice + Slice
        BY <1>3, <2>1, <2>2, SliceOf
    <2>4. q * Slice \in Nat
        BY <2>3, Times
    <2>5. q < r
        <3>1. q + 1 \in Nat /\ r + 1 \in Nat
            BY <1>6, <2>3
        <3>2. (q + 1) * Slice = q * Slice + Slice /\ (r + 1) * Slice = r * Slice + Slice
            BY <1>6, <2>3, Times
        <3>3. q * Slice + Slice < r * Slice + Slice
            BY <1>3, <1>6, <2>1, <2>3, <2>4
        <3>4. q + 1 < r + 1
            BY <3>1, <3>2, <3>3, Times
        <3> QED BY <1>6, <2>3, <3>4
    <2>6. q + 1 \in 1 .. r
        BY <1>6, <2>3, <2>5
    <2>7. x \in Builder(s, q + 1)
        BY <1>2, <1>3, <2>1, <2>3, Slices
    <2> QED BY <1>7, <2>6, <2>7
<1>10. DOMAIN Packets(s) = 1 .. r
    BY <1>7
<1> QED BY <1>1, <1>6, <1>8, <1>9, <1>10

\* A newcomer is sent every member, however often a packet is pushed.
LEMMA RosterIsAll ==
    ASSUME NEW X, IsFiniteSet(X)
    PROVE  Roster(X) = X
<1> USE Constants
<1>1. PICK s : s = SetToSeq(X)
    OBVIOUS
<1>2. s \in Seq(X) /\ \A x \in X : \E i \in 1 .. Len(s) : s[i] = x
    BY <1>1, SetAsSequence
<1>3. DOMAIN s = 1 .. Len(s) /\ Len(s) \in Nat
    BY <1>2
<1>4. ASSUME NEW i \in 1 .. Len(s)
      PROVE  /\ s[i] \in Builder(s, (i - 1) \div Slice + 1)
             /\ Builder(s, (i - 1) \div Slice + 1) \subseteq X
    <2>1. PICK q : q = (i - 1) \div Slice
        OBVIOUS
    <2>2. q \in Nat /\ q * Slice < i /\ i <= q * Slice + Slice
        BY <1>3, <2>1, SliceOf
    <2>3. \A x : x \in Builder(s, q + 1) <=>
              \E j \in 1 .. Len(s) :
                  q * Slice < j /\ j <= q * Slice + Slice /\ s[j] = x
        BY <1>2, <2>2, Slices
    <2>4. \A j \in 1 .. Len(s) : s[j] \in X
        BY <1>2
    <2>5. Builder(s, q + 1) \subseteq X
        BY <2>3, <2>4
    <2>6. s[i] \in Builder(s, q + 1)
        BY <2>2, <2>3
    <2> QED BY <2>1, <2>5, <2>6
<1>5. Roster(X) = UNION Range([i \in 1 .. Len(s) |-> Builder(s, (i - 1) \div Slice + 1)])
    BY <1>1, <1>3 DEF Roster
<1>6. \A x : x \in Roster(X)
                <=> \E i \in 1 .. Len(s) : x \in Builder(s, (i - 1) \div Slice + 1)
    <2> DEFINE p == [i \in 1 .. Len(s) |-> Builder(s, (i - 1) \div Slice + 1)]
    <2>1. \A y : y \in Range(p) <=> \E i \in 1 .. Len(s) : p[i] = y
        BY DEF Range
    <2>2. \A i \in 1 .. Len(s) : p[i] = Builder(s, (i - 1) \div Slice + 1)
        OBVIOUS
    <2>3. Roster(X) = UNION Range(p)
        BY <1>5
    <2> HIDE DEF p
    <2> QED BY <2>1, <2>2, <2>3
<1>7. Roster(X) \subseteq X
    BY <1>4, <1>6
<1>8. ASSUME NEW x \in X PROVE x \in Roster(X)
    <2>1. PICK i \in 1 .. Len(s) : s[i] = x
        BY <1>2
    <2> QED BY <1>4, <1>6, <2>1
<1> QED BY <1>7, <1>8

-----------------------------------------------------------------------------
(* What clients are told. *)

LEMMA ToldIs ==
    ASSUME NEW k, NEW s, NEW x
    PROVE  x \in Told(k, s) <=>
               \/ x \in k /\ \A i \in 1 .. Len(s) : x \notin s[i].about
               \/ \E i \in 1 .. Len(s) :
                     /\ x \in s[i].now
                     /\ \A j \in i + 1 .. Len(s) : x \notin s[j].about
BY DEF Told, About

LEMMA ToldNothing ==
    ASSUME NEW k
    PROVE  Told(k, <<>>) = k
<1>1. Len(<<>>) = 0
    OBVIOUS
<1>2. \A x : x \in Told(k, <<>>) <=> x \in k
    BY <1>1, ToldIs
<1> QED BY <1>2

\* Who knows more before knows more afterwards.
LEMMA ToldMore ==
    ASSUME NEW k, NEW l, NEW s, NEW x, x \in k => x \in l, x \in Told(k, s)
    PROVE  x \in Told(l, s)
BY ToldIs

\* A thing that no message is about.
LEMMA NotTold ==
    ASSUME NEW k, NEW s \in Seq(Messages), NEW x,
           \A i \in 1 .. Len(s) : x \notin s[i].about
    PROVE  x \in Told(k, s) <=> x \in k
<1>1. \A i \in 1 .. Len(s) : s[i].now \subseteq s[i].about
    <2>1. \A i \in 1 .. Len(s) : s[i] \in Messages
        OBVIOUS
    <2> QED BY <2>1 DEF Messages
<1> QED BY <1>1, ToldIs

\* Messages one behind the other.
LEMMA ToldInTurn ==
    ASSUME NEW k, NEW s \in Seq(Messages), NEW t \in Seq(Messages)
    PROVE  Told(k, s \o t) = Told(Told(k, s), t)
<1>1. PICK m \in Nat : m = Len(s)
    OBVIOUS
<1>2. PICK n \in Nat : n = Len(t)
    OBVIOUS
<1>3. /\ Len(s \o t) = m + n
      /\ \A i \in 1 .. m : (s \o t)[i] = s[i]
      /\ \A i \in 1 .. n : (s \o t)[m + i] = t[i]
    BY <1>1, <1>2
<1>4. PICK u : u = s \o t
    OBVIOUS
<1>5. /\ \A i \in 1 .. m : i \in 1 .. m + n
      /\ \A i \in 1 .. n : m + i \in 1 .. m + n /\ m < m + i
      /\ \A i \in 1 .. m + n : i \in 1 .. m \/ \E j \in 1 .. n : i = m + j
    <2>1. ASSUME NEW i \in 1 .. m + n, i > m
          PROVE  \E j \in 1 .. n : i = m + j
        <3>1. i - m \in 1 .. n /\ i = m + (i - m)
            BY <2>1
        <3> QED BY <3>1
    <2> QED BY <2>1
<1> DEFINE Quiet(x) == \A i \in 1 .. n : x \notin t[i].about
           Late(x) == \E i \in 1 .. n : /\ x \in t[i].now
                                       /\ \A j \in i + 1 .. n : x \notin t[j].about
           Early(x) == \E i \in 1 .. m : /\ x \in s[i].now
                                        /\ \A j \in i + 1 .. m : x \notin s[j].about
           Never(x) == \A i \in 1 .. m : x \notin s[i].about
<1>6. ASSUME NEW x
      PROVE  x \in Told(Told(k, s), t)
                 <=> Late(x) \/ (Quiet(x) /\ (Early(x) \/ (x \in k /\ Never(x))))
    <2>1. x \in Told(k, s) <=> Early(x) \/ (x \in k /\ Never(x))
        BY <1>1, ToldIs
    <2> HIDE DEF Early, Never
    <2>2. x \in Told(Told(k, s), t) <=> (x \in Told(k, s) /\ Quiet(x)) \/ Late(x)
        BY <1>2, ToldIs
    <2> QED BY <2>1, <2>2
<1>7. ASSUME NEW x
      PROVE  x \in Told(k, u)
                 <=> Late(x) \/ (Quiet(x) /\ (Early(x) \/ (x \in k /\ Never(x))))
    <2>1. x \in Told(k, u) <=>
              \/ x \in k /\ \A i \in 1 .. m + n : x \notin u[i].about
              \/ \E i \in 1 .. m + n :
                    /\ x \in u[i].now
                    /\ \A j \in i + 1 .. m + n : x \notin u[j].about
        BY <1>3, <1>4, ToldIs
    <2>2. (\A i \in 1 .. m + n : x \notin u[i].about) <=> Never(x) /\ Quiet(x)
        BY <1>3, <1>4, <1>5
    <2>3. ASSUME NEW i \in 1 .. m
          PROVE  (\A j \in i + 1 .. m + n : x \notin u[j].about)
                    <=> Quiet(x) /\ \A j \in i + 1 .. m : x \notin s[j].about
        <3>1. \A j \in i + 1 .. m : j \in i + 1 .. m + n /\ j \in 1 .. m
            OBVIOUS
        <3>2. \A j \in 1 .. n : m + j \in i + 1 .. m + n
            OBVIOUS
        <3>3. \A j \in i + 1 .. m + n : \/ j \in i + 1 .. m
                                        \/ \E l \in 1 .. n : j = m + l
            BY <1>5
        <3> QED BY <1>3, <1>4, <3>1, <3>2, <3>3
    <2>4. ASSUME NEW i \in 1 .. n
          PROVE  (\A j \in (m + i) + 1 .. m + n : x \notin u[j].about)
                    <=> \A j \in i + 1 .. n : x \notin t[j].about
        <3>1. \A j \in i + 1 .. n : m + j \in (m + i) + 1 .. m + n /\ j \in 1 .. n
            OBVIOUS
        <3>2. \A j \in (m + i) + 1 .. m + n : \E l \in i + 1 .. n : j = m + l
            <4> TAKE j \in (m + i) + 1 .. m + n
            <4>1. j - m \in i + 1 .. n /\ j = m + (j - m)
                OBVIOUS
            <4> QED BY <4>1
        <3> QED BY <1>3, <1>4, <3>1, <3>2
    <2>5. (\E i \in 1 .. m + n : /\ x \in u[i].now
                                 /\ \A j \in i + 1 .. m + n : x \notin u[j].about)
              <=> Late(x) \/ (Quiet(x) /\ Early(x))
        <3>1. ASSUME NEW i \in 1 .. m + n, x \in u[i].now,
                     \A j \in i + 1 .. m + n : x \notin u[j].about
              PROVE  Late(x) \/ (Quiet(x) /\ Early(x))
            <4>1. CASE i \in 1 .. m
                BY <1>3, <1>4, <2>3, <3>1, <4>1
            <4>2. ASSUME NEW j \in 1 .. n, i = m + j PROVE Late(x)
                BY <1>3, <1>4, <2>4, <3>1, <4>2
            <4> QED BY <1>5, <4>1, <4>2
        <3>2. ASSUME Late(x)
              PROVE  \E i \in 1 .. m + n : /\ x \in u[i].now
                         /\ \A j \in i + 1 .. m + n : x \notin u[j].about
            <4>1. PICK i \in 1 .. n : /\ x \in t[i].now
                                      /\ \A j \in i + 1 .. n : x \notin t[j].about
                BY <3>2
            <4> QED BY <1>3, <1>4, <1>5, <2>4, <4>1
        <3>3. ASSUME Quiet(x), Early(x)
              PROVE  \E i \in 1 .. m + n : /\ x \in u[i].now
                         /\ \A j \in i + 1 .. m + n : x \notin u[j].about
            <4>1. PICK i \in 1 .. m : /\ x \in s[i].now
                                      /\ \A j \in i + 1 .. m : x \notin s[j].about
                BY <3>3
            <4> HIDE DEF Quiet
            <4> QED BY <1>3, <1>4, <1>5, <2>3, <3>3, <4>1
        <3> HIDE DEF Quiet, Late, Early
        <3> QED BY <3>1, <3>2, <3>3
    <2> HIDE DEF Quiet, Late, Early, Never
    <2> QED BY <2>1, <2>2, <2>5
<1>8. \A x : x \in Told(k, u) <=> x \in Told(Told(k, s), t)
    <2> HIDE DEF Quiet, Late, Early, Never
    <2> QED BY <1>6, <1>7
<1> QED BY <1>4, <1>8

\* Messages that have the position of all they are about: everything they are
\* about is known, and nothing else is forgotten.  Each is about other things.
LEMMA ToldAll ==
    ASSUME NEW k, NEW t \in Seq(Messages), NEW x,
           \A i \in 1 .. Len(t) : t[i].now = t[i].about,
           x \in k \/ \E i \in 1 .. Len(t) : x \in t[i].about
    PROVE  x \in Told(k, t)
<1>1. CASE \A i \in 1 .. Len(t) : x \notin t[i].about
    BY <1>1, ToldIs
<1>2. CASE \E i \in 1 .. Len(t) : x \in t[i].about
    <2>1. PICK L \in Nat : L = Len(t)
        OBVIOUS
    <2> DEFINE T == {j \in Nat : \E i \in 1 .. L : i + j = L /\ x \in t[i].about}
    <2>2. T \subseteq Nat /\ T # {}
        <3>1. PICK i \in 1 .. L : x \in t[i].about
            BY <1>2, <2>1
        <3>2. L - i \in Nat /\ i + (L - i) = L
            OBVIOUS
        <3>3. L - i \in T
            BY <3>1, <3>2
        <3> QED BY <3>3
    <2>3. PICK j \in T : \A l \in T : ~ (<<l, j>> \in OpToRel(<, Nat))
        <3> HIDE DEF T
        <3> QED BY <2>2, NatLessThanWellFounded, WFMin
    <2>4. \A l \in T : ~ (l < j)
        BY <2>3 DEF OpToRel
    <2>5. PICK i \in 1 .. L : i + j = L /\ x \in t[i].about
        OBVIOUS
    <2>6. \A l \in i + 1 .. L : x \notin t[l].about
        <3> SUFFICES ASSUME NEW l \in i + 1 .. L, x \in t[l].about PROVE FALSE
            OBVIOUS
        <3>1. L - l \in Nat /\ L - l < j /\ l + (L - l) = L /\ l \in 1 .. L
            BY <2>5
        <3>2. L - l \in T
            BY <3>1
        <3> QED BY <2>4, <3>1, <3>2
    <2>7. x \in t[i].now
        BY <2>1, <2>5
    <2> HIDE DEF T
    <2> QED BY <2>1, <2>6, <2>7, ToldIs
<1> QED BY <1>1, <1>2

\* Things X go elsewhere: messages are about the same things and lose X.
LEMMA AwayMessages ==
    ASSUME NEW s \in [Managers -> Seq(Messages)], NEW X, NEW g \in Managers
    PROVE  /\ AwayIn(s, X)[g] \in Seq(Messages)
           /\ Len(AwayIn(s, X)[g]) = Len(s[g])
           /\ \A i \in 1 .. Len(s[g]) :
                 /\ AwayIn(s, X)[g][i].about = s[g][i].about
                 /\ AwayIn(s, X)[g][i].now = s[g][i].now \ X
<1> DEFINE t == AwayIn(s, X)[g]
<1>1. PICK q \in Seq(Messages) : q = s[g]
    OBVIOUS
<1>2. PICK n \in Nat : n = Len(q)
    OBVIOUS
<1>3. t = [i \in 1 .. n |-> [q[i] EXCEPT !.now = @ \ X]]
    BY <1>1, <1>2 DEF AwayIn
<1>4. \A i \in 1 .. n : q[i] \in Messages
    BY <1>2
<1>5. \A i \in 1 .. n : t[i] = [q[i] EXCEPT !.now = @ \ X]
    BY <1>3
<1>6. ASSUME NEW m \in Messages
      PROVE  /\ [m EXCEPT !.now = @ \ X] \in Messages
             /\ [m EXCEPT !.now = @ \ X].about = m.about
             /\ [m EXCEPT !.now = @ \ X].now = m.now \ X
    BY DEF Messages
<1> HIDE DEF t
<1>7. \A i \in 1 .. n : /\ t[i] \in Messages
                        /\ t[i].about = q[i].about /\ t[i].now = q[i].now \ X
    BY <1>4, <1>5, <1>6
<1>8. t \in Seq(Messages) /\ Len(t) = n
    <2>1. t \in [1 .. n -> Messages]
        BY <1>3, <1>7
    <2> QED BY <2>1
<1> QED BY <1>1, <1>2, <1>7, <1>8 DEF t

LEMMA ToldAway ==
    ASSUME NEW s \in [Managers -> Seq(Messages)], NEW X, NEW g \in Managers,
           NEW k, NEW x, x \notin X
    PROVE  x \in Told(k, AwayIn(s, X)[g]) <=> x \in Told(k, s[g])
<1>1. PICK t : t = AwayIn(s, X)[g]
    OBVIOUS
<1>2. PICK n \in Nat : n = Len(s[g])
    OBVIOUS
<1>3. /\ Len(t) = n
      /\ \A i \in 1 .. n : t[i].about = s[g][i].about
                           /\ (x \in t[i].now <=> x \in s[g][i].now)
    BY <1>1, <1>2, AwayMessages
<1>4. \A i \in 1 .. n : \A j \in i + 1 .. n : j \in 1 .. n
    OBVIOUS
<1>5. x \in Told(k, t) <=>
          \/ x \in k /\ \A i \in 1 .. n : x \notin t[i].about
          \/ \E i \in 1 .. n : /\ x \in t[i].now
                               /\ \A j \in i + 1 .. n : x \notin t[j].about
    BY <1>3, ToldIs
<1>6. x \in Told(k, s[g]) <=>
          \/ x \in k /\ \A i \in 1 .. n : x \notin s[g][i].about
          \/ \E i \in 1 .. n : /\ x \in s[g][i].now
                               /\ \A j \in i + 1 .. n : x \notin s[g][j].about
    BY <1>2, ToldIs
<1>7. (\A i \in 1 .. n : x \notin t[i].about)
          <=> \A i \in 1 .. n : x \notin s[g][i].about
    BY <1>3
<1>8. ASSUME NEW i \in 1 .. n
      PROVE  (\A j \in i + 1 .. n : x \notin t[j].about)
                <=> \A j \in i + 1 .. n : x \notin s[g][j].about
    BY <1>3, <1>4
<1>9. (\E i \in 1 .. n : /\ x \in t[i].now
                          /\ \A j \in i + 1 .. n : x \notin t[j].about)
          <=> \E i \in 1 .. n : /\ x \in s[g][i].now
                                 /\ \A j \in i + 1 .. n : x \notin s[g][j].about
    BY <1>3, <1>8
<1> QED BY <1>1, <1>5, <1>6, <1>7, <1>9

-----------------------------------------------------------------------------
(* Types. *)

LEMMA Facts ==
    ASSUME TypeOK
    PROVE  /\ Here \in Managers /\ game.turn \in 1 .. Len(Order)
           /\ erases \in [Managers -> SUBSET Characters]
           /\ inserts \in [Managers -> SUBSET Characters]
           /\ escapes \in [Managers -> SUBSET Characters]
           /\ members \in [Managers -> SUBSET Characters]
           /\ cm \in [Characters -> Managers \cup {None}]
           /\ walks \in [Characters -> Managers \cup {None}]
           /\ \A g \in Managers : IsFiniteSet(members[g])
<1>1. /\ Here \in Managers /\ game.turn \in 1 .. Len(Order)
    BY Constants DEF TypeOK, Here
<1>2. members \in [Managers -> SUBSET Characters]
    BY DEF TypeOK
<1>3. \A g \in Managers : IsFiniteSet(members[g])
    BY <1>2, Constants, FS_Subset
<1> QED BY <1>1, <1>2, <1>3 DEF TypeOK

\* The members of a channel of which erases have not run, as the steps leave them.
LEMMA StaysAway ==
    ASSUME TypeOK, NEW X
    PROVE  \A d \in Characters : Away(knows, X)[d] = knows[d] \ X
BY DEF Away

LEMMA StayingKept ==
    ASSUME NEW g, members'[g] = members[g], erases'[g] = erases[g]
    PROVE  Staying(g)' = Staying(g)
BY DEF Staying

\* What DrainChannel does, with the admissions and the escapes of the channel.
LEMMA Drained ==
    ASSUME TypeOK, Places, Pointers, DrainChannel
    PROVE  LET g == Here
               m == [about |-> escapes[g], now |-> escapes[g]]
           IN  /\ game.at = "channel" /\ game' \in {[game EXCEPT !.at = "manager"],
                                                    [game EXCEPT !.at = "dead"]}
               /\ game'.at # "dead" => \A c \in escapes[g] : cm'[c] = g
               /\ members' = [members EXCEPT ![g] = Staying(g) \cup inserts[g]]
               /\ erases' = [erases EXCEPT ![g] = {}]
               /\ inserts' = [inserts EXCEPT ![g] = {}]
               /\ escapes' = [escapes EXCEPT ![g] = {}]
               /\ cm' = [c \in Characters |-> IF c \in inserts[g] THEN g
                                              ELSE IF c \in erases[g] THEN None
                                              ELSE cm[c]]
               /\ walks' = [c \in Characters |-> IF c \in inserts[g] THEN None
                                                 ELSE walks[c]]
               /\ changed' = changed \ inserts[g]
               /\ \A d \in inserts[g] : knows'[d] =
                     (Staying(g) \cup inserts[g] \cup (IF g = Den THEN Monsters ELSE {}))
                         \ escapes[g]
               /\ \A d \in Staying(g) :
                     knows'[d] = (knows[d] \cup inserts[g]) \ escapes[g]
               /\ \A d \in Characters \ (Staying(g) \cup inserts[g]) :
                     knows'[d] = knows[d] \ escapes[g]
               /\ knows' \in [Characters -> SUBSET Things]
               /\ \A h \in Managers \ {g} : sends'[h] = AwayIn(sends, escapes[g])[h]
               /\ sends' \in [Managers -> Seq(Messages)]
               /\ game'.at # "dead" =>
                     sends'[g] = AwayIn(sends, escapes[g])[g] \o
                                     (IF escapes[g] = {} THEN <<>> ELSE <<m>>)
               /\ UNCHANGED <<at, entering, moves, funcs, since>>
<1> DEFINE g == Here
           rest == Staying(g)
           all == rest \cup inserts[g]
           seen == all \cup (IF g = Den THEN Monsters ELSE {})
           fled == escapes[g]
<1>1. g \in Managers /\ g # None
    BY Facts, Constants
<1>2. /\ inserts[g] \subseteq Characters /\ erases[g] \subseteq Characters
      /\ members[g] \subseteq Characters /\ fled \subseteq rest
      /\ erases[g] \subseteq members[g] /\ fled \subseteq Characters
      /\ \A c \in inserts[g] : c \notin rest
    BY <1>1, Facts DEF Places, Pointers, Staying
<1>3. IsFiniteSet(all) /\ Roster(all) = all /\ Roster(Monsters) = Monsters
    <2>1. all \subseteq Characters
        BY <1>2 DEF Staying
    <2>2. IsFiniteSet(all)
        BY <2>1, Constants, FS_Subset
    <2> HIDE DEF all
    <2> QED BY <2>2, Constants, RosterIsAll
<1>4. /\ members[g] \ erases[g] = rest /\ inserts[g] \ rest = inserts[g]
      /\ members[g] \cap erases[g] = erases[g]
    BY <1>2 DEF Staying
<1>5. game.at = "channel"
    BY DEF DrainChannel
<1>6. /\ members' = [members EXCEPT ![g] = all]
      /\ erases' = [erases EXCEPT ![g] = {}]
      /\ inserts' = [inserts EXCEPT ![g] = {}]
      /\ escapes' = [escapes EXCEPT ![g] = {}]
      /\ UNCHANGED <<at, entering, moves, funcs, since>>
    BY <1>4 DEF DrainChannel
<1>7. cm' = [c \in Characters |-> IF c \in inserts[g] THEN g
                                  ELSE IF c \in erases[g] THEN None ELSE cm[c]]
    BY <1>4 DEF DrainChannel
<1>8. /\ walks' = [c \in Characters |-> IF c \in inserts[g] THEN None ELSE walks[c]]
      /\ changed' = changed \ inserts[g]
    BY DEF DrainChannel, Cancel
<1>9. game' = [game EXCEPT !.at = IF \E c \in fled : cm'[c] = None THEN "dead"
                                   ELSE "manager"]
    BY <1>4, <1>7 DEF DrainChannel, Goto
<1>10. knows' = Away([d \in Characters |->
                         IF d \in inserts[g] THEN seen
                         ELSE IF d \in rest THEN knows[d] \cup inserts[g]
                         ELSE knows[d]], fled)
    <2>1. Roster(all) \cup (IF g = Den THEN Roster(Monsters) ELSE {}) = seen
        BY <1>3
    <2>2. rest \cup (inserts[g] \ rest) = all
        OBVIOUS
    <2>3. knows' = Away([d \in Characters |->
                         IF d \in inserts[g]
                         THEN Roster(all) \cup (IF g = Den THEN Roster(Monsters) ELSE {})
                         ELSE IF d \in rest THEN knows[d] \cup inserts[g]
                         ELSE knows[d]], fled)
        BY <1>4 DEF DrainChannel
    <2> HIDE DEF seen, all, rest, g, fled
    <2> QED BY <2>1, <2>3
<1>11. \A d \in Characters :
           knows'[d] = (IF d \in inserts[g] THEN seen
                        ELSE IF d \in rest THEN knows[d] \cup inserts[g]
                        ELSE knows[d]) \ fled
    BY <1>10 DEF Away
<1>12. knows' \in [Characters -> SUBSET Things]
    <2>1. seen \subseteq Things /\ inserts[g] \subseteq Things
        BY <1>2 DEF Things, Staying
    <2>2. \A d \in Characters : knows'[d] \subseteq Things
        BY <1>11, <2>1 DEF TypeOK
    <2>3. knows' = [d \in Characters |-> knows'[d]]
        BY <1>10 DEF Away
    <2> QED BY <2>2, <2>3
<1>13. sends' = [h \in Managers |-> AwayIn(sends, fled)[h] \o
                    (LET X == {c \in fled : cm'[c] = h}
                     IN  IF X = {} THEN <<>> ELSE <<[about |-> X, now |-> X]>>)]
    BY <1>4, <1>7 DEF DrainChannel
<1>14. \A c \in fled : cm'[c] \in {None, g}
    BY <1>1, <1>2, <1>7 DEF Pointers
<1>15. \A h \in Managers : AwayIn(sends, fled)[h] \in Seq(Messages)
    BY AwayMessages DEF TypeOK
<1>16. \A h \in Managers \ {g} : sends'[h] = AwayIn(sends, fled)[h]
    <2> TAKE h \in Managers \ {g}
    <2>1. {c \in fled : cm'[c] = h} = {}
        BY <1>14, Constants
    <2>2. sends'[h] = AwayIn(sends, fled)[h] \o <<>>
        BY <1>13, <2>1
    <2> QED BY <1>15, <2>2
<1>17. /\ sends'[g] \in Seq(Messages)
       /\ game'.at # "dead" =>
             sends'[g] = AwayIn(sends, fled)[g] \o
                 (IF fled = {} THEN <<>> ELSE <<[about |-> fled, now |-> fled]>>)
       /\ game'.at # "dead" => \A c \in fled : cm'[c] = g
    <2>1. game'.at # "dead" => \A c \in fled : cm'[c] = g
        BY <1>9, <1>14 DEF TypeOK
    <2>2. game'.at # "dead" => {c \in fled : cm'[c] = g} = fled
        BY <2>1
    <2>3. PICK X : X = {c \in fled : cm'[c] = g}
        OBVIOUS
    <2>4. PICK t : t = IF X = {} THEN <<>> ELSE <<[about |-> X, now |-> X]>>
        OBVIOUS
    <2>5. sends'[g] = AwayIn(sends, fled)[g] \o t
        <3> HIDE DEF g, fled
        <3> QED BY <1>1, <1>13, <2>3, <2>4
    <2>6. [about |-> X, now |-> X] \in Messages
        BY <1>2, <2>3 DEF Messages, Things
    <2>7. t \in Seq(Messages)
        BY <2>4, <2>6
    <2>8. sends'[g] \in Seq(Messages)
        BY <1>1, <1>15, <2>5, <2>7
    <2> HIDE DEF g, fled
    <2> QED BY <2>1, <2>2, <2>3, <2>4, <2>5, <2>8
<1>18. sends' \in [Managers -> Seq(Messages)]
    <2>1. \A h \in Managers : sends'[h] \in Seq(Messages)
        BY <1>15, <1>16, <1>17
    <2>2. sends' = [h \in Managers |-> sends'[h]]
        BY <1>13
    <2> QED BY <2>1, <2>2
<1>19. game' \in {[game EXCEPT !.at = "manager"], [game EXCEPT !.at = "dead"]}
    BY <1>9
<1>20. /\ \A d \in inserts[g] : knows'[d] = seen \ fled
       /\ \A d \in rest : knows'[d] = (knows[d] \cup inserts[g]) \ fled
       /\ \A d \in Characters \ (rest \cup inserts[g]) : knows'[d] = knows[d] \ fled
    BY <1>2, <1>11 DEF Staying
<1> QED BY <1>5, <1>6, <1>7, <1>8, <1>12, <1>16, <1>17, <1>18, <1>19, <1>20

\* What Tick does: a flush sends all that are marked among the members.
LEMMA Ticked ==
    ASSUME TypeOK, NEW X \in SUBSET Characters, Tick(X)
    PROVE  LET g == Here
               marked == changed \cup X
           IN  /\ game.at = "tick" /\ X \subseteq members[g]
               /\ game' \in [at : {"channel", "monsters"}, turn : 1 .. Len(Order)]
               /\ game'.at = "monsters" => game'.turn = game.turn /\ Here = Den
               /\ sends' = AwayIn(sends, X)
               /\ \/ /\ changed' = marked
                     /\ \A d \in Characters : knows'[d] = knows[d] \ X
                  \/ /\ changed' = marked \ members[g]
                     /\ \A d \in members[g] :
                           knows'[d] = (knows[d] \ X) \cup (marked \cap members[g])
                     /\ \A d \in Characters \ members[g] : knows'[d] = knows[d] \ X
               /\ changed' \subseteq Things
               /\ knows' \in [Characters -> SUBSET Things]
               /\ since' \in [chars : [Managers -> 0 .. FlushTime],
                              mons : 0 .. FlushTime]
               /\ UNCHANGED <<placeVars, escapes, funcs, memberVars, walks>>
<1> DEFINE g == Here
           marked == changed \cup X
           packets == Packets(SetToSeq(members[g]))
<1>1. /\ g \in Managers /\ IsFiniteSet(members[g]) /\ members[g] \subseteq Characters
      /\ game.turn \in 1 .. Len(Order) /\ Len(Order) \in Nat \ {0}
    BY Facts, Constants
<1>2. /\ game.at = "tick" /\ X \subseteq members[g]
      /\ sends' = AwayIn(sends, X)
      /\ UNCHANGED <<placeVars, escapes, funcs, memberVars, walks>>
    BY DEF Tick
<1>3. UNION Range(packets) = members[g]
    <2>1. /\ \A k \in DOMAIN packets : packets[k] \subseteq members[g]
          /\ \A x \in members[g] : \E k \in DOMAIN packets : x \in packets[k]
        BY <1>1, PacketsOfAll
    <2> HIDE DEF packets
    <2>2. \A x : x \in UNION Range(packets) <=> \E k \in DOMAIN packets : x \in packets[k]
        BY DEF Range
    <2> QED BY <2>1, <2>2
<1>4. /\ ~Due(since.chars[g]) => changed' = marked /\ knows' = Away(knows, X)
      /\ Due(since.chars[g]) =>
            /\ changed' = marked \ members[g]
            /\ knows' = [d \in Characters |-> IF d \in members[g]
                             THEN Away(knows, X)[d] \cup (marked \cap UNION Range(packets))
                             ELSE Away(knows, X)[d]]
    BY DEF Tick
<1> HIDE DEF packets
<1>5. \A d \in Characters : Away(knows, X)[d] = knows[d] \ X
    BY DEF Away
<1>6. \/ /\ changed' = marked
         /\ \A d \in Characters : knows'[d] = knows[d] \ X
      \/ /\ changed' = marked \ members[g]
         /\ \A d \in members[g] :
               knows'[d] = (knows[d] \ X) \cup (marked \cap members[g])
         /\ \A d \in Characters \ members[g] : knows'[d] = knows[d] \ X
    BY <1>1, <1>3, <1>4, <1>5
<1>7. marked \subseteq Things /\ changed' \subseteq Things
    BY <1>6 DEF TypeOK, Things
<1>8. knows' \in [Characters -> SUBSET Things]
    <2>1. \A d \in Characters : knows'[d] \subseteq Things
        BY <1>1, <1>6, <1>7 DEF TypeOK
    <2>2. knows' = [d \in Characters |-> knows'[d]]
        BY <1>4 DEF Away
    <2> QED BY <2>1, <2>2
<1>9. since' \in [chars : [Managers -> 0 .. FlushTime], mons : 0 .. FlushTime]
    <2>1. since' = [since EXCEPT !.chars[g] = Later(@)]
        BY DEF Tick
    <2>2. since.chars \in [Managers -> 0 .. FlushTime] /\ since.mons \in 0 .. FlushTime
        BY DEF TypeOK
    <2>3. \A n \in 0 .. FlushTime : Later(n) \in 0 .. FlushTime
        BY Constants DEF Later, Due
    <2> HIDE DEF g
    <2> QED BY <1>1, <2>1, <2>2, <2>3 DEF TypeOK
<1>10. /\ game' \in [at : {"channel", "monsters"}, turn : 1 .. Len(Order)]
       /\ game'.at = "monsters" => game'.turn = game.turn /\ Here = Den
    <2>1. game' = IF g = Den THEN [game EXCEPT !.at = "monsters"]
                  ELSE [at |-> "channel", turn |-> (game.turn % Len(Order)) + 1]
        BY DEF Tick
    <2>2. (game.turn % Len(Order)) + 1 \in 1 .. Len(Order)
        BY <1>1
    <2> QED BY <1>1, <2>1, <2>2 DEF TypeOK
<1> QED BY <1>2, <1>6, <1>7, <1>8, <1>9, <1>10

\* What FlushMonsters does: every marked monster is in one of the messages.
LEMMA Flushed ==
    ASSUME TypeOK, FlushMonsters
    PROVE  /\ game.at = "monsters" /\ Here = Den
           /\ game' = [game EXCEPT !.at = "trees"]
           /\ \E t \in Seq(Messages) :
                 /\ sends' = [sends EXCEPT ![Den] = @ \o t]
                 /\ \A i \in 1 .. Len(t) :
                       t[i].now = t[i].about /\ t[i].about \subseteq Monsters
                 /\ \A x \in Monsters : x \in changed =>
                       x \in changed' \/ \E i \in 1 .. Len(t) : x \in t[i].about
           /\ changed' \subseteq Things
           /\ \A x \in changed : x \notin Monsters => x \in changed'
           /\ since' \in [chars : [Managers -> 0 .. FlushTime], mons : 0 .. FlushTime]
           /\ UNCHANGED <<placeVars, escapes, funcs, memberVars, walks, knows>>
<1> DEFINE packets == Packets(SetToSeq(Monsters))
           t == [k \in DOMAIN packets |-> [about |-> packets[k] \cap changed,
                                           now |-> packets[k] \cap changed]]
<1>1. /\ game.at = "monsters" /\ Here = Den /\ Den \in Managers
      /\ UNCHANGED <<placeVars, escapes, funcs, memberVars, walks, knows>>
      /\ game' = [game EXCEPT !.at = "trees"]
      /\ since' = [since EXCEPT !.mons = Later(@)]
    BY Facts DEF FlushMonsters, TypeOK, Goto
<1>2. /\ Due(since.mons) => /\ sends' = [sends EXCEPT ![Den] = @ \o t]
                            /\ changed' = changed \ Monsters
      /\ ~Due(since.mons) => UNCHANGED <<sends, changed>>
    BY DEF FlushMonsters
<1>3. /\ \E n \in Nat : DOMAIN packets = 1 .. n
      /\ \A k \in DOMAIN packets : packets[k] \subseteq Monsters
      /\ \A x \in Monsters : \E k \in DOMAIN packets : x \in packets[k]
    BY Constants, PacketsOfAll
<1> HIDE DEF packets
<1>4. PICK n \in Nat : DOMAIN packets = 1 .. n
    BY <1>3
<1>5. \A k \in 1 .. n : t[k] = [about |-> packets[k] \cap changed,
                                now |-> packets[k] \cap changed]
    BY <1>4
<1>6. \A k \in 1 .. n : t[k] \in Messages /\ t[k].now = t[k].about
                        /\ t[k].about = packets[k] \cap changed
    BY <1>3, <1>4, <1>5 DEF Messages, Things
<1>7. t \in Seq(Messages) /\ Len(t) = n
    <2>1. t \in [1 .. n -> Messages]
        BY <1>4, <1>6
    <2> QED BY <2>1
<1> HIDE DEF t
<1>8. changed' \subseteq changed /\ \A x \in changed : x \notin Monsters => x \in changed'
    BY <1>2
<1>9. since' \in [chars : [Managers -> 0 .. FlushTime], mons : 0 .. FlushTime]
    <2>1. since.mons \in 0 .. FlushTime
        BY DEF TypeOK
    <2>2. Later(since.mons) \in 0 .. FlushTime
        BY <2>1, Constants DEF Later, Due
    <2> QED BY <1>1, <2>2 DEF TypeOK
<1>10. \E u \in Seq(Messages) :
           /\ sends' = [sends EXCEPT ![Den] = @ \o u]
           /\ \A i \in 1 .. Len(u) :
                 u[i].now = u[i].about /\ u[i].about \subseteq Monsters
           /\ \A x \in Monsters : x \in changed =>
                 x \in changed' \/ \E i \in 1 .. Len(u) : x \in u[i].about
    <2>1. CASE Due(since.mons)
        <3>1. ASSUME NEW x \in Monsters, x \in changed
              PROVE  \E i \in 1 .. Len(t) : x \in t[i].about
            <4>1. PICK k \in 1 .. n : x \in packets[k]
                BY <1>3, <1>4
            <4> QED BY <1>6, <1>7, <3>1, <4>1
        <3>2. \A i \in 1 .. Len(t) :
                  t[i].now = t[i].about /\ t[i].about \subseteq Monsters
            BY <1>3, <1>4, <1>6, <1>7
        <3> t \in Seq(Messages)
            BY <1>7
        <3> WITNESS t \in Seq(Messages)
        <3> QED BY <1>2, <2>1, <3>1, <3>2
    <2>2. CASE ~Due(since.mons)
        <3>1. sends[Den] \o <<>> = sends[Den] /\ <<>> \in Seq(Messages)
            BY <1>1 DEF TypeOK
        <3>2. sends' = [sends EXCEPT ![Den] = @ \o <<>>]
            BY <1>1, <1>2, <2>2, <3>1 DEF TypeOK
        <3>3. \A i \in 1 .. Len(<<>>) : FALSE
            OBVIOUS
        <3>4. changed' = changed
            BY <1>2, <2>2
        <3> WITNESS <<>> \in Seq(Messages)
        <3> QED BY <3>2, <3>3, <3>4
    <2> QED BY <2>1, <2>2
<1> QED BY <1>1, <1>8, <1>9, <1>10 DEF TypeOK

\* What MonstersTick does.
LEMMA MonstersTicked ==
    ASSUME TypeOK, NEW X \in SUBSET Monsters, NEW Y \in SUBSET Monsters,
           MonstersTick(X, Y)
    PROVE  /\ game.at = "trees" /\ Here = Den /\ Den \in Managers
           /\ game' \in [at : {"channel"}, turn : 1 .. Len(Order)]
           /\ changed' = changed \cup X
           /\ knows' \in [Characters -> SUBSET Things]
           /\ \A d \in Characters : knows'[d] = knows[d] \ (X \cup Y)
           /\ sends' \in [Managers -> Seq(Messages)]
           /\ \A h \in Managers \ {Den} : sends'[h] = AwayIn(sends, X \cup Y)[h]
           /\ sends'[Den] = AwayIn(sends, X \cup Y)[Den] \o
                               (IF Y = {} THEN <<>> ELSE <<[about |-> Y, now |-> Y]>>)
           /\ UNCHANGED <<placeVars, escapes, funcs, memberVars, walks, since>>
<1> DEFINE A == AwayIn(sends, X \cup Y)
           m == [about |-> Y, now |-> Y]
<1>1. /\ game.at = "trees" /\ Here = Den /\ Den \in Managers
      /\ changed' = changed \cup X
      /\ knows' = Away(knows, X \cup Y)
      /\ UNCHANGED <<placeVars, escapes, funcs, memberVars, walks, since>>
    BY Facts DEF MonstersTick, TypeOK
<1>2. \A h \in Managers : A[h] \in Seq(Messages)
    BY AwayMessages DEF TypeOK
<1>3. DOMAIN A = Managers
    BY DEF AwayIn
<1>4. m \in Messages
    BY DEF Messages, Things
<1>5. sends' = [A EXCEPT ![Den] = IF Y = {} THEN @ ELSE Append(@, m)]
    BY DEF MonstersTick
<1> HIDE DEF A, m
<1>6. sends'[Den] = A[Den] \o (IF Y = {} THEN <<>> ELSE <<m>>)
    <2>1. sends'[Den] = IF Y = {} THEN A[Den] ELSE Append(A[Den], m)
        BY <1>1, <1>3, <1>5
    <2>2. A[Den] \o <<>> = A[Den] /\ Append(A[Den], m) = A[Den] \o <<m>>
        BY <1>1, <1>2, <1>4
    <2> QED BY <2>1, <2>2
<1>7. sends'[Den] \in Seq(Messages)
    BY <1>1, <1>2, <1>4, <1>6
<1>8. \A h \in Managers \ {Den} : sends'[h] = A[h]
    BY <1>3, <1>5
<1>9. sends' \in [Managers -> Seq(Messages)]
    <2>1. \A h \in Managers : sends'[h] \in Seq(Messages)
        BY <1>2, <1>7, <1>8
    <2>2. sends' = [h \in Managers |-> sends'[h]]
        BY <1>3, <1>5
    <2> QED BY <2>1, <2>2
<1>10. \A d \in Characters : knows'[d] = knows[d] \ (X \cup Y)
    BY <1>1, StaysAway
<1>11. knows' \in [Characters -> SUBSET Things]
    <2>1. knows' = [d \in Characters |-> knows'[d]]
        BY <1>1 DEF Away
    <2> QED BY <1>10, <2>1 DEF TypeOK
<1>12. game' \in [at : {"channel"}, turn : 1 .. Len(Order)]
    <2>1. game' = [at |-> "channel", turn |-> (game.turn % Len(Order)) + 1]
        BY DEF MonstersTick
    <2>2. game.turn \in 1 .. Len(Order) /\ Len(Order) \in Nat \ {0}
        BY Facts, Constants
    <2>3. (game.turn % Len(Order)) + 1 \in 1 .. Len(Order)
        BY <2>2
    <2> QED BY <2>1, <2>3
<1> QED BY <1>1, <1>6, <1>8, <1>9, <1>10, <1>11, <1>12 DEF A, m
\* What DrainManager does: members hear what waits for them, some are sent a
\* list; only who asked for it begins or ends a walk.
LEMMA Managed ==
    ASSUME TypeOK, DrainManager
    PROVE  LET g == Here
           IN  /\ game.at = "manager" /\ game' = [game EXCEPT !.at = "tick"]
               /\ \A d \in members[g] : Told(knows[d], sends[g]) \subseteq knows'[d]
               /\ \A d \in Characters \ members[g] : knows[d] \subseteq knows'[d]
               /\ knows' \in [Characters -> SUBSET Things]
               /\ walks' \in [Characters -> Managers \cup {None}]
               /\ \A c \in Characters :
                     \/ walks'[c] = walks[c]
                     \/ /\ walks'[c] \in {None, g}
                        /\ \E i \in 1 .. Len(funcs[g]) :
                              funcs[g][i].op = "move" /\ funcs[g][i].c = c
               /\ sends' = [sends EXCEPT ![g] = <<>>]
               /\ funcs' = [funcs EXCEPT ![g] = <<>>]
               /\ UNCHANGED <<placeVars, escapes, memberVars, changed, since>>
<1> DEFINE g == Here
           listed == {f.c : f \in {x \in Range(funcs[g]) : x.op = "list"}}
           heard == [d \in Characters |-> IF d \in members[g]
                                          THEN Told(knows[d], sends[g]) ELSE knows[d]]
<1>1. /\ g \in Managers /\ IsFiniteSet(members[g]) /\ members[g] \subseteq Characters
    BY Facts
<1>2. Roster(members[g]) \subseteq Things
    BY <1>1, RosterIsAll DEF Things
<1>3. /\ game.at = "manager" /\ game' = [game EXCEPT !.at = "tick"]
      /\ sends' = [sends EXCEPT ![g] = <<>>]
      /\ funcs' = [funcs EXCEPT ![g] = <<>>]
      /\ walks' = Run(funcs[g])
      /\ UNCHANGED <<placeVars, escapes, memberVars, changed, since>>
    BY DEF DrainManager, Goto
<1>4. knows' = [d \in Characters |-> IF d \in listed
                                     THEN heard[d] \cup Roster(members[g])
                                     ELSE heard[d]]
    BY DEF DrainManager
<1>5. \A d \in Characters : heard[d] \subseteq Things
    <2>1. \A d \in Characters : knows[d] \subseteq Things
        BY DEF TypeOK
    <2>2. PICK s \in Seq(Messages) : s = sends[g]
        BY <1>1 DEF TypeOK
    <2>3. \A i \in 1 .. Len(s) : s[i].now \subseteq Things
        <3>1. \A i \in 1 .. Len(s) : s[i] \in Messages
            BY <2>2
        <3> QED BY <3>1 DEF Messages
    <2>4. \A d \in Characters : Told(knows[d], s) \subseteq Things
        BY <2>1, <2>3, ToldIs
    <2> QED BY <2>1, <2>2, <2>4
<1> HIDE DEF listed
<1>6. \A d \in Characters : heard[d] \subseteq knows'[d] /\ knows'[d] \subseteq Things
    <2> HIDE DEF heard, g
    <2> QED BY <1>2, <1>4, <1>5
<1>7. knows' \in [Characters -> SUBSET Things]
    <2>1. knows' = [d \in Characters |-> knows'[d]]
        BY <1>4
    <2> HIDE DEF heard
    <2> QED BY <1>6, <2>1
<1>8. /\ \A d \in members[g] : Told(knows[d], sends[g]) \subseteq knows'[d]
      /\ \A d \in Characters \ members[g] : knows[d] \subseteq knows'[d]
    BY <1>1, <1>6
<1>9. ASSUME NEW c \in Characters
      PROVE  \/ walks'[c] = walks[c]
             \/ /\ walks'[c] \in {None, g}
                /\ \E i \in 1 .. Len(funcs[g]) :
                      funcs[g][i].op = "move" /\ funcs[g][i].c = c
    BY <1>3 DEF Run, Moved
<1>10. walks' \in [Characters -> Managers \cup {None}]
    <2>1. \A c \in Characters : walks'[c] \in Managers \cup {None}
        BY <1>1, <1>9, Facts
    <2>2. walks' = [c \in Characters |-> walks'[c]]
        BY <1>3 DEF Run
    <2> QED BY <2>1, <2>2
<1> QED BY <1>3, <1>7, <1>8, <1>9, <1>10

\* What Enter does: who goes on was a member that stays, of the channel it leaves.
LEMMA Entered ==
    ASSUME TypeOK, Places, NEW c \in Characters, Admitted(c)
    PROVE  /\ at[c] \in Managers /\ c \in Staying(at[c])
           /\ \A g \in Managers : c \notin inserts[g]
           /\ \A g \in Managers : c \in Staying(g) => g = at[c]
BY DEF TypeOK, Places, Admitted, Staying

LEMMA StayingEntered ==
    ASSUME TypeOK, Places, NEW c \in Characters, NEW h \in Managers, Enter(c, h)
    PROVE  /\ \A g \in Managers : Staying(g)' = Staying(g) \ {c}
           /\ \A g \in Managers : erases[g] \subseteq erases'[g]
           /\ \A g \in Managers : erases'[g] \subseteq erases[g] \cup {c}
           /\ c \in erases'[at[c]]
           /\ at'[c] = h /\ at[c] # h /\ \A d \in Characters \ {c} : at'[d] = at[d]
           /\ knows' \in [Characters -> SUBSET Things]
           /\ \A d \in Characters \ {c} : knows'[d] = knows[d] \ {c}
           /\ sends' = AwayIn(sends, {c})
           /\ \A g \in Managers : c \notin escapes[g]
<1>1. /\ at[c] \in Managers /\ c \in Staying(at[c])
      /\ \A g \in Managers : c \in Staying(g) => g = at[c]
    BY Entered DEF Enter
<1>2. /\ erases' = [erases EXCEPT ![at[c]] = @ \cup {c}]
      /\ members' = members
    BY DEF Enter, memberVars
<1>3. erases \in [Managers -> SUBSET Characters]
    BY Facts
<1>4. \A g \in Managers : erases'[g] = IF g = at[c] THEN erases[g] \cup {c} ELSE erases[g]
    BY <1>1, <1>2, <1>3
<1>5. \A g \in Managers : Staying(g)' = Staying(g) \ {c}
    BY <1>1, <1>2, <1>4 DEF Staying
<1>6. /\ at' = [at EXCEPT ![c] = h] /\ at[c] # h
      /\ sends' = AwayIn(sends, {c})
      /\ knows' = [Away(knows, {c}) EXCEPT ![c] = {}]
      /\ \A g \in Managers : c \notin escapes[g]
    BY DEF Enter
<1>7. /\ at'[c] = h /\ \A d \in Characters \ {c} : at'[d] = at[d]
    BY <1>6 DEF TypeOK
<1>8. DOMAIN Away(knows, {c}) = Characters
    BY DEF Away
<1>9. /\ \A d \in Characters \ {c} : knows'[d] = knows[d] \ {c}
      /\ knows'[c] = {}
    BY <1>6, <1>8, StaysAway
<1>10. knows' \in [Characters -> SUBSET Things]
    <2>1. \A d \in Characters : knows'[d] \subseteq Things
        BY <1>9 DEF TypeOK
    <2>2. knows' = [d \in Characters |-> knows'[d]]
        BY <1>6, <1>8
    <2> QED BY <2>1, <2>2
<1>11. /\ \A g \in Managers : erases[g] \subseteq erases'[g]
       /\ \A g \in Managers : erases'[g] \subseteq erases[g] \cup {c}
       /\ c \in erases'[at[c]]
    BY <1>1, <1>4
<1> QED BY <1>5, <1>6, <1>7, <1>9, <1>10, <1>11

LEMMA StayingDrained ==
    ASSUME TypeOK, Places, Pointers, DrainChannel, NEW h \in Managers
    PROVE  /\ h = Here => Staying(h)' = Staying(h) \cup inserts[h]
           /\ h # Here => Staying(h)' = Staying(h) /\ \A c \in Staying(h) :
                 c \notin inserts[Here] /\ c \notin Staying(Here)
<1>1. PICK g \in Managers : g = Here
    BY Facts
<1>2. /\ members' = [members EXCEPT ![g] = Staying(g) \cup inserts[g]]
      /\ erases' = [erases EXCEPT ![g] = {}]
    BY <1>1, Drained
<1>3. /\ members'[h] = IF h = g THEN Staying(g) \cup inserts[g] ELSE members[h]
      /\ erases'[h] = IF h = g THEN {} ELSE erases[h]
    BY <1>1, <1>2, Facts
<1>4. h # g => \A c \in Staying(h) : c \notin inserts[g] /\ c \notin Staying(g)
    BY <1>1 DEF Places
<1>5. h = g => Staying(h)' = Staying(h) \cup inserts[h]
    BY <1>3 DEF Staying
<1>6. h # g => Staying(h)' = Staying(h)
    BY <1>3 DEF Staying
<1> QED BY <1>1, <1>4, <1>5, <1>6
\* A request at the end of those of g.
LEMMA Asked ==
    ASSUME TypeOK, NEW g \in Managers, NEW f \in Functions,
           funcs' = [funcs EXCEPT ![g] = Append(@, f)]
    PROVE  /\ funcs' \in [Managers -> Seq(Functions)]
           /\ \A h \in Managers \ {g} : funcs'[h] = funcs[h]
           /\ \A i \in 1 .. Len(funcs'[g]) : \/ funcs'[g][i] = f
                                            \/ /\ i \in 1 .. Len(funcs[g])
                                               /\ funcs'[g][i] = funcs[g][i]
<1>1. funcs \in [Managers -> Seq(Functions)]
    BY DEF TypeOK
<1>2. funcs'[g] = Append(funcs[g], f) /\ \A h \in Managers \ {g} : funcs'[h] = funcs[h]
    BY <1>1
<1>3. PICK s \in Seq(Functions) : s = funcs[g]
    BY <1>1
<1>4. Append(s, f) \in Seq(Functions)
    BY <1>3
<1>5. \A i \in 1 .. Len(Append(s, f)) : \/ Append(s, f)[i] = f
                                       \/ /\ i \in 1 .. Len(s)
                                          /\ Append(s, f)[i] = s[i]
    BY <1>3
<1> QED BY <1>1, <1>2, <1>3, <1>4, <1>5

LEMMA AwaySends ==
    ASSUME TypeOK, NEW X
    PROVE  AwayIn(sends, X) \in [Managers -> Seq(Messages)]
<1>1. sends \in [Managers -> Seq(Messages)]
    BY DEF TypeOK
<1>2. \A g \in Managers : AwayIn(sends, X)[g] \in Seq(Messages)
    BY <1>1, AwayMessages
<1>3. AwayIn(sends, X) = [g \in Managers |-> AwayIn(sends, X)[g]]
    BY DEF AwayIn
<1> QED BY <1>2, <1>3

\* Types are kept.
LEMMA TypeStep ==
    ASSUME TypeOK, Places, Pointers, [Next]_vars
    PROVE  TypeOK'
<1> USE DEF placeVars, toldVars, memberVars
<1>1. ASSUME NEW c \in Characters, NEW walk \in BOOLEAN, AskMove(c, walk)
      PROVE  TypeOK'
    <2>1. at[c] \in Managers /\ [op |-> "move", c |-> c, walk |-> walk] \in Functions
        BY DEF TypeOK, Functions
    <2>2. funcs' = [funcs EXCEPT ![at[c]] =
                       Append(@, [op |-> "move", c |-> c, walk |-> walk])]
        BY <1>1 DEF AskMove
    <2>3. funcs' \in [Managers -> Seq(Functions)]
        BY <2>1, <2>2, Asked
    <2> QED BY <1>1, <2>3 DEF AskMove, TypeOK, Here
<1>2. ASSUME NEW c \in Characters, AskList(c)
      PROVE  TypeOK'
    <2>1. cm[c] \in Managers /\ [op |-> "list", c |-> c, walk |-> FALSE] \in Functions
        BY <1>2, Facts DEF AskList, Functions
    <2>2. funcs' = [funcs EXCEPT ![cm[c]] =
                       Append(@, [op |-> "list", c |-> c, walk |-> FALSE])]
        BY <1>2 DEF AskList
    <2>3. funcs' \in [Managers -> Seq(Functions)]
        BY <2>1, <2>2, Asked
    <2> QED BY <1>2, <2>3 DEF AskList, TypeOK, Here
<1>3. ASSUME NEW c \in Characters, AskEscape(c)
      PROVE  TypeOK'
    <2>1. escapes' \in [Managers -> SUBSET Characters]
        BY <1>3, Facts DEF AskEscape
    <2> QED BY <1>3, <2>1 DEF AskEscape, TypeOK, Here
<1>4. ASSUME NEW c \in Characters, NEW h \in Managers, Enter(c, h)
      PROVE  TypeOK'
    <2>1. /\ erases' \in [Managers -> SUBSET Characters]
          /\ at' \in [Characters -> Managers]
          /\ entering' \subseteq Characters
        BY <1>4, Facts DEF Enter, TypeOK
    <2>2. moves' \in 0 .. MaxMoves
        BY <1>4, Constants DEF Enter, TypeOK
    <2>3. knows' \in [Characters -> SUBSET Things]
        BY <1>4, StayingEntered
    <2>4. sends' \in [Managers -> Seq(Messages)]
        BY <1>4, AwaySends DEF Enter
    <2>5. UNCHANGED <<game, inserts, escapes, funcs, memberVars, walks, changed, since>>
        BY <1>4 DEF Enter
    <2> QED BY <2>1, <2>2, <2>3, <2>4, <2>5 DEF TypeOK, Here
<1>5. ASSUME NEW c \in Characters, Ask(c)
      PROVE  TypeOK'
    <2>1. inserts' \in [Managers -> SUBSET Characters] /\ entering' \subseteq Characters
        BY <1>5, Facts DEF Ask, TypeOK
    <2> QED BY <1>5, <2>1 DEF Ask, TypeOK, Here
<1>6. CASE DrainChannel
    <2>1. PICK g \in Managers : g = Here
        BY Facts
    <2>2. Staying(g) \cup inserts[g] \subseteq Characters
        BY Facts DEF Staying
    <2>3. /\ members' = [members EXCEPT ![g] = Staying(g) \cup inserts[g]]
          /\ erases' = [erases EXCEPT ![g] = {}]
          /\ inserts' = [inserts EXCEPT ![g] = {}]
          /\ escapes' = [escapes EXCEPT ![g] = {}]
          /\ cm' = [c \in Characters |-> IF c \in inserts[g] THEN g
                                         ELSE IF c \in erases[g] THEN None ELSE cm[c]]
          /\ walks' = [c \in Characters |-> IF c \in inserts[g] THEN None ELSE walks[c]]
          /\ changed' = changed \ inserts[g]
          /\ knows' \in [Characters -> SUBSET Things]
          /\ sends' \in [Managers -> Seq(Messages)]
          /\ game' \in {[game EXCEPT !.at = "manager"], [game EXCEPT !.at = "dead"]}
          /\ UNCHANGED <<at, entering, moves, funcs, since>>
        BY <1>6, <2>1, Drained
    <2>4. {erases', inserts', escapes', members'} \subseteq [Managers -> SUBSET Characters]
        BY <2>1, <2>2, <2>3, Facts
    <2>5. {cm', walks'} \subseteq [Characters -> Managers \cup {None}]
        BY <2>1, <2>3, Facts
    <2>6. /\ game' \in [at : Stages, turn : 1 .. Len(Order)]
          /\ game'.at \notin {"monsters", "trees"}
        BY <2>3 DEF TypeOK, Stages
    <2> QED BY <2>3, <2>4, <2>5, <2>6 DEF TypeOK
<1>7. CASE DrainManager
    <2>1. PICK g \in Managers : g = Here
        BY Facts
    <2>2. /\ sends' = [sends EXCEPT ![g] = <<>>]
          /\ funcs' = [funcs EXCEPT ![g] = <<>>]
          /\ game' = [game EXCEPT !.at = "tick"]
          /\ knows' \in [Characters -> SUBSET Things]
          /\ walks' \in [Characters -> Managers \cup {None}]
          /\ UNCHANGED <<placeVars, escapes, memberVars, changed, since>>
        BY <1>7, <2>1, Managed
    <2>3. /\ sends' \in [Managers -> Seq(Messages)]
          /\ funcs' \in [Managers -> Seq(Functions)]
        BY <2>2 DEF TypeOK
    <2>4. /\ game' \in [at : Stages, turn : 1 .. Len(Order)]
          /\ game'.at \notin {"monsters", "trees"}
        BY <2>2 DEF TypeOK, Stages
    <2> QED BY <2>2, <2>3, <2>4 DEF TypeOK
<1>8. ASSUME NEW X \in SUBSET Characters, Tick(X)
      PROVE  TypeOK'
    <2>1. /\ game' \in [at : {"channel", "monsters"}, turn : 1 .. Len(Order)]
          /\ game'.at = "monsters" => game'.turn = game.turn /\ Here = Den
          /\ sends' = AwayIn(sends, X)
          /\ changed' \subseteq Things
          /\ knows' \in [Characters -> SUBSET Things]
          /\ since' \in [chars : [Managers -> 0 .. FlushTime], mons : 0 .. FlushTime]
          /\ UNCHANGED <<placeVars, escapes, funcs, memberVars, walks>>
        BY <1>8, Ticked
    <2>2. sends' \in [Managers -> Seq(Messages)]
        BY <2>1, AwaySends
    <2>3. /\ game' \in [at : Stages, turn : 1 .. Len(Order)]
          /\ game'.at \in {"monsters", "trees"} => Here' = Den
        BY <2>1 DEF Stages, Here
    <2> QED BY <2>1, <2>2, <2>3 DEF TypeOK
<1>9. CASE FlushMonsters
    <2>1. PICK t \in Seq(Messages) : sends' = [sends EXCEPT ![Den] = @ \o t]
        BY <1>9, Flushed
    <2>2. /\ Here = Den /\ game' = [game EXCEPT !.at = "trees"]
          /\ changed' \subseteq Things
          /\ since' \in [chars : [Managers -> 0 .. FlushTime], mons : 0 .. FlushTime]
          /\ UNCHANGED <<placeVars, escapes, funcs, memberVars, walks, knows>>
        BY <1>9, Flushed
    <2>3. sends' \in [Managers -> Seq(Messages)]
        <3>1. sends \in [Managers -> Seq(Messages)] /\ Den \in Managers
            BY <2>2, Facts DEF TypeOK
        <3>2. sends[Den] \o t \in Seq(Messages)
            BY <3>1
        <3> QED BY <2>1, <3>1, <3>2
    <2>4. /\ game' \in [at : Stages, turn : 1 .. Len(Order)] /\ Here' = Den
        BY <2>2 DEF TypeOK, Stages, Here
    <2> QED BY <2>2, <2>3, <2>4 DEF TypeOK
<1>10. ASSUME NEW X \in SUBSET Monsters, NEW Y \in SUBSET Monsters, MonstersTick(X, Y)
       PROVE  TypeOK'
    <2>1. /\ game' \in [at : {"channel"}, turn : 1 .. Len(Order)]
          /\ changed' = changed \cup X
          /\ knows' \in [Characters -> SUBSET Things]
          /\ sends' \in [Managers -> Seq(Messages)]
          /\ UNCHANGED <<placeVars, escapes, funcs, memberVars, walks, since>>
        BY <1>10, MonstersTicked
    <2>2. /\ game' \in [at : Stages, turn : 1 .. Len(Order)]
          /\ game'.at \notin {"monsters", "trees"}
        BY <2>1 DEF Stages
    <2>3. changed' \subseteq Things
        BY <2>1 DEF TypeOK, Things
    <2> QED BY <2>1, <2>2, <2>3 DEF TypeOK
<1>11. CASE UNCHANGED vars
    BY <1>11 DEF TypeOK, Here, vars
<1> QED BY <1>1, <1>2, <1>3, <1>4, <1>5, <1>6, <1>7, <1>8, <1>9, <1>10, <1>11
        DEF Next, Client, GameStep
-----------------------------------------------------------------------------
(* The invariant. *)

\* Requests do not move anything.
LEMMA Still ==
    ASSUME Places, UNCHANGED <<placeVars, members>>,
           \/ game'.at \in {"channel", "dead"}
           \/ Here' = Here /\ game'.at = game.at
           \/ Here' = Here /\ game.at \notin {"channel", "dead"}
    PROVE  Places' /\ \A g \in Managers : Staying(g)' = Staying(g)
<1> USE DEF placeVars
<1>1. \A g \in Managers : Staying(g)' = Staying(g)
    BY DEF Staying
<1>2. /\ \A g \in Managers : \A c \in Staying(g)' : at'[c] = g /\ c \notin entering'
      /\ \A g \in Managers : \A c \in inserts'[g] :
            /\ at'[c] = g /\ c \notin entering'
            /\ c \in members'[g] => c \in erases'[g]
      /\ \A g \in Managers : \A c \in erases'[g] :
            /\ c \in members'[g]
            /\ at'[c] = g => c \in entering' \/ c \in inserts'[g]
    BY <1>1 DEF Places
<1>3. game'.at \notin {"channel", "dead"} =>
          \A c \in members'[Here'], g \in Managers : c \in Staying(g)' => g = Here'
    BY <1>1 DEF Places
<1> QED BY <1>1, <1>2, <1>3 DEF Places

LEMMA PlacesStep ==
    ASSUME TypeOK, Places, Pointers, [Next]_vars
    PROVE  Places'
<1> USE DEF placeVars, memberVars
<1>1. ASSUME NEW c \in Characters, NEW walk \in BOOLEAN, AskMove(c, walk)
      PROVE  Places'
    BY <1>1, Still DEF AskMove, Here
<1>2. ASSUME NEW c \in Characters, AskList(c) PROVE Places'
    BY <1>2, Still DEF AskList, Here
<1>3. ASSUME NEW c \in Characters, AskEscape(c) PROVE Places'
    BY <1>3, Still DEF AskEscape, Here
<1>4. ASSUME NEW c \in Characters, NEW h \in Managers, Enter(c, h) PROVE Places'
    <2>1. /\ \A g \in Managers : Staying(g)' = Staying(g) \ {c}
          /\ \A g \in Managers : erases[g] \subseteq erases'[g]
          /\ \A g \in Managers : erases'[g] \subseteq erases[g] \cup {c}
          /\ at'[c] = h /\ at[c] # h /\ \A d \in Characters \ {c} : at'[d] = at[d]
        BY <1>4, StayingEntered
    <2>2. /\ at[c] \in Managers /\ c \in Staying(at[c])
          /\ \A g \in Managers : c \notin inserts[g]
        BY <1>4, Entered DEF Enter
    <2>3. /\ entering' = entering \cup {c} /\ inserts' = inserts
          /\ members' = members /\ game' = game
          /\ erases' = [erases EXCEPT ![at[c]] = @ \cup {c}]
        BY <1>4 DEF Enter
    <2>4. \A g \in Managers : /\ Staying(g) \subseteq Characters
                              /\ inserts[g] \subseteq Characters
                              /\ erases[g] \subseteq Characters
        BY Facts DEF Staying
    <2>5. \A g \in Managers : \A d \in Staying(g)' : at'[d] = g /\ d \notin entering'
        BY <2>1, <2>3, <2>4 DEF Places
    <2>6. \A g \in Managers : \A d \in inserts'[g] :
              /\ at'[d] = g /\ d \notin entering'
              /\ d \in members'[g] => d \in erases'[g]
        BY <2>1, <2>2, <2>3, <2>4 DEF Places
    <2>7. ASSUME NEW g \in Managers, NEW d \in erases'[g]
          PROVE  /\ d \in members'[g]
                 /\ at'[d] = g => d \in entering' \/ d \in inserts'[g]
        <3>1. CASE d \in erases[g]
            BY <2>1, <2>3, <2>4, <3>1 DEF Places
        <3>2. CASE d \notin erases[g]
            <4>1. d = c /\ g = at[c]
                BY <2>1, <2>3, <3>2, Facts
            <4> QED BY <2>2, <2>3, <4>1 DEF Staying
        <3> QED BY <3>1, <3>2
    <2>8. game'.at \notin {"channel", "dead"} =>
              \A d \in members'[Here'], g \in Managers : d \in Staying(g)' => g = Here'
        BY <2>1, <2>3 DEF Places, Here
    <2> QED BY <2>5, <2>6, <2>7, <2>8 DEF Places
<1>5. ASSUME NEW c \in Characters, Ask(c) PROVE Places'
    <2>1. /\ c \in entering /\ entering' = entering \ {c}
          /\ inserts' = [inserts EXCEPT ![at[c]] = @ \cup {c}]
          /\ UNCHANGED <<game, at, erases, members>>
        BY <1>5 DEF Ask
    <2>2. \A g \in Managers : Staying(g)' = Staying(g)
        BY <2>1 DEF Staying
    <2>3. /\ at[c] \in Managers
          /\ \A g \in Managers : inserts'[g] = IF g = at[c] THEN inserts[g] \cup {c}
                                               ELSE inserts[g]
        BY <2>1, Facts DEF TypeOK
    <2>4. \A g \in Managers : \A d \in Staying(g)' : at'[d] = g /\ d \notin entering'
        BY <2>1, <2>2 DEF Places
    <2>5. ASSUME NEW g \in Managers, NEW d \in inserts'[g]
          PROVE  /\ at'[d] = g /\ d \notin entering'
                 /\ d \in members'[g] => d \in erases'[g]
        <3>1. CASE d \in inserts[g]
            BY <2>1, <3>1 DEF Places
        <3>2. CASE d \notin inserts[g]
            <4>1. d = c /\ g = at[c]
                BY <2>3, <3>2
            <4>2. c \notin Staying(g)
                BY <2>1 DEF Places
            <4> QED BY <2>1, <4>1, <4>2 DEF Staying
        <3> QED BY <3>1, <3>2
    <2>6. \A g \in Managers : \A d \in erases'[g] :
              /\ d \in members'[g]
              /\ at'[d] = g => d \in entering' \/ d \in inserts'[g]
        BY <2>1, <2>3 DEF Places
    <2>7. game'.at \notin {"channel", "dead"} =>
              \A d \in members'[Here'], g \in Managers : d \in Staying(g)' => g = Here'
        BY <2>1, <2>2 DEF Places, Here
    <2> QED BY <2>4, <2>5, <2>6, <2>7 DEF Places
<1>6. CASE DrainChannel
    <2>1. PICK g \in Managers : g = Here
        BY Facts
    <2>2. /\ members' = [members EXCEPT ![g] = Staying(g) \cup inserts[g]]
          /\ erases' = [erases EXCEPT ![g] = {}]
          /\ inserts' = [inserts EXCEPT ![g] = {}]
          /\ game' \in {[game EXCEPT !.at = "manager"], [game EXCEPT !.at = "dead"]}
          /\ UNCHANGED <<at, entering>>
        BY <1>6, <2>1, Drained
    <2>3. /\ Staying(g)' = Staying(g) \cup inserts[g]
          /\ \A h \in Managers : h # g => Staying(h)' = Staying(h)
        BY <1>6, <2>1, StayingDrained
    <2>4. /\ members'[g] = Staying(g) \cup inserts[g]
          /\ \A h \in Managers \ {g} : /\ members'[h] = members[h]
                                       /\ inserts'[h] = inserts[h]
                                       /\ erases'[h] = erases[h]
          /\ inserts'[g] = {} /\ erases'[g] = {}
        BY <2>2, Facts
    <2>5. \A d \in Staying(g) \cup inserts[g] : at[d] = g /\ d \notin entering
        BY DEF Places
    <2>6. \A h \in Managers : \A d \in Staying(h)' : at'[d] = h /\ d \notin entering'
        BY <2>2, <2>3, <2>5 DEF Places
    <2>7. \A h \in Managers : \A d \in inserts'[h] :
              /\ at'[d] = h /\ d \notin entering'
              /\ d \in members'[h] => d \in erases'[h]
        BY <2>2, <2>4 DEF Places
    <2>8. \A h \in Managers : \A d \in erases'[h] :
              /\ d \in members'[h]
              /\ at'[d] = h => d \in entering' \/ d \in inserts'[h]
        BY <2>2, <2>4 DEF Places
    <2>9. Here' = g
        BY <2>1, <2>2 DEF Here, TypeOK
    <2>10. \A d \in members'[g], h \in Managers : d \in Staying(h)' => h = g
        BY <2>2, <2>4, <2>5, <2>6
    <2> QED BY <2>6, <2>7, <2>8, <2>9, <2>10 DEF Places
<1>7. CASE DrainManager
    <2>1. /\ game.at = "manager" /\ game' = [game EXCEPT !.at = "tick"]
          /\ UNCHANGED <<placeVars, members>>
        BY <1>7, Managed
    <2>2. Here' = Here
        BY <2>1 DEF Here, TypeOK
    <2> QED BY <2>1, <2>2, Still
<1>8. ASSUME NEW X \in SUBSET Characters, Tick(X) PROVE Places'
    <2>1. /\ game.at = "tick"
          /\ game' \in [at : {"channel", "monsters"}, turn : 1 .. Len(Order)]
          /\ game'.at = "monsters" => game'.turn = game.turn
          /\ UNCHANGED <<placeVars, members>>
        BY <1>8, Ticked
    <2>2. game'.at = "monsters" => Here' = Here
        BY <2>1 DEF Here
    <2> QED BY <2>1, <2>2, Still
<1>9. CASE FlushMonsters
    <2>1. /\ game.at = "monsters" /\ game' = [game EXCEPT !.at = "trees"]
          /\ UNCHANGED <<placeVars, members>>
        BY <1>9, Flushed
    <2>2. Here' = Here
        BY <2>1 DEF Here, TypeOK
    <2> QED BY <2>1, <2>2, Still
<1>10. ASSUME NEW X \in SUBSET Monsters, NEW Y \in SUBSET Monsters, MonstersTick(X, Y)
       PROVE  Places'
    <2>1. game'.at = "channel" /\ UNCHANGED <<placeVars, members>>
        BY <1>10, MonstersTicked
    <2> QED BY <2>1, Still
<1>11. CASE UNCHANGED vars
    BY <1>11, Still DEF Here, vars
<1> QED BY <1>1, <1>2, <1>3, <1>4, <1>5, <1>6, <1>7, <1>8, <1>9, <1>10, <1>11
        DEF Next, Client, GameStep
LEMMA PointersStep ==
    ASSUME TypeOK, Places, Pointers, [Next]_vars
    PROVE  Pointers'
<1> USE DEF placeVars, memberVars
<1>1. ASSUME \A g \in Managers : Staying(g)' = Staying(g), UNCHANGED <<cm, escapes>>
      PROVE  Pointers'
    BY <1>1 DEF Pointers
<1>2. UNCHANGED <<members, erases>> => \A g \in Managers : Staying(g)' = Staying(g)
    BY DEF Staying
<1>3. ASSUME NEW c \in Characters, AskEscape(c) PROVE Pointers'
    <2>1. /\ Admitted(c) /\ cm[c] # None
          /\ escapes' = [escapes EXCEPT ![cm[c]] = @ \cup {c}]
          /\ UNCHANGED <<members, erases, cm>>
        BY <1>3 DEF AskEscape
    <2>2. c \in Staying(at[c]) /\ at[c] \in Managers
        BY <2>1, Entered
    <2>3. cm[c] = at[c]
        BY <2>1, <2>2 DEF Pointers
    <2>4. \A g \in Managers : escapes'[g] = IF g = at[c] THEN escapes[g] \cup {c}
                                            ELSE escapes[g]
        BY <2>1, <2>3, Facts
    <2> QED BY <1>2, <2>1, <2>2, <2>4 DEF Pointers
<1>4. ASSUME NEW c \in Characters, NEW h \in Managers, Enter(c, h) PROVE Pointers'
    <2>1. /\ \A g \in Managers : Staying(g)' = Staying(g) \ {c}
          /\ \A g \in Managers : c \notin escapes[g]
        BY <1>4, StayingEntered
    <2>2. UNCHANGED <<cm, escapes>>
        BY <1>4 DEF Enter
    <2> QED BY <2>1, <2>2 DEF Pointers
<1>5. CASE DrainChannel
    <2>1. PICK g \in Managers : g = Here
        BY Facts
    <2>2. /\ escapes' = [escapes EXCEPT ![g] = {}]
          /\ cm' = [c \in Characters |-> IF c \in inserts[g] THEN g
                                         ELSE IF c \in erases[g] THEN None ELSE cm[c]]
        BY <1>5, <2>1, Drained
    <2>3. /\ Staying(g)' = Staying(g) \cup inserts[g]
          /\ \A h \in Managers : h # g => Staying(h)' = Staying(h) /\
                \A c \in Staying(h) : c \notin inserts[g]
        BY <1>5, <2>1, StayingDrained
    <2>4. /\ escapes'[g] = {}
          /\ \A h \in Managers \ {g} : escapes'[h] = escapes[h]
        BY <2>2, Facts
    <2>5. \A h \in Managers : Staying(h) \subseteq Characters /\ inserts[h] \subseteq Characters
        BY Facts DEF Staying
    <2>6. \A c \in Characters : cm'[c] = IF c \in inserts[g] THEN g
                                         ELSE IF c \in erases[g] THEN None ELSE cm[c]
        BY <2>2
    <2>7. ASSUME NEW h \in Managers, NEW c \in Staying(h)' PROVE cm'[c] \in {None, h}
        <3>1. CASE c \in Staying(h)
            <4>1. c \in Characters /\ cm[c] \in {None, h}
                BY <2>5, <3>1 DEF Pointers
            <4>2. c \in inserts[g] => h = g
                BY <2>3, <3>1
            <4> QED BY <2>6, <4>1, <4>2
        <3>2. CASE c \notin Staying(h)
            BY <2>3, <2>5, <2>6, <3>2
        <3> QED BY <3>1, <3>2
    <2>8. \A h \in Managers : \A c \in escapes'[h] : c \in Staying(h)'
        BY <2>3, <2>4 DEF Pointers
    <2> QED BY <2>7, <2>8 DEF Pointers
<1>6. ASSUME NEW c \in Characters, NEW walk \in BOOLEAN, AskMove(c, walk)
      PROVE  Pointers'
    BY <1>1, <1>2, <1>6 DEF AskMove
<1>7. ASSUME NEW c \in Characters, AskList(c) PROVE Pointers'
    BY <1>1, <1>2, <1>7 DEF AskList
<1>8. ASSUME NEW c \in Characters, Ask(c) PROVE Pointers'
    BY <1>1, <1>2, <1>8 DEF Ask
<1>9. CASE DrainManager
    BY <1>1, <1>2, <1>9 DEF DrainManager
<1>10. ASSUME NEW X \in SUBSET Characters, Tick(X) PROVE Pointers'
    BY <1>1, <1>2, <1>10 DEF Tick
<1>11. CASE FlushMonsters
    BY <1>1, <1>2, <1>11 DEF FlushMonsters
<1>12. ASSUME NEW X \in SUBSET Monsters, NEW Y \in SUBSET Monsters, MonstersTick(X, Y)
       PROVE  Pointers'
    BY <1>1, <1>2, <1>12 DEF MonstersTick
<1>13. CASE UNCHANGED vars
    BY <1>1, <1>2, <1>13 DEF vars
<1> QED BY <1>3, <1>4, <1>5, <1>6, <1>7, <1>8, <1>9, <1>10, <1>11, <1>12, <1>13
        DEF Next, Client, GameStep

\* Messages one behind the other are about what each is about.
LEMMA Behind ==
    ASSUME NEW s \in Seq(Messages), NEW t \in Seq(Messages), NEW X,
           \A i \in 1 .. Len(s) : s[i].about \subseteq X,
           \A i \in 1 .. Len(t) : t[i].about \subseteq X
    PROVE  \A i \in 1 .. Len(s \o t) : (s \o t)[i].about \subseteq X
<1>1. PICK m \in Nat : m = Len(s)
    OBVIOUS
<1>2. PICK n \in Nat : n = Len(t)
    OBVIOUS
<1>3. /\ Len(s \o t) = m + n
      /\ \A i \in 1 .. m : (s \o t)[i] = s[i]
      /\ \A i \in 1 .. n : (s \o t)[m + i] = t[i]
    BY <1>1, <1>2
<1>4. ASSUME NEW i \in 1 .. m + n, i > m PROVE \E j \in 1 .. n : i = m + j
    <2>1. i - m \in 1 .. n /\ i = m + (i - m)
        BY <1>4
    <2> QED BY <2>1
<1>5. ASSUME NEW i \in 1 .. m + n PROVE (s \o t)[i].about \subseteq X
    <2>1. CASE i \in 1 .. m
        BY <1>1, <1>3, <2>1
    <2>2. CASE i > m
        BY <1>2, <1>3, <1>4, <2>2
    <2>3. i \in 1 .. m \/ i > m
        OBVIOUS
    <2> QED BY <2>1, <2>2, <2>3
<1> QED BY <1>3, <1>5

\* Between the steps of the CharacterManagers messages are about monsters.
LEMMA AboutMonsters ==
    ASSUME Mail, NEW g \in Managers,
           game.at \notin {"manager", "dead"} \/ Here # g
    PROVE  \A i \in 1 .. Len(sends[g]) : sends[g][i].about \subseteq Monsters
BY DEF Mail

LEMMA MailStep ==
    ASSUME TypeOK, Places, Pointers, Mail, [Next]_vars
    PROVE  Mail'
<1> USE DEF placeVars, memberVars, toldVars
<1>1. sends \in [Managers -> Seq(Messages)]
    BY DEF TypeOK
<1>2. ASSUME NEW X, NEW g \in Managers, sends'[g] = AwayIn(sends, X)[g],
             game.at \notin {"manager", "dead"} \/ Here # g \/ game' = game
      PROVE  \A i \in 1 .. Len(sends'[g]) :
                 \/ sends'[g][i].about \subseteq Monsters
                 \/ game'.at \in {"manager", "dead"} /\ Here' = g
    <2>1. /\ Len(sends'[g]) = Len(sends[g])
          /\ \A i \in 1 .. Len(sends[g]) : sends'[g][i].about = sends[g][i].about
        BY <1>1, <1>2, AwayMessages
    <2>2. game' = game => Here' = Here
        BY DEF Here
    <2> QED BY <1>2, <2>1, <2>2 DEF Mail
<1>3. ASSUME NEW c \in Characters, NEW h \in Managers, Enter(c, h) PROVE Mail'
    BY <1>2, <1>3 DEF Enter, Mail
<1>4. CASE DrainChannel
    <2>1. PICK g \in Managers : g = Here
        BY Facts
    <2>2. /\ game.at = "channel"
          /\ game' \in {[game EXCEPT !.at = "manager"], [game EXCEPT !.at = "dead"]}
          /\ \A h \in Managers \ {g} : sends'[h] = AwayIn(sends, escapes[g])[h]
        BY <1>4, <2>1, Drained
    <2>3. Here' = g /\ game'.at \in {"manager", "dead"}
        BY <2>1, <2>2 DEF Here, TypeOK
    <2>4. \A h \in Managers \ {g} : \A i \in 1 .. Len(sends'[h]) :
              \/ sends'[h][i].about \subseteq Monsters
              \/ game'.at \in {"manager", "dead"} /\ Here' = h
        BY <1>2, <2>2
    <2> QED BY <2>3, <2>4 DEF Mail
<1>5. CASE DrainManager
    <2>1. PICK g \in Managers : g = Here
        BY Facts
    <2>2. sends' = [sends EXCEPT ![g] = <<>>]
        BY <1>5, <2>1, Managed
    <2>3. sends'[g] = <<>> /\ \A h \in Managers \ {g} : sends'[h] = sends[h]
        BY <1>1, <2>2
    <2>4. \A i \in 1 .. Len(sends'[g]) : FALSE
        BY <2>3
    <2>5. \A h \in Managers \ {g} : \A i \in 1 .. Len(sends'[h]) :
              sends'[h][i].about \subseteq Monsters
        BY <2>1, <2>3, AboutMonsters
    <2> QED BY <2>4, <2>5 DEF Mail
<1>6. ASSUME NEW X \in SUBSET Characters, Tick(X) PROVE Mail'
    <2>1. game.at = "tick" /\ sends' = AwayIn(sends, X)
        BY <1>6, Ticked
    <2> QED BY <1>2, <2>1 DEF Mail
<1>7. CASE FlushMonsters
    <2>1. PICK t \in Seq(Messages) :
              /\ sends' = [sends EXCEPT ![Den] = @ \o t]
              /\ \A i \in 1 .. Len(t) : t[i].about \subseteq Monsters
        BY <1>7, Flushed
    <2>2. game.at = "monsters" /\ Den \in Managers
        BY <1>7, Flushed, Facts
    <2>3. \A h \in Managers : \A i \in 1 .. Len(sends[h]) :
              sends[h][i].about \subseteq Monsters
        BY <2>2, AboutMonsters
    <2>4. PICK s \in Seq(Messages) : s = sends[Den]
        BY <1>1, <2>2
    <2>5. \A i \in 1 .. Len(s \o t) : (s \o t)[i].about \subseteq Monsters
        BY <2>1, <2>2, <2>3, <2>4, Behind
    <2>6. sends'[Den] = s \o t /\ \A h \in Managers \ {Den} : sends'[h] = sends[h]
        BY <1>1, <2>1, <2>2, <2>4
    <2> QED BY <2>3, <2>5, <2>6 DEF Mail
<1>8. ASSUME NEW X \in SUBSET Monsters, NEW Y \in SUBSET Monsters, MonstersTick(X, Y)
      PROVE  Mail'
    <2>1. /\ game.at = "trees" /\ Den \in Managers
          /\ \A h \in Managers \ {Den} : sends'[h] = AwayIn(sends, X \cup Y)[h]
          /\ sends'[Den] = AwayIn(sends, X \cup Y)[Den] \o
                              (IF Y = {} THEN <<>> ELSE <<[about |-> Y, now |-> Y]>>)
        BY <1>8, MonstersTicked
    <2>2. PICK s \in Seq(Messages) : s = AwayIn(sends, X \cup Y)[Den]
        BY <1>1, <2>1, AwayMessages
    <2>3. \A i \in 1 .. Len(s) : s[i].about \subseteq Monsters
        BY <1>1, <2>1, <2>2, AwayMessages, AboutMonsters
    <2>4. PICK t : t = IF Y = {} THEN <<>> ELSE <<[about |-> Y, now |-> Y]>>
        OBVIOUS
    <2>5. [about |-> Y, now |-> Y] \in Messages
        BY DEF Messages, Things
    <2>6. t \in Seq(Messages) /\ \A i \in 1 .. Len(t) : t[i].about \subseteq Monsters
        BY <2>4, <2>5
    <2>7. \A i \in 1 .. Len(s \o t) : (s \o t)[i].about \subseteq Monsters
        BY <2>3, <2>6, Behind
    <2>8. \A i \in 1 .. Len(sends'[Den]) : sends'[Den][i].about \subseteq Monsters
        BY <2>1, <2>2, <2>4, <2>7
    <2>9. \A h \in Managers \ {Den} : \A i \in 1 .. Len(sends'[h]) :
              \/ sends'[h][i].about \subseteq Monsters
              \/ game'.at \in {"manager", "dead"} /\ Here' = h
        BY <1>2, <2>1
    <2> QED BY <2>8, <2>9 DEF Mail
<1>9. UNCHANGED <<sends, game>> => Mail'
    BY DEF Mail, Here
<1>10. CASE UNCHANGED vars
    BY <1>9, <1>10 DEF vars
<1>11. ASSUME NEW c \in Characters,
              \/ \E walk \in BOOLEAN : AskMove(c, walk)
              \/ AskList(c) \/ AskEscape(c) \/ Ask(c)
       PROVE  Mail'
    BY <1>9, <1>11 DEF AskMove, AskList, AskEscape, Ask
<1> QED BY <1>3, <1>4, <1>5, <1>6, <1>7, <1>8, <1>10, <1>11
        DEF Next, Client, GameStep
LEMMA RequestsStep ==
    ASSUME TypeOK, Places, Pointers, Requests, [Next]_vars
    PROVE  Requests'
<1> USE DEF placeVars, memberVars
<1> DEFINE Fine(f, g) ==
        \/ f.op # "move"
        \/ at[f.c] = g
        \/ f.c \in erases[g]
        \/ /\ game.at \in {"manager", "dead"} /\ Here = g
           /\ f.c \in Staying(at[f.c]) => cm[f.c] = None
       Remains(f, g) ==
        \/ f.op # "move"
        \/ at'[f.c] = g
        \/ f.c \in erases'[g]
        \/ /\ game'.at \in {"manager", "dead"} /\ Here' = g
           /\ f.c \in members'[at'[f.c]] \ erases'[at'[f.c]] => cm'[f.c] = None
<1>1. \A g \in Managers : \A i \in 1 .. Len(funcs[g]) :
          funcs[g][i] \in Functions /\ Fine(funcs[g][i], g)
    <2>1. \A g \in Managers : funcs[g] \in Seq(Functions)
        BY DEF TypeOK
    <2>2. \A g \in Managers : \A i \in 1 .. Len(funcs[g]) : funcs[g][i] \in Functions
        BY <2>1
    <2> QED BY <2>2 DEF Requests
<1>2. ASSUME \A g \in Managers : \A i \in 1 .. Len(funcs'[g]) : Remains(funcs'[g][i], g)
      PROVE  Requests'
    BY <1>2 DEF Requests, Staying
<1>3. ASSUME UNCHANGED <<at, erases, members, cm, game>>, NEW f, NEW g, Fine(f, g)
      PROVE  Remains(f, g)
    <2>1. Here' = Here
        BY <1>3 DEF Here
    <2> QED BY <1>3, <2>1 DEF Staying
<1>4. ASSUME NEW c \in Characters, NEW walk \in BOOLEAN, AskMove(c, walk)
      PROVE  Requests'
    <2>1. PICK f : f = [op |-> "move", c |-> c, walk |-> walk]
        OBVIOUS
    <2>2. at[c] \in Managers /\ f \in Functions /\ f.c = c
        BY <2>1 DEF TypeOK, Functions
    <2>3. funcs' = [funcs EXCEPT ![at[c]] = Append(@, f)]
        BY <1>4, <2>1 DEF AskMove
    <2>4. UNCHANGED <<at, erases, members, cm, game>>
        BY <1>4 DEF AskMove
    <2>5. ASSUME NEW g \in Managers, NEW i \in 1 .. Len(funcs'[g])
          PROVE  Fine(funcs'[g][i], g)
        <3>1. CASE g = at[c]
            <4>1. \/ funcs'[g][i] = f
                  \/ i \in 1 .. Len(funcs[g]) /\ funcs'[g][i] = funcs[g][i]
                BY <2>2, <2>3, <3>1, Asked
            <4> QED BY <1>1, <2>2, <3>1, <4>1
        <3>2. CASE g # at[c]
            <4>1. funcs'[g] = funcs[g]
                BY <2>2, <2>3, <3>2, Asked
            <4> QED BY <1>1, <4>1
        <3> QED BY <3>1, <3>2
    <2>6. \A g \in Managers : \A i \in 1 .. Len(funcs'[g]) : Remains(funcs'[g][i], g)
        <3> HIDE DEF Fine, Remains
        <3> QED BY <1>3, <2>4, <2>5
    <2> HIDE DEF Fine, Remains
    <2> QED BY <1>2, <2>6
<1>5. ASSUME NEW c \in Characters, AskList(c) PROVE Requests'
    <2>1. PICK f : f = [op |-> "list", c |-> c, walk |-> FALSE]
        OBVIOUS
    <2>2. cm[c] \in Managers /\ f \in Functions /\ f.op # "move"
        BY <1>5, <2>1, Facts DEF AskList, Functions
    <2>3. funcs' = [funcs EXCEPT ![cm[c]] = Append(@, f)]
        BY <1>5, <2>1 DEF AskList
    <2>4. UNCHANGED <<at, erases, members, cm, game>>
        BY <1>5 DEF AskList
    <2>5. ASSUME NEW g \in Managers, NEW i \in 1 .. Len(funcs'[g])
          PROVE  Fine(funcs'[g][i], g)
        <3>1. CASE g = cm[c]
            <4>1. \/ funcs'[g][i] = f
                  \/ i \in 1 .. Len(funcs[g]) /\ funcs'[g][i] = funcs[g][i]
                BY <2>2, <2>3, <3>1, Asked
            <4> QED BY <1>1, <2>2, <3>1, <4>1
        <3>2. CASE g # cm[c]
            <4>1. funcs'[g] = funcs[g]
                BY <2>2, <2>3, <3>2, Asked
            <4> QED BY <1>1, <4>1
        <3> QED BY <3>1, <3>2
    <2>6. \A g \in Managers : \A i \in 1 .. Len(funcs'[g]) : Remains(funcs'[g][i], g)
        <3> HIDE DEF Fine, Remains
        <3> QED BY <1>3, <2>4, <2>5
    <2> HIDE DEF Fine, Remains
    <2> QED BY <1>2, <2>6
<1>6. ASSUME NEW c \in Characters, NEW h \in Managers, Enter(c, h) PROVE Requests'
    <2>1. /\ \A g \in Managers : Staying(g)' = Staying(g) \ {c}
          /\ \A g \in Managers : erases[g] \subseteq erases'[g]
          /\ c \in erases'[at[c]]
          /\ at'[c] = h /\ \A d \in Characters \ {c} : at'[d] = at[d]
        BY <1>6, StayingEntered
    <2>2. UNCHANGED <<game, funcs, cm>>
        BY <1>6 DEF Enter
    <2>3. Here' = Here
        BY <2>2 DEF Here
    <2>4. ASSUME NEW g \in Managers, NEW i \in 1 .. Len(funcs'[g])
          PROVE  Remains(funcs'[g][i], g)
        <3>1. PICK f \in Functions : f = funcs[g][i] /\ Fine(f, g) /\ f = funcs'[g][i]
            BY <1>1, <2>2
        <3>2. f.c \in Characters
            BY DEF Functions
        <3>3. CASE f.c = c
            <4>1. at'[c] \in Managers /\ c \notin Staying(h)'
                BY <2>1
            <4>3. c \notin members'[at'[c]] \ erases'[at'[c]]
                BY <2>1, <4>1 DEF Staying
            <4>4. f.op # "move" \/ f.c \in erases'[g] \/
                     (game.at \in {"manager", "dead"} /\ Here = g)
                BY <2>1, <3>1, <3>3
            <4>6. Remains(f, g)
                BY <2>2, <2>3, <3>3, <4>3, <4>4
            <4> HIDE DEF Fine, Remains
            <4> QED BY <3>1, <4>6
        <3>4. CASE f.c # c
            <4>1. at'[f.c] = at[f.c] /\ at[f.c] \in Managers
                BY <2>1, <3>2, <3>4 DEF TypeOK
            <4>2. PICK a \in Managers : a = at[f.c]
                BY <4>1
            <4>4. Staying(a)' = Staying(a) \ {c}
                BY <2>1
            <4>5. f.c \in members'[at'[f.c]] \ erases'[at'[f.c]]
                      => f.c \in Staying(at[f.c])
                BY <4>1, <4>2, <4>4 DEF Staying
            <4>6. Remains(f, g)
                BY <2>1, <2>2, <2>3, <3>1, <4>1, <4>5
            <4> HIDE DEF Fine, Remains
            <4> QED BY <3>1, <4>6
        <3> QED BY <3>3, <3>4
    <2> HIDE DEF Fine, Remains
    <2> QED BY <1>2, <2>4
<1>7. CASE DrainChannel
    <2>1. PICK g \in Managers : g = Here
        BY Facts
    <2>2. /\ game.at = "channel"
          /\ game' \in {[game EXCEPT !.at = "manager"], [game EXCEPT !.at = "dead"]}
          /\ erases' = [erases EXCEPT ![g] = {}]
          /\ cm' = [c \in Characters |-> IF c \in inserts[g] THEN g
                                         ELSE IF c \in erases[g] THEN None ELSE cm[c]]
          /\ UNCHANGED <<at, funcs>>
        BY <1>7, <2>1, Drained
    <2>3. Here' = g /\ game'.at \in {"manager", "dead"}
        BY <2>1, <2>2 DEF Here, TypeOK
    <2>4. \A h \in Managers \ {g} : erases'[h] = erases[h]
        BY <2>2, Facts
    <2>5. ASSUME NEW h \in Managers, NEW i \in 1 .. Len(funcs'[h])
          PROVE  Remains(funcs'[h][i], h)
        <3>1. PICK f \in Functions : f = funcs[h][i] /\ Fine(f, h) /\ f = funcs'[h][i]
            BY <1>1, <2>2
        <3>2. f.op # "move" \/ at[f.c] = h \/ f.c \in erases[h]
            BY <2>2, <3>1
        <3>3. f.c \in erases[h] /\ at[f.c] # h /\ h = g => cm'[f.c] = None
            BY <2>2, Facts DEF Places, Functions
        <3>4. Remains(f, h)
            BY <2>2, <2>3, <2>4, <3>2, <3>3
        <3> HIDE DEF Fine, Remains
        <3> QED BY <3>1, <3>4
    <2> HIDE DEF Fine, Remains
    <2> QED BY <1>2, <2>5
<1>8. CASE DrainManager
    <2>1. PICK g \in Managers : g = Here
        BY Facts
    <2>2. /\ funcs' = [funcs EXCEPT ![g] = <<>>]
          /\ UNCHANGED <<at, erases, members, cm>>
        BY <1>8, <2>1, Managed
    <2>3. funcs'[g] = <<>> /\ \A h \in Managers \ {g} : funcs'[h] = funcs[h]
        BY <2>2 DEF TypeOK
    <2>4. \A i \in 1 .. Len(funcs'[g]) : FALSE
        BY <2>3
    <2>5. ASSUME NEW h \in Managers, NEW i \in 1 .. Len(funcs'[h])
          PROVE  Remains(funcs'[h][i], h)
        <3>1. h # g
            BY <2>4
        <3>2. PICK f \in Functions : f = funcs[h][i] /\ Fine(f, h) /\ f = funcs'[h][i]
            BY <1>1, <2>3, <3>1
        <3>3. f.op # "move" \/ at[f.c] = h \/ f.c \in erases[h]
            BY <2>1, <3>1, <3>2
        <3>4. Remains(f, h)
            BY <2>2, <3>3
        <3> HIDE DEF Fine, Remains
        <3> QED BY <3>2, <3>4
    <2> HIDE DEF Fine, Remains
    <2> QED BY <1>2, <2>5
<1>9. ASSUME game.at \notin {"manager", "dead"}, UNCHANGED <<at, erases, funcs>>
      PROVE  Requests'
    <2>1. ASSUME NEW h \in Managers, NEW i \in 1 .. Len(funcs'[h])
          PROVE  Remains(funcs'[h][i], h)
        <3>1. PICK f : f = funcs[h][i] /\ Fine(f, h) /\ f = funcs'[h][i]
            BY <1>1, <1>9
        <3>2. Remains(f, h)
            BY <1>9, <3>1
        <3> HIDE DEF Fine, Remains
        <3> QED BY <3>1, <3>2
    <2> HIDE DEF Fine, Remains
    <2> QED BY <1>2, <2>1
<1>10. ASSUME NEW X \in SUBSET Characters, Tick(X) PROVE Requests'
    BY <1>9, <1>10 DEF Tick
<1>11. CASE FlushMonsters
    BY <1>9, <1>11 DEF FlushMonsters
<1>12. ASSUME NEW X \in SUBSET Monsters, NEW Y \in SUBSET Monsters, MonstersTick(X, Y)
       PROVE  Requests'
    BY <1>9, <1>12 DEF MonstersTick
<1>13. ASSUME UNCHANGED <<at, erases, members, cm, game, funcs>> PROVE Requests'
    BY <1>13 DEF Requests, Staying, Here
<1>14. ASSUME NEW c \in Characters, AskEscape(c) PROVE Requests'
    BY <1>13, <1>14 DEF AskEscape
<1>15. ASSUME NEW c \in Characters, Ask(c) PROVE Requests'
    BY <1>13, <1>15 DEF Ask
<1>16. CASE UNCHANGED vars
    BY <1>13, <1>16 DEF vars
<1> HIDE DEF Fine, Remains
<1> QED BY <1>4, <1>5, <1>6, <1>7, <1>8, <1>10, <1>11, <1>12, <1>14, <1>15, <1>16
        DEF Next, Client, GameStep
\* What was known of a thing that stays where it is.
LEMMA StillKnown ==
    ASSUME TypeOK, NEW X, NEW g \in Managers, NEW k, NEW l, NEW x,
           x \notin X, x \in k => x \in l, x \in Told(k, sends[g])
    PROVE  x \in Told(l, AwayIn(sends, X)[g])
<1>1. sends \in [Managers -> Seq(Messages)]
    BY DEF TypeOK
<1>2. x \in Told(l, sends[g])
    BY ToldMore
<1> QED BY <1>1, <1>2, ToldAway

\* True messages behind others.
LEMMA ToldBehind ==
    ASSUME NEW s \in Seq(Messages), NEW t \in Seq(Messages), NEW k, NEW x,
           \A i \in 1 .. Len(t) : t[i].now = t[i].about,
           x \in Told(k, s) \/ \E i \in 1 .. Len(t) : x \in t[i].about
    PROVE  x \in Told(k, s \o t)
BY ToldInTurn, ToldAll

\* A message about X, unless X is empty.
LEMMA OneMore ==
    ASSUME NEW X \in SUBSET Things, NEW t,
           t = IF X = {} THEN <<>> ELSE <<[about |-> X, now |-> X]>>
    PROVE  /\ t \in Seq(Messages)
           /\ \A i \in 1 .. Len(t) : t[i].now = t[i].about /\ t[i].about = X
           /\ X # {} => \E i \in 1 .. Len(t) : t[i].about = X
<1>1. [about |-> X, now |-> X] \in Messages
    BY DEF Messages
<1>2. CASE X = {}
    BY <1>2
<1>3. CASE X # {}
    <2>1. PICK m : m = [about |-> X, now |-> X]
        OBVIOUS
    <2>2. m \in Messages /\ m.now = m.about /\ m.about = X
        BY <1>1, <2>1
    <2>3. <<m>> \in Seq(Messages) /\ Len(<<m>>) = 1 /\ <<m>>[1] = m
        BY <2>2
    <2>4. 1 \in 1 .. Len(<<m>>) /\ \A i \in 1 .. Len(<<m>>) : i = 1
        BY <2>3
    <2> QED BY <1>3, <2>1, <2>2, <2>3, <2>4
<1> QED BY <1>2, <1>3

\* Between the steps of the CharacterManagers clients know of characters what
\* they have heard.
LEMMA HeardOfOthers ==
    ASSUME TypeOK, Mail, NEW g \in Managers, NEW X, NEW k, NEW x, x \notin Monsters,
           game.at \notin {"manager", "dead"} \/ Here # g
    PROVE  x \in Told(k, AwayIn(sends, X)[g]) <=> x \in k
<1>1. sends \in [Managers -> Seq(Messages)]
    BY DEF TypeOK
<1>2. PICK s \in Seq(Messages) : s = AwayIn(sends, X)[g]
    BY <1>1, AwayMessages
<1>3. \A i \in 1 .. Len(s) : x \notin s[i].about
    BY <1>1, <1>2, AwayMessages, AboutMonsters
<1> QED BY <1>2, <1>3, NotTold

LEMMA MonstersStep ==
    ASSUME TypeOK, Places, Pointers, Mail, MonstersSettle, [Next]_vars
    PROVE  MonstersSettle'
<1> USE DEF placeVars, memberVars, toldVars
<1>1. SUFFICES ASSUME game'.at # "dead", Den \in Managers, NEW x \in Monsters
               PROVE  x \in Told(Monsters, sends'[Den]) \cup changed'
    BY DEF MonstersSettle
<1>2. /\ sends \in [Managers -> Seq(Messages)]
      /\ x \notin Characters /\ x \in Things
    BY Constants DEF TypeOK, Things
<1>3. game.at # "dead" => x \in Told(Monsters, sends[Den]) \cup changed
    BY <1>1 DEF MonstersSettle
<1>4. ASSUME game.at # "dead", NEW X, x \notin X, sends'[Den] = AwayIn(sends, X)[Den],
             x \in changed => x \in changed'
      PROVE  x \in Told(Monsters, sends'[Den]) \cup changed'
    BY <1>1, <1>3, <1>4, StillKnown
<1>5. ASSUME NEW c \in Characters, NEW h \in Managers, Enter(c, h), game.at # "dead"
      PROVE  x \in Told(Monsters, sends'[Den]) \cup changed'
    BY <1>2, <1>4, <1>5 DEF Enter
<1>6. CASE DrainChannel
    <2>1. PICK g \in Managers : g = Here
        BY Facts
    <2>2. PICK fled : fled = escapes[g]
        OBVIOUS
    <2>3. /\ game.at = "channel" /\ changed' = changed \ inserts[g]
          /\ \A h \in Managers \ {g} : sends'[h] = AwayIn(sends, fled)[h]
          /\ sends'[g] = AwayIn(sends, fled)[g] \o
                             (IF fled = {} THEN <<>>
                              ELSE <<[about |-> fled, now |-> fled]>>)
        BY <1>1, <1>6, <2>1, <2>2, Drained
    <2>4. x \notin inserts[g] /\ fled \subseteq Things /\ x \notin fled
        BY <1>2, <2>2, Facts DEF Things
    <2>5. CASE Den # g
        BY <1>1, <1>4, <2>3, <2>4, <2>5
    <2>6. CASE Den = g
        <3>1. x \in changed => x \in changed'
            BY <2>3, <2>4
        <3>2. CASE x \notin changed
            <4>1. x \in Told(Monsters, sends[Den])
                BY <1>3, <2>3, <3>2
            <4>2. x \in Told(Monsters, AwayIn(sends, fled)[Den])
                BY <1>1, <2>4, <4>1, StillKnown
            <4>3. PICK s \in Seq(Messages) : s = AwayIn(sends, fled)[Den]
                BY <1>1, <1>2, AwayMessages
            <4>4. PICK t : t = IF fled = {} THEN <<>>
                               ELSE <<[about |-> fled, now |-> fled]>>
                OBVIOUS
            <4>5. t \in Seq(Messages) /\ \A i \in 1 .. Len(t) : t[i].now = t[i].about
                BY <2>4, <4>4, OneMore
            <4>6. x \in Told(Monsters, s \o t)
                BY <4>2, <4>3, <4>5, ToldBehind
            <4> QED BY <2>3, <2>6, <4>3, <4>4, <4>6
        <3> QED BY <3>1, <3>2
    <2> QED BY <2>5, <2>6
<1>7. CASE DrainManager
    <2>1. PICK g \in Managers : g = Here
        BY Facts
    <2>2. /\ game.at = "manager" /\ changed' = changed
          /\ sends' = [sends EXCEPT ![g] = <<>>]
        BY <1>7, <2>1, Managed
    <2>3. sends'[Den] = IF g = Den THEN <<>> ELSE sends[Den]
        BY <1>1, <1>2, <2>2
    <2> QED BY <1>1, <1>3, <2>2, <2>3, ToldNothing
<1>8. ASSUME NEW X \in SUBSET Characters, Tick(X)
      PROVE  x \in Told(Monsters, sends'[Den]) \cup changed'
    <2>1. /\ game.at = "tick" /\ sends' = AwayIn(sends, X)
          /\ changed' \in {changed \cup X, (changed \cup X) \ members[Here]}
        BY <1>8, Ticked
    <2>2. x \notin X /\ x \notin members[Here]
        BY <1>2, Facts
    <2>3. x \in changed => x \in changed'
        BY <2>1, <2>2
    <2> QED BY <1>4, <2>1, <2>2, <2>3
<1>9. CASE FlushMonsters
    <2>1. PICK t \in Seq(Messages) :
              /\ sends' = [sends EXCEPT ![Den] = @ \o t]
              /\ \A i \in 1 .. Len(t) : t[i].now = t[i].about
              /\ x \in changed =>
                    x \in changed' \/ \E i \in 1 .. Len(t) : x \in t[i].about
        BY <1>1, <1>9, Flushed
    <2>2. PICK s \in Seq(Messages) : s = sends[Den]
        BY <1>1, <1>2
    <2>3. sends'[Den] = s \o t
        BY <1>1, <1>2, <2>1, <2>2
    <2>4. game.at = "monsters"
        BY <1>9, Flushed
    <2>5. \/ x \in Told(Monsters, s) \/ x \in changed'
          \/ \E i \in 1 .. Len(t) : x \in t[i].about
        BY <1>3, <2>1, <2>2, <2>4
    <2>6. x \in Told(Monsters, s \o t) \cup changed'
        BY <2>1, <2>5, ToldBehind
    <2> QED BY <2>3, <2>6
<1>10. ASSUME NEW X \in SUBSET Monsters, NEW Y \in SUBSET Monsters, MonstersTick(X, Y)
       PROVE  x \in Told(Monsters, sends'[Den]) \cup changed'
    <2>1. /\ game.at = "trees" /\ changed' = changed \cup X
          /\ sends'[Den] = AwayIn(sends, X \cup Y)[Den] \o
                               (IF Y = {} THEN <<>> ELSE <<[about |-> Y, now |-> Y]>>)
        BY <1>10, MonstersTicked
    <2>2. CASE x \in X \cup changed
        BY <2>1, <2>2
    <2>3. CASE x \notin X /\ x \notin changed
        <3>1. Y \in SUBSET Things
            BY DEF Things
        <3>2. PICK s \in Seq(Messages) : s = AwayIn(sends, X \cup Y)[Den]
            BY <1>1, <1>2, AwayMessages
        <3>3. PICK t : t = IF Y = {} THEN <<>> ELSE <<[about |-> Y, now |-> Y]>>
            OBVIOUS
        <3>4. /\ t \in Seq(Messages)
              /\ \A i \in 1 .. Len(t) : t[i].now = t[i].about
              /\ Y # {} => \E i \in 1 .. Len(t) : t[i].about = Y
            BY <3>1, <3>3, OneMore
        <3>5. x \in Told(Monsters, s) \/ \E i \in 1 .. Len(t) : x \in t[i].about
            <4>1. CASE x \in Y
                BY <3>4, <4>1
            <4>2. CASE x \notin Y
                <5>1. x \in Told(Monsters, sends[Den]) /\ x \notin X \cup Y
                    BY <1>3, <2>1, <2>3, <4>2
                <5> QED BY <1>1, <3>2, <5>1, StillKnown
            <4> QED BY <4>1, <4>2
        <3>6. x \in Told(Monsters, s \o t)
            BY <3>4, <3>5, ToldBehind
        <3> QED BY <2>1, <3>2, <3>3, <3>6
    <2> QED BY <2>2, <2>3
<1>11. ASSUME UNCHANGED <<sends, changed, game>>
       PROVE  x \in Told(Monsters, sends'[Den]) \cup changed'
    BY <1>1, <1>3, <1>11
<1>12. CASE UNCHANGED vars
    BY <1>11, <1>12 DEF vars
<1>13. ASSUME NEW c \in Characters,
              \/ \E walk \in BOOLEAN : AskMove(c, walk)
              \/ AskList(c) \/ AskEscape(c) \/ Ask(c)
       PROVE  x \in Told(Monsters, sends'[Den]) \cup changed'
    BY <1>11, <1>13 DEF AskMove, AskList, AskEscape, Ask
<1> QED BY <1>5, <1>6, <1>7, <1>8, <1>9, <1>10, <1>12, <1>13
        DEF Next, Client, GameStep
LEMMA PositionsStep ==
    ASSUME TypeOK, Places, Pointers, Mail, MonstersSettle, PositionsSettle, [Next]_vars
    PROVE  PositionsSettle'
<1> USE DEF placeVars, memberVars, toldVars
<1> DEFINE Near(h, x) == x \in Staying(h)' \/ (h = Den /\ x \in Monsters)
           Known(h, d, x) == x \in Told(knows'[d], sends'[h]) \/ x \in changed'
<1>1. ASSUME game'.at # "dead" => \A h \in Managers : \A d \in Staying(h)' :
                 \A x \in Things : Near(h, x) => Known(h, d, x),
             TypeOK'
      PROVE  PositionsSettle'
    <2>1. \A h \in Managers : Staying(h)' \subseteq Things
        BY <1>1 DEF TypeOK, Staying, Things
    <2>2. \A h \in Managers : \A x \in Around(h)' : x \in Things /\ Near(h, x)
        BY <2>1 DEF Around, Things
    <2> HIDE DEF Near
    <2> QED BY <1>1, <2>2 DEF PositionsSettle, Coming
<1>2. TypeOK'
    BY TypeStep
<1>3. SUFFICES ASSUME game'.at # "dead", NEW h \in Managers, NEW d \in Staying(h)',
                      NEW x \in Things, Near(h, x)
               PROVE  Known(h, d, x)
    <2> HIDE DEF Near, Known
    <2> QED BY <1>1, <1>2
<1>4. /\ sends \in [Managers -> Seq(Messages)]
      /\ \A c \in Characters : c \notin Monsters
      /\ \A g \in Managers : /\ Staying(g) \subseteq Characters
                             /\ members[g] \subseteq Characters
                             /\ inserts[g] \subseteq Characters
    BY Constants, Facts DEF TypeOK, Staying
<1>5. ASSUME game.at # "dead", d \in Staying(h),
             x \in Staying(h) \/ (h = Den /\ x \in Monsters)
      PROVE  x \in Told(knows[d], sends[h]) \/ x \in changed
    BY <1>3, <1>5 DEF PositionsSettle, Around, Coming
<1>6. ASSUME game.at # "dead", UNCHANGED <<sends, changed, knows>>,
             d \in Staying(h), x \in Staying(h) \/ (h = Den /\ x \in Monsters)
      PROVE  Known(h, d, x)
    BY <1>5, <1>6
<1>7. UNCHANGED <<members, erases>> => Staying(h)' = Staying(h)
    BY DEF Staying
<1>8. ASSUME NEW c \in Characters, game.at # "dead",
              \/ \E walk \in BOOLEAN : AskMove(c, walk)
              \/ AskList(c) \/ AskEscape(c) \/ Ask(c)
       PROVE  Known(h, d, x)
    <2>1. UNCHANGED <<sends, changed, knows, members, erases>>
        BY <1>8 DEF AskMove, AskList, AskEscape, Ask
    <2> QED BY <1>3, <1>6, <1>7, <1>8, <2>1
<1>9. ASSUME NEW c \in Characters, NEW g \in Managers, Enter(c, g), game.at # "dead"
      PROVE  Known(h, d, x)
    <2>1. /\ Staying(h)' = Staying(h) \ {c}
          /\ \A e \in Characters \ {c} : knows'[e] = knows[e] \ {c}
          /\ sends' = AwayIn(sends, {c})
        BY <1>9, StayingEntered
    <2>2. changed' = changed
        BY <1>9 DEF Enter
    <2>3. d \in Characters \ {c} /\ d \in Staying(h) /\ x # c
        BY <1>3, <1>4, <2>1
    <2>4. x \in Told(knows[d], sends[h]) \/ x \in changed
        BY <1>3, <1>5, <1>9, <2>1, <2>3
    <2>5. x \in knows[d] => x \in knows'[d]
        BY <2>1, <2>3
    <2>6. x \in Told(knows[d], sends[h]) => x \in Told(knows'[d], AwayIn(sends, {c})[h])
        BY <2>3, <2>5, StillKnown
    <2> QED BY <2>1, <2>2, <2>4, <2>6
<1>10. CASE DrainChannel
    <2>1. PICK g \in Managers : g = Here
        BY Facts
    <2>2. PICK fled : fled = escapes[g]
        OBVIOUS
    <2>3. PICK t : t = IF fled = {} THEN <<>> ELSE <<[about |-> fled, now |-> fled]>>
        OBVIOUS
    <2>4. /\ game.at = "channel" /\ changed' = changed \ inserts[g]
          /\ \A e \in inserts[g] : knows'[e] =
                (Staying(g) \cup inserts[g] \cup (IF g = Den THEN Monsters ELSE {})) \ fled
          /\ \A e \in Staying(g) : knows'[e] = (knows[e] \cup inserts[g]) \ fled
          /\ \A e \in Characters \ (Staying(g) \cup inserts[g]) : knows'[e] = knows[e] \ fled
          /\ \A i \in Managers \ {g} : sends'[i] = AwayIn(sends, fled)[i]
          /\ sends'[g] = AwayIn(sends, fled)[g] \o t
        BY <1>3, <1>10, <2>1, <2>2, <2>3, Drained
    <2>5. /\ h = g => Staying(h)' = Staying(h) \cup inserts[h]
          /\ h # g => Staying(h)' = Staying(h) /\ \A c \in Staying(h) :
                c \notin inserts[g] /\ c \notin Staying(g)
        BY <1>10, <2>1, StayingDrained
    <2>6. fled \subseteq Staying(g) /\ \A c \in inserts[g] : c \notin Staying(g)
        BY <2>2 DEF Pointers, Places, Staying
    <2>7. CASE h # g
        <3>1. /\ d \in Staying(h) /\ d \in Characters \ (Staying(g) \cup inserts[g])
              /\ x \in Staying(h) \/ (h = Den /\ x \in Monsters)
              /\ x \notin fled /\ x \notin inserts[g]
            BY <1>3, <1>4, <2>5, <2>6, <2>7
        <3>2. x \in Told(knows[d], sends[h]) \/ x \in changed
            BY <1>5, <2>4, <3>1
        <3>3. x \in knows[d] => x \in knows'[d]
            BY <2>4, <3>1
        <3>4. x \in Told(knows[d], sends[h]) => x \in Told(knows'[d], AwayIn(sends, fled)[h])
            BY <3>1, <3>3, StillKnown
        <3> QED BY <2>4, <2>7, <3>1, <3>2, <3>4
    <2>8. CASE h = g
        <3>1. PICK s \in Seq(Messages) : s = AwayIn(sends, fled)[g]
            BY <1>4, AwayMessages
        <3>2. fled \subseteq Things
            BY <1>4, <2>6 DEF Things
        <3>3. /\ t \in Seq(Messages) /\ \A i \in 1 .. Len(t) : t[i].now = t[i].about
              /\ x \in fled => \E i \in 1 .. Len(t) : x \in t[i].about
            BY <2>3, <3>2, OneMore
        <3>4. sends'[h] = s \o t
            BY <2>4, <2>8, <3>1
        <3>5. SUFFICES ASSUME x \notin fled, x \notin changed'
                       PROVE  x \in Told(knows'[d], s)
            BY <3>3, <3>4, ToldBehind
        <3>6. d \in Staying(g) \/ d \in inserts[g]
            BY <1>3, <2>5, <2>8
        <3>7. CASE x \in inserts[g]
            <4>1. x \in knows'[d]
                BY <2>4, <3>5, <3>6, <3>7
            <4>2. x \notin Monsters
                BY <1>4, <3>7
            <4> QED BY <2>4, <3>1, <4>1, <4>2, HeardOfOthers
        <3>8. CASE x \notin inserts[g]
            <4>1. x \in Staying(h) \/ (h = Den /\ x \in Monsters)
                BY <1>3, <2>5, <2>8, <3>8
            <4>2. x \notin changed
                BY <2>4, <3>5, <3>8
            <4>3. CASE d \in Staying(g)
                <5>1. x \in Told(knows[d], sends[g])
                    BY <1>5, <2>4, <2>8, <4>1, <4>2, <4>3
                <5>2. x \in knows[d] => x \in knows'[d]
                    BY <2>4, <3>5, <4>3
                <5> QED BY <3>1, <3>5, <5>1, <5>2, StillKnown
            <4>4. CASE d \in inserts[g]
                <5>1. x \in knows'[d]
                    BY <2>4, <2>8, <3>5, <4>1, <4>4
                <5>2. CASE x \notin Monsters
                    BY <2>4, <3>1, <5>1, <5>2, HeardOfOthers
                <5>3. CASE x \in Monsters
                    <6>1. g = Den
                        BY <1>4, <2>8, <4>1, <5>3
                    <6>2. x \in Told(Monsters, sends[g])
                        BY <2>4, <4>2, <5>3, <6>1 DEF MonstersSettle
                    <6> QED BY <3>1, <3>5, <5>1, <6>2, StillKnown
                <5> QED BY <5>2, <5>3
            <4> QED BY <3>6, <4>3, <4>4
        <3> QED BY <3>7, <3>8
    <2> QED BY <2>7, <2>8
<1>11. CASE DrainManager
    <2>1. PICK g \in Managers : g = Here
        BY Facts
    <2>2. /\ game.at = "manager"
          /\ \A e \in members[g] : Told(knows[e], sends[g]) \subseteq knows'[e]
          /\ \A e \in Characters \ members[g] : knows[e] \subseteq knows'[e]
          /\ sends' = [sends EXCEPT ![g] = <<>>]
          /\ UNCHANGED <<changed, members, erases>>
        BY <1>11, <2>1, Managed
    <2>3. d \in Staying(h) /\ (x \in Staying(h) \/ (h = Den /\ x \in Monsters))
        BY <1>3, <1>7, <2>2
    <2>4. x \in Told(knows[d], sends[h]) \/ x \in changed
        BY <1>5, <2>2, <2>3
    <2>5. CASE h = g
        <3>1. d \in members[g]
            BY <2>3, <2>5 DEF Staying
        <3>2. x \in knows'[d] \/ x \in changed'
            BY <2>2, <2>4, <2>5, <3>1
        <3>3. sends'[h] = <<>>
            BY <1>4, <2>2, <2>5
        <3> QED BY <3>2, <3>3, ToldNothing
    <2>6. CASE h # g
        <3>1. d \in Characters \ members[g]
            BY <1>4, <2>1, <2>2, <2>3, <2>6 DEF Places
        <3>2. sends'[h] = sends[h]
            BY <1>4, <2>2, <2>6
        <3>3. x \in knows[d] => x \in knows'[d]
            BY <2>2, <3>1
        <3>4. x \in Told(knows[d], sends[h]) => x \in Told(knows'[d], sends[h])
            BY <3>3, ToldMore
        <3> QED BY <2>2, <2>4, <3>2, <3>4
    <2> QED BY <2>5, <2>6
<1>12. ASSUME NEW X \in SUBSET Characters, Tick(X) PROVE Known(h, d, x)
    <2>1. PICK g \in Managers : g = Here
        BY Facts
    <2>2. /\ game.at = "tick" /\ X \subseteq members[g]
          /\ sends' = AwayIn(sends, X)
          /\ \/ /\ changed' = changed \cup X
                /\ \A e \in Characters : knows'[e] = knows[e] \ X
             \/ /\ changed' = (changed \cup X) \ members[g]
                /\ \A e \in members[g] :
                      knows'[e] = (knows[e] \ X) \cup ((changed \cup X) \cap members[g])
                /\ \A e \in Characters \ members[g] : knows'[e] = knows[e] \ X
          /\ UNCHANGED <<members, erases>>
        BY <1>12, <2>1, Ticked
    <2>3. /\ d \in Staying(h) /\ d \in Characters
          /\ x \in Staying(h) \/ (h = Den /\ x \in Monsters)
        BY <1>3, <1>4, <1>7, <2>2
    <2>4. SUFFICES ASSUME x \notin changed'
                   PROVE  x \in Told(knows'[d], AwayIn(sends, X)[h])
        BY <2>2
    <2>5. CASE x \in changed \cup X
        <3>1. /\ changed' = (changed \cup X) \ members[g]
              /\ \A e \in members[g] :
                    knows'[e] = (knows[e] \ X) \cup ((changed \cup X) \cap members[g])
              /\ x \in members[g]
            BY <2>2, <2>4, <2>5
        <3>2. x \notin Monsters /\ x \in Staying(h)
            BY <1>4, <2>3, <3>1
        <3>3. h = g
            BY <2>1, <2>2, <3>1, <3>2 DEF Places
        <3>4. d \in members[g]
            BY <2>3, <3>3 DEF Staying
        <3>5. x \in knows'[d]
            BY <2>5, <3>1, <3>4
        <3> QED BY <2>2, <3>2, <3>5, HeardOfOthers
    <2>6. CASE x \notin changed \cup X
        <3>1. x \in Told(knows[d], sends[h])
            BY <1>5, <2>2, <2>3, <2>6
        <3>2. x \in knows[d] => x \in knows'[d]
            BY <2>2, <2>3, <2>6
        <3> QED BY <2>6, <3>1, <3>2, StillKnown
    <2> QED BY <2>5, <2>6
<1>13. CASE FlushMonsters
    <2>1. PICK t \in Seq(Messages) :
              /\ sends' = [sends EXCEPT ![Den] = @ \o t]
              /\ \A i \in 1 .. Len(t) : t[i].now = t[i].about
              /\ x \in Monsters /\ x \in changed =>
                    x \in changed' \/ \E i \in 1 .. Len(t) : x \in t[i].about
        BY <1>13, Flushed
    <2>2. /\ game.at = "monsters" /\ Den \in Managers
          /\ \A y \in changed : y \notin Monsters => y \in changed'
          /\ UNCHANGED <<knows, members, erases>>
        BY <1>13, Flushed, Facts
    <2>3. d \in Staying(h) /\ (x \in Staying(h) \/ (h = Den /\ x \in Monsters))
        BY <1>3, <1>7, <2>2
    <2>4. x \in Told(knows[d], sends[h]) \/ x \in changed
        BY <1>5, <2>2, <2>3
    <2>5. CASE h # Den
        <3>1. sends'[h] = sends[h] /\ x \notin Monsters
            BY <1>4, <2>1, <2>3, <2>5
        <3> QED BY <2>2, <2>4, <3>1
    <2>6. CASE h = Den
        <3>1. PICK s \in Seq(Messages) : s = sends[Den]
            BY <1>4, <2>2
        <3>2. sends'[h] = s \o t
            BY <1>4, <2>1, <2>2, <2>6, <3>1
        <3>3. \/ x \in Told(knows[d], s) \/ x \in changed'
              \/ \E i \in 1 .. Len(t) : x \in t[i].about
            BY <2>1, <2>2, <2>4, <2>6, <3>1
        <3>4. x \in Told(knows[d], s \o t) \/ x \in changed'
            BY <2>1, <3>3, ToldBehind
        <3> QED BY <2>2, <3>2, <3>4
    <2> QED BY <2>5, <2>6
<1>14. ASSUME NEW X \in SUBSET Monsters, NEW Y \in SUBSET Monsters, MonstersTick(X, Y)
       PROVE  Known(h, d, x)
    <2>1. PICK t : t = IF Y = {} THEN <<>> ELSE <<[about |-> Y, now |-> Y]>>
        OBVIOUS
    <2>2. /\ game.at = "trees" /\ changed' = changed \cup X /\ Den \in Managers
          /\ \A e \in Characters : knows'[e] = knows[e] \ (X \cup Y)
          /\ \A g \in Managers \ {Den} : sends'[g] = AwayIn(sends, X \cup Y)[g]
          /\ sends'[Den] = AwayIn(sends, X \cup Y)[Den] \o t
          /\ UNCHANGED <<members, erases>>
        BY <1>14, <2>1, MonstersTicked
    <2>3. /\ d \in Staying(h) /\ d \in Characters
          /\ x \in Staying(h) \/ (h = Den /\ x \in Monsters)
        BY <1>3, <1>4, <1>7, <2>2
    <2>4. SUFFICES ASSUME x \notin changed, x \notin X
                   PROVE  x \in Told(knows'[d], sends'[h])
        BY <2>2
    <2>5. x \in Told(knows[d], sends[h])
        BY <1>5, <2>2, <2>3, <2>4
    <2>6. x \notin Y => x \in Told(knows'[d], AwayIn(sends, X \cup Y)[h])
        <3> SUFFICES ASSUME x \notin Y
                     PROVE  x \in Told(knows'[d], AwayIn(sends, X \cup Y)[h])
            OBVIOUS
        <3>1. x \notin X \cup Y /\ (x \in knows[d] => x \in knows'[d])
            BY <2>2, <2>3, <2>4
        <3> QED BY <2>5, <3>1, StillKnown
    <2>7. CASE h # Den
        <3>1. x \notin Y
            BY <1>4, <2>3, <2>7
        <3> QED BY <2>2, <2>6, <2>7, <3>1
    <2>8. CASE h = Den
        <3>1. PICK s \in Seq(Messages) : s = AwayIn(sends, X \cup Y)[Den]
            BY <1>4, <2>2, AwayMessages
        <3>2. Y \in SUBSET Things
            BY DEF Things
        <3>3. /\ t \in Seq(Messages) /\ \A i \in 1 .. Len(t) : t[i].now = t[i].about
              /\ x \in Y => \E i \in 1 .. Len(t) : x \in t[i].about
            BY <2>1, <3>2, OneMore
        <3>4. x \in Told(knows'[d], s) \/ \E i \in 1 .. Len(t) : x \in t[i].about
            BY <2>6, <2>8, <3>1, <3>3
        <3>5. x \in Told(knows'[d], s \o t)
            BY <3>3, <3>4, ToldBehind
        <3> QED BY <2>2, <2>8, <3>1, <3>5
    <2> QED BY <2>7, <2>8
<1>15. CASE UNCHANGED vars
    <2>1. UNCHANGED <<sends, changed, knows, members, erases, game>>
        BY <1>15 DEF vars
    <2> QED BY <1>3, <1>6, <1>7, <2>1
<1> HIDE DEF Known, Near
<1> QED BY <1>8, <1>9, <1>10, <1>11, <1>12, <1>13, <1>14, <1>15
        DEF Next, Client, GameStep
LEMMA WalksStep ==
    ASSUME TypeOK, Places, Pointers, Requests, WalksAsAsked, [Next]_vars
    PROVE  WalksAsAsked'
<1> USE DEF placeVars, memberVars
<1>1. UNCHANGED <<members, erases, cm, walks>> => WalksAsAsked'
    BY DEF WalksAsAsked, Staying
<1>2. ASSUME NEW c \in Characters, NEW h \in Managers, Enter(c, h) PROVE WalksAsAsked'
    <2>1. \A g \in Managers : Staying(g)' = Staying(g) \ {c}
        BY <1>2, StayingEntered
    <2>2. UNCHANGED <<cm, walks>>
        BY <1>2 DEF Enter
    <2> QED BY <2>1, <2>2 DEF WalksAsAsked
<1>3. CASE DrainChannel
    <2>1. PICK g \in Managers : g = Here
        BY Facts
    <2>2. \A c \in Characters :
              /\ cm'[c] = IF c \in inserts[g] THEN g
                          ELSE IF c \in erases[g] THEN None ELSE cm[c]
              /\ walks'[c] = IF c \in inserts[g] THEN None ELSE walks[c]
        BY <1>3, <2>1, Drained
    <2>3. ASSUME NEW h \in Managers, NEW c \in Staying(h)'
          PROVE  walks'[c] \in {None, h} \/ cm'[c] = None
        <3>1. /\ h = g => Staying(h)' = Staying(h) \cup inserts[h]
              /\ h # g => Staying(h)' = Staying(h)
            BY <1>3, <2>1, StayingDrained
        <3>2. c \in Characters
            BY <3>1, Facts DEF Staying
        <3>3. CASE c \in inserts[g]
            BY <2>2, <3>2, <3>3
        <3>4. CASE c \notin inserts[g]
            <4>1. c \in Staying(h)
                BY <3>1, <3>4
            <4>2. walks[c] \in {None, h} \/ cm[c] = None
                BY <4>1 DEF WalksAsAsked
            <4> QED BY <2>2, <3>2, <3>4, <4>2
        <3> QED BY <3>3, <3>4
    <2> QED BY <2>3 DEF WalksAsAsked
<1>4. CASE DrainManager
    <2>1. PICK g \in Managers : g = Here
        BY Facts
    <2>2. /\ game.at = "manager"
          /\ \A c \in Characters :
                \/ walks'[c] = walks[c]
                \/ /\ walks'[c] \in {None, g}
                   /\ \E i \in 1 .. Len(funcs[g]) :
                         funcs[g][i].op = "move" /\ funcs[g][i].c = c
          /\ UNCHANGED <<members, erases, cm>>
        BY <1>4, <2>1, Managed
    <2>3. ASSUME NEW h \in Managers, NEW c \in Staying(h)
          PROVE  walks'[c] \in {None, h} \/ cm'[c] = None
        <3>1. c \in Characters /\ at[c] = h
            BY Facts DEF Staying, Places
        <3>2. CASE walks'[c] = walks[c]
            BY <2>2, <3>2 DEF WalksAsAsked
        <3>3. CASE walks'[c] # walks[c]
            <4>1. walks'[c] \in {None, g}
                BY <2>2, <3>1, <3>3
            <4>2. PICK i \in 1 .. Len(funcs[g]) :
                      funcs[g][i].op = "move" /\ funcs[g][i].c = c
                BY <2>2, <3>1, <3>3
            <4>3. \/ at[c] = g \/ c \in erases[g]
                  \/ c \in Staying(at[c]) => cm[c] = None
                BY <4>2 DEF Requests
            <4>4. CASE h = g
                BY <4>1, <4>4
            <4>5. CASE h # g
                <5>1. c \notin members[g]
                    BY <2>1, <2>2, <4>5 DEF Places
                <5>2. c \notin erases[g]
                    BY <5>1 DEF Places
                <5>3. cm[c] = None
                    BY <3>1, <4>3, <4>5, <5>2
                <5> QED BY <2>2, <5>3
            <4> QED BY <4>4, <4>5
        <3> QED BY <3>2, <3>3
    <2>4. \A h \in Managers : Staying(h)' = Staying(h)
        BY <2>2 DEF Staying
    <2> QED BY <2>3, <2>4 DEF WalksAsAsked
<1>5. ASSUME NEW c \in Characters,
             \/ \E walk \in BOOLEAN : AskMove(c, walk)
             \/ AskList(c) \/ AskEscape(c) \/ Ask(c)
      PROVE  WalksAsAsked'
    BY <1>1, <1>5 DEF AskMove, AskList, AskEscape, Ask
<1>6. ASSUME NEW X \in SUBSET Characters, Tick(X) PROVE WalksAsAsked'
    BY <1>1, <1>6 DEF Tick
<1>7. CASE FlushMonsters
    BY <1>1, <1>7 DEF FlushMonsters
<1>8. ASSUME NEW X \in SUBSET Monsters, NEW Y \in SUBSET Monsters, MonstersTick(X, Y)
      PROVE  WalksAsAsked'
    BY <1>1, <1>8 DEF MonstersTick
<1>9. CASE UNCHANGED vars
    BY <1>1, <1>9 DEF vars
<1> QED BY <1>2, <1>3, <1>4, <1>5, <1>6, <1>7, <1>8, <1>9
        DEF Next, Client, GameStep

LEMMA InitInvariant == Init => IInv
<1> SUFFICES ASSUME Init PROVE IInv
    OBVIOUS
<1>1. PICK n \in 0 .. FlushTime : since = [chars |-> [g \in Managers |-> n], mons |-> n]
    BY DEF Init
<1>2. /\ game = [at |-> "channel", turn |-> 1]
      /\ at \in [Characters -> Managers] /\ entering = {} /\ moves = 0
      /\ erases = [g \in Managers |-> {}] /\ escapes = [g \in Managers |-> {}]
      /\ inserts = [g \in Managers |-> {c \in Characters : at[c] = g}]
      /\ sends = [g \in Managers |-> <<>>] /\ funcs = [g \in Managers |-> <<>>]
      /\ members = [g \in Managers |-> {}] /\ cm = [c \in Characters |-> None]
      /\ walks = [c \in Characters |-> None] /\ changed = {}
      /\ knows = [c \in Characters |-> {}]
    BY DEF Init
<1>3. \A g \in Managers : Staying(g) = {}
    BY <1>2 DEF Staying
<1>4. \A g \in Managers : /\ \A i \in 1 .. Len(sends[g]) : FALSE
                          /\ \A i \in 1 .. Len(funcs[g]) : FALSE
    BY <1>2
<1>5. TypeOK
    <2>1. since \in [chars : [Managers -> 0 .. FlushTime], mons : 0 .. FlushTime]
        BY <1>1
    <2>2. game \in [at : Stages, turn : 1 .. Len(Order)]
        BY <1>2, Constants DEF Stages
    <2> QED BY <1>2, <2>1, <2>2, Constants DEF TypeOK
<1>6. Places /\ Pointers /\ Mail /\ Requests
    BY <1>2, <1>3, <1>4 DEF Places, Pointers, Mail, Requests
<1>7. MonstersSettle
    <2>1. Den \in Managers => Told(Monsters, sends[Den]) = Monsters
        BY <1>2, ToldNothing
    <2> QED BY <2>1 DEF MonstersSettle
<1>8. PositionsSettle /\ WalksAsAsked
    BY <1>3 DEF PositionsSettle, WalksAsAsked
<1> QED BY <1>5, <1>6, <1>7, <1>8 DEF IInv, Control

-----------------------------------------------------------------------------
(* The theorems. *)

\* The invariant holds of every state that the channels, their managers and the
\* clients can bring about.
THEOREM MovesInvariance == Spec => []IInv
<1>1. Init => IInv
    BY InitInvariant
<1>2. IInv /\ [Next]_vars => IInv'
    <2> SUFFICES ASSUME IInv, [Next]_vars PROVE IInv'
        OBVIOUS
    <2>1. /\ TypeOK /\ Places /\ Pointers /\ Mail /\ Requests
          /\ MonstersSettle /\ PositionsSettle /\ WalksAsAsked
        BY DEF IInv, Control
    <2>2. TypeOK' /\ Places' /\ Pointers' /\ Mail' /\ Requests'
        BY <2>1, TypeStep, PlacesStep, PointersStep, MailStep, RequestsStep
    <2>3. MonstersSettle' /\ PositionsSettle' /\ WalksAsAsked'
        BY <2>1, MonstersStep, PositionsStep, WalksStep
    <2> QED BY <2>2, <2>3 DEF IInv, Control
<1> QED BY <1>1, <1>2, PTL DEF Spec

\* The variables of the channels, their managers, mailboxes and clients have the
\* types they are declared with.
THEOREM MovesTypeCorrect == Spec => []TypeOK
<1>1. IInv => TypeOK
    BY DEF IInv
<1> QED BY <1>1, MovesInvariance, PTL

\* Whatever walks, respawns or escapes, whoever comes in between (PrevTick, Tick),
\* no member is left with a position that is no longer true, unless the next
\* flush or the mailbox has the one that is.
THEOREM NoPositionIsForgotten == Spec => []PositionsSettle
<1>1. IInv => PositionsSettle
    BY DEF IInv
<1> QED BY <1>1, MovesInvariance, PTL

\* A request to walk (MOVING) that is worked through after its character went on sets
\* nobody off in another channel, but where the erase that came late took the
\* manager pointer of the character, too.
THEOREM WalksEndWithTheChannel == Spec => []WalksAsAsked
<1>1. IInv => WalksAsAsked
    BY DEF IInv
<1> QED BY <1>1, MovesInvariance, PTL

\* What members of a channel are sent about characters (CON_ESCAPE) is
\* delivered by the drain that comes right behind the escape: at every other time
\* all that waits is about monsters.
THEOREM EscapesDoNotWait ==
    Spec => [](game.at = "channel" => \A g \in Managers :
                   \A i \in 1 .. Len(sends[g]) : sends[g][i].about \subseteq Monsters)
<1>1. IInv => (game.at = "channel" => \A g \in Managers :
                   \A i \in 1 .. Len(sends[g]) : sends[g][i].about \subseteq Monsters)
    BY DEF IInv, Control, Mail
<1> QED BY <1>1, MovesInvariance, PTL
-----------------------------------------------------------------------------
(* What patient clients are promised. *)

\* Most steps move nobody.
LEMMA NobodyMoves ==
    ASSUME UNCHANGED <<placeVars, members>>
    PROVE  UNCHANGED Abs!vars
<1>1. at' = at /\ entering' = entering /\ inserts' = inserts /\ members' = members
    BY DEF placeVars
<1>2. Home' = Home /\ Waiting' = Waiting
    BY <1>1 DEF Home, Waiting
<1> QED BY <1>1, <1>2 DEF Abs!vars

LEMMA AbsEnter ==
    ASSUME TypeOK, Places, NEW c \in Characters, NEW g \in Managers, Enter(c, g)
    PROVE  Abs!Ask(c)
<1>1. /\ at[c] \in Managers /\ c \notin entering /\ \A h \in Managers : c \notin inserts[h]
      /\ at' = [at EXCEPT ![c] = g] /\ entering' = entering \cup {c}
      /\ UNCHANGED <<inserts, members>>
    BY Entered DEF Enter, Admitted, memberVars
<1>2. at'[c] = g /\ \A d \in Characters : d # c => at'[d] = at[d]
    BY <1>1 DEF TypeOK
<1>3. \A d \in Characters : Home'[d] = IF d = c THEN None ELSE Home[d]
    BY <1>1, <1>2 DEF Home
<1>4. \A d \in Characters : Waiting'[d] = IF d = c THEN TRUE ELSE Waiting[d]
    BY <1>1, <1>2 DEF Waiting
<1>5. Home' = [Home EXCEPT ![c] = None] /\ Waiting' = [Waiting EXCEPT ![c] = TRUE]
    BY <1>3, <1>4 DEF Home, Waiting
<1>6. ~Waiting[c]
    BY <1>1 DEF Waiting
<1> QED BY <1>1, <1>5, <1>6 DEF Abs!Ask

LEMMA AbsPosted ==
    ASSUME TypeOK, NEW c \in Characters, Ask(c)
    PROVE  at[c] \in Managers /\ Abs!Place(c, at[c])
<1>1. /\ c \in entering /\ entering' = entering \ {c}
      /\ inserts' = [inserts EXCEPT ![at[c]] = @ \cup {c}]
      /\ UNCHANGED <<at, members>>
    BY DEF Ask, memberVars
<1>2. at[c] \in Managers /\ inserts \in [Managers -> SUBSET Characters]
    BY Facts DEF TypeOK
<1>3. \A h \in Managers, d \in Characters :
          d \in inserts'[h] <=> d \in inserts[h] \/ (d = c /\ h = at[c])
    BY <1>1, <1>2
<1>4. \A d \in Characters : Home'[d] = IF d = c THEN at[c] ELSE Home[d]
    BY <1>1 DEF Home
<1>5. \A d \in Characters : Waiting'[d] = Waiting[d]
    BY <1>1, <1>3 DEF TypeOK, Waiting
<1>6. Home' = [Home EXCEPT ![c] = at[c]] /\ Waiting' = Waiting
    BY <1>4, <1>5 DEF Home, Waiting
<1>7. Waiting[c] /\ Home[c] = None
    BY <1>1 DEF Waiting, Home
<1> QED BY <1>1, <1>2, <1>6, <1>7 DEF Abs!Place

\* Who is erased has left or waits to be admitted again; who waits to be inserted was
\* placed here, and is no member or erased first (Places).
LEMMA AbsDrain ==
    ASSUME TypeOK, Places, Pointers, DrainChannel
    PROVE  Here \in Managers /\ Abs!Drain(Here, erases[Here], inserts[Here])
<1> DEFINE out == erases[Here]
           into == inserts[Here]
<1>1. /\ Here \in Managers /\ UNCHANGED <<at, entering>>
      /\ members' = [members EXCEPT ![Here] = Staying(Here) \cup into]
      /\ inserts' = [inserts EXCEPT ![Here] = {}]
      /\ inserts \in [Managers -> SUBSET Characters]
      /\ out \subseteq Characters /\ into \subseteq Characters
    BY Drained, Facts
<1>2. out \subseteq members[Here] /\ into \cap (members[Here] \ out) = {}
    BY <1>1 DEF Places
<1>3. ASSUME NEW c \in out, Home[c] = Here PROVE Waiting[c]
    <2>1. c \in Characters
        BY <1>1
    <2>2. at[c] = Here /\ (c \in entering \/ c \in inserts[Here])
        <3>1. c \notin entering
            BY <1>1, <1>3, <2>1, Constants DEF Home
        <3> QED BY <1>1, <1>3, <2>1, <3>1 DEF Home, Places
    <2> QED BY <2>1, <2>2 DEF Waiting
<1>4. ASSUME NEW c \in into
      PROVE  c \in Characters /\ at[c] = Here /\ c \notin entering
    BY <1>1 DEF Places
<1>5. ASSUME NEW c \in into PROVE Waiting[c] /\ Home[c] = Here
    BY <1>4 DEF Waiting, Home
<1>6. ASSUME NEW c \in Characters
      PROVE  Waiting'[c] = (Waiting[c] /\ c \notin into)
    <2>1. at[c] \in Managers
        BY DEF TypeOK
    <2>2. CASE at[c] = Here
        BY <1>1, <1>4, <2>2 DEF Waiting
    <2>3. CASE at[c] # Here
        <3>1. c \notin into
            BY <1>4, <2>3
        <3>2. inserts'[at[c]] = inserts[at[c]]
            BY <1>1, <2>1, <2>3
        <3> QED BY <1>1, <3>1, <3>2 DEF Waiting
    <2> QED BY <2>2, <2>3
<1>7. Waiting' = [c \in Characters |-> Waiting[c] /\ c \notin into] /\ Home' = Home
    BY <1>1, <1>6 DEF Waiting, Home
<1>8. members' = [members EXCEPT ![Here] = (@ \ out) \cup into]
    BY <1>1 DEF Staying
<1> HIDE DEF out, into
<1>9. Abs!Drain(Here, out, into)
    BY <1>1, <1>2, <1>3, <1>4, <1>5, <1>7, <1>8 DEF Abs!Drain
<1> QED BY <1>1, <1>9 DEF out, into

LEMMA AbsStep ==
    ASSUME TypeOK, Places, Pointers, [Next]_vars
    PROVE  [Abs!Next]_(Abs!vars)
<1> USE DEF placeVars, memberVars, toldVars
<1>1. ASSUME NEW c \in Characters, NEW walk \in BOOLEAN, AskMove(c, walk)
      PROVE  UNCHANGED Abs!vars
    BY <1>1, NobodyMoves DEF AskMove
<1>2. ASSUME NEW c \in Characters, AskList(c) \/ AskEscape(c)
      PROVE  UNCHANGED Abs!vars
    BY <1>2, NobodyMoves DEF AskList, AskEscape
<1>3. ASSUME NEW c \in Characters, NEW g \in Managers, Enter(c, g)
      PROVE  Abs!Next
    BY <1>3, AbsEnter DEF Abs!Next
<1>4. ASSUME NEW c \in Characters, Ask(c)
      PROVE  Abs!Next
    BY <1>4, AbsPosted DEF Abs!Next
<1>5. CASE DrainChannel
    <2>1. erases[Here] \in SUBSET Characters /\ inserts[Here] \in SUBSET Characters
        BY Facts
    <2> QED BY <1>5, <2>1, AbsDrain DEF Abs!Next
<1>6. CASE DrainManager \/ FlushMonsters \/ UNCHANGED vars
    BY <1>6, NobodyMoves DEF DrainManager, FlushMonsters, vars
<1>7. ASSUME NEW X \in SUBSET Characters, Tick(X)
      PROVE  UNCHANGED Abs!vars
    BY <1>7, NobodyMoves DEF Tick
<1>8. ASSUME NEW X \in SUBSET Monsters, NEW Y \in SUBSET Monsters, MonstersTick(X, Y)
      PROVE  UNCHANGED Abs!vars
    BY <1>8, NobodyMoves DEF MonstersTick
<1> QED BY <1>1, <1>2, <1>3, <1>4, <1>5, <1>6, <1>7, <1>8 DEF Next, Client, GameStep

LEMMA InitAbs == Init => Abs!Init
<1> SUFFICES ASSUME Init PROVE Abs!Init
    OBVIOUS
<1>1. /\ at \in [Characters -> Managers] /\ entering = {}
      /\ members = [g \in Managers |-> {}]
      /\ inserts = [g \in Managers |-> {c \in Characters : at[c] = g}]
    BY DEF Init
<1>2. ASSUME NEW c \in Characters
      PROVE  Home[c] = at[c] /\ at[c] # None /\ Waiting[c]
    BY <1>1, Constants DEF Home, Waiting
<1>3. /\ Home \in [Characters -> Managers \cup {None}]
      /\ Waiting = [c \in Characters |-> Home[c] # None]
    BY <1>1, <1>2 DEF Home, Waiting
<1> QED BY <1>1, <1>3 DEF Abs!Init
\* Walks, escapes and changes of channel keep the promise of MembershipAbs, too: Enter
\* asks, the posted insert places, and Channel::PrevTick admits whoever waits
\* once, where it asked to be, and puts nobody out that has its answer, even in the
\* drain whose escape ends the process.
THEOREM Implementation == Spec => ImplementsAbs
<1>1. IInv /\ [Next]_vars => [Abs!Next]_(Abs!vars)
    BY AbsStep DEF IInv, Control
<1> QED BY <1>1, InitAbs, MovesInvariance, PTL DEF Spec, Abs!Spec, ImplementsAbs

\* The steps of MembershipAbs keep what follows from them for answered clients.
LEMMA AnsweredStep ==
    ASSUME TypeOK, Abs!AnsweredIsInside, [Abs!Next]_(Abs!vars)
    PROVE  Abs!AnsweredIsInside'
<1> DEFINE Answered(c, g) == Home[c] = g /\ ~Waiting[c]
<1>1. /\ members \in [Managers -> SUBSET Characters]
      /\ DOMAIN Home = Characters /\ DOMAIN Waiting = Characters
      /\ None \notin Managers
    BY Facts, Constants DEF Home, Waiting
<1>2. \A c \in Characters, g \in Managers : Answered(c, g) => c \in members[g]
    BY DEF Abs!AnsweredIsInside
<1>3. SUFFICES ASSUME NEW c \in Characters, NEW g \in Managers, Answered(c, g)'
               PROVE  c \in members'[g]
    BY DEF Abs!AnsweredIsInside
<1>4. CASE UNCHANGED Abs!vars
    BY <1>2, <1>3, <1>4 DEF Abs!vars
<1>5. ASSUME NEW d \in Characters, Abs!Ask(d) PROVE c \in members'[g]
    BY <1>1, <1>2, <1>3, <1>5 DEF Abs!Ask
<1>6. ASSUME NEW d \in Characters, Abs!Quit(d) PROVE c \in members'[g]
    BY <1>1, <1>2, <1>3, <1>6 DEF Abs!Quit
<1>7. ASSUME NEW d \in Characters, NEW h \in Managers, Abs!Place(d, h)
      PROVE  c \in members'[g]
    BY <1>1, <1>2, <1>3, <1>7 DEF Abs!Place
<1>8. ASSUME NEW h \in Managers, NEW out \in SUBSET Characters,
             NEW into \in SUBSET Characters, Abs!Drain(h, out, into)
      PROVE  c \in members'[g]
    <2>1. members'[g] = IF g = h THEN (members[h] \ out) \cup into ELSE members[g]
        BY <1>1, <1>8 DEF Abs!Drain
    <2>2. Home[c] = g /\ (c \in into \/ ~Waiting[c])
        BY <1>3, <1>8 DEF Abs!Drain
    <2>3. c \in into => g = h
        BY <1>8, <2>2 DEF Abs!Drain
    <2>4. c \in out /\ g = h => Waiting[c]
        BY <1>8, <2>2 DEF Abs!Drain
    <2> QED BY <1>2, <2>1, <2>2, <2>3, <2>4
<1> QED BY <1>4, <1>5, <1>6, <1>7, <1>8 DEF Abs!Next, Abs!Fail

\* So a character of which no request to be admitted waits is a member of the channel
\* it is in (Channel::PrevTick): what its client asks for reaches a manager that knows it.
THEOREM AnsweredAreMembers == Spec => []Abs!AnsweredIsInside
<1>1. Init => Abs!AnsweredIsInside
    BY InitAbs, Constants DEF Abs!Init, Abs!AnsweredIsInside
<1>2. IInv /\ Abs!AnsweredIsInside /\ [Next]_vars => Abs!AnsweredIsInside'
    BY AbsStep, AnsweredStep DEF IInv, Control
<1> QED BY <1>1, <1>2, MovesInvariance, PTL DEF Spec

===============================================================================
