---------------------------- MODULE SessionProofs ----------------------------
(***************************************************************************)
(* Proofs about Session, for any packets, pushes, parts and room: what     *)
(* On_Read gets, how the loop over several packets ends, in which order    *)
(* buffers reach the wire, and what the answer to a PING_TEST carries.     *)
(***************************************************************************)
EXTENDS Session, FiniteSetTheorems, TLAPS

\* The packets of the client's stream: one behind the other, each of a size
\* there is.
Stream ==
    /\ \A n \in Packets : Size(n) \in Sizes
    /\ \A m, n \in 0 .. Len(ends) : m < n => End(m) + Header <= End(n)

\* The packet at the front of recv_buffer; after On_Read and before memmove it is
\* the last that was delivered.
First == IF reader = "move" THEN Len(delivered) ELSE Len(delivered) + 1

\* The com bytes in recv_buffer are the last ones taken, from the first byte of
\* the front packet on.
Aligned ==
    /\ First \in 1 .. Len(ends) + 1
    /\ taken - com = End(First - 1)
    /\ \A i \in Cells : i < com => buf[i] = taken - com + 1 + i

\* Where the handler is in its loop says what the buffer holds.
Reading ==
    /\ reader = "over" => com > 0
    /\ reader = "move" => First \in Packets /\ End(First) < taken
    /\ reader \in {"posted", "reading"} /\ First \in Packets
          => taken <= End(First)

\* One read at a time: it is on the strand, or has begun, or its handler runs.
OneRead ==
    /\ \A i, j \in Ops("read") : i = j
    /\ Ops("read") # {} => reader = "posted"

\* What the answer to a PING_TEST that came alone will copy is there until the
\* next read, which waits behind it.
EchoReady ==
    \A i \in Ops("push") :
        strand[i].at = "complete" /\ strand[i].size > 0 =>
            /\ \E j \in Ops("read") : i < j
            /\ \A k \in Header .. strand[i].size - 1 : buf[k] = strand[i].from + k

\* The do_write of a rest stands right behind it.
Paired == \A i \in Ops("requeue") : i + 1 \in Ops("write")

\* The messages on their way, with the parts of each that are on the wire: in
\* functions on the strand, in a queue, in a completed write.
Carriers == Ops("push") \cup Ops("requeue")
Load(f) == [msg |-> f.msg, done |-> IF f.op = "push" THEN 0 ELSE f.done]
Waiting == {Load(strand[i]) : i \in Carriers}
Held(q) == {q[i] : i \in 1 .. Len(q)}
OnTheWay == Waiting \cup Held(sendq) \cup Held(writes) \cup finished

\* A message is in one place at a time.
Disjoint(A, B) == \A a \in A, b \in B : a.msg # b.msg
Once ==
    /\ \A i, j \in Carriers : strand[i].msg = strand[j].msg => i = j
    /\ \A i, j \in 1 .. Len(sendq) : sendq[i].msg = sendq[j].msg => i = j
    /\ \A i, j \in 1 .. Len(writes) : writes[i].msg = writes[j].msg => i = j
    /\ \A f, g \in finished : f.msg = g.msg => f = g
Apart ==
    /\ Disjoint(Waiting, Held(sendq) \cup Held(writes) \cup finished)
    /\ Disjoint(Held(sendq), Held(writes) \cup finished)
    /\ Disjoint(Held(writes), finished)

\* No message has a number that PushSend has not given yet.
Pushed == pings + pushes
Numbered ==
    /\ \A b \in OnTheWay : b.msg <= Pushed
    /\ \A i \in 1 .. Len(sent) : sent[i].msg <= Pushed

\* The parts on the wire are those that the place of a message says.
PartsOf(m) == {sent[j].part : j \in {i \in 1 .. Len(sent) : sent[i].msg = m}}
Counted == \A b \in OnTheWay : PartsOf(b.msg) = 1 .. b.done

\* Messages that have not begun go through the strand, send_buffers and the
\* socket in the order of their numbers.
Below(A, B) == \A a \in A, b \in B : a.done = 0 /\ b.done = 0 => a.msg < b.msg
Rising(q) == \A i, j \in 1 .. Len(q) :
                 i < j /\ q[i].done = 0 /\ q[j].done = 0 => q[i].msg < q[j].msg
InLine ==
    /\ \A i, j \in Ops("push") : i < j => strand[i].msg < strand[j].msg
    /\ Rising(sendq) /\ Rising(writes)
    /\ Below(Held(sendq), Waiting)
    /\ Below(Held(writes), Waiting \cup Held(sendq))

\* While the connection is open, every message is on its way or has begun.
Begun(m) == \E i \in 1 .. Len(sent) : sent[i].msg = m
NoneLost == \A m \in 1 .. Pushed : Begun(m) \/ \E b \in OnTheWay : b.msg = m

Receiving == Stream /\ Aligned /\ Reading /\ WholePackets /\ SpinsOnSplitSize
Posting == OneRead /\ EchoReady /\ EchoOfOnePacket
Queueing == Paired /\ EveryBufferHasWrite
Sending ==
    /\ Once /\ Apart /\ Numbered /\ Counted /\ InLine
    /\ open => NoneLost
    /\ WireInOrder

IInv == TypeOK /\ Receiving /\ Posting /\ Queueing /\ Sending

-----------------------------------------------------------------------------
(* Sequences. *)

LEMMA TailProps ==
    ASSUME NEW S, NEW s \in Seq(S), s # <<>>
    PROVE  /\ Tail(s) \in Seq(S) /\ Len(s) \in Nat \ {0}
           /\ Len(Tail(s)) = Len(s) - 1
           /\ \A i \in 1 .. Len(s) - 1 : Tail(s)[i] = s[i + 1]
           /\ Head(s) = s[1] /\ s[1] \in S /\ 1 \in 1 .. Len(s)
OBVIOUS

LEMMA AppendProps ==
    ASSUME NEW S, NEW s \in Seq(S), NEW e \in S
    PROVE  /\ Append(s, e) \in Seq(S) /\ Len(s) \in Nat
           /\ Len(Append(s, e)) = Len(s) + 1
           /\ \A i \in 1 .. Len(s) : Append(s, e)[i] = s[i]
           /\ Append(s, e)[Len(s) + 1] = e
OBVIOUS

LEMMA ElementOf ==
    ASSUME NEW S, NEW s \in Seq(S), NEW i \in 1 .. Len(s)
    PROVE  s[i] \in S
OBVIOUS

\* A function that is posted, by its kind.
LEMMA FunctionKinds ==
    ASSUME NEW f \in Functions
    PROVE  /\ f.op \in {"read", "write", "requeue", "push"}
           /\ f.op \in {"requeue", "push"} => f.msg \in Messages
           /\ f.op = "requeue" => f.done \in 1 .. Parts
           /\ f.op = "push" => /\ f.from \in 0 .. Room /\ f.size \in 0 .. Room
                               /\ f.at \in {"complete", "over"}
BY DEF Functions

LEMMA ReadsAndWrites == {[op |-> "read"], [op |-> "write"]} \subseteq Functions
BY DEF Functions

-----------------------------------------------------------------------------
(* The positions of the functions of one kind. *)

OpsOf(s, op) == {i \in 1 .. Len(s) : s[i].op = op}

LEMMA OpsAre == \A op : Ops(op) = OpsOf(strand, op) /\ Ops(op)' = OpsOf(strand', op)
BY DEF Ops, OpsOf

LEMMA OpsFinite ==
    ASSUME NEW s \in Seq(Functions), NEW op
    PROVE  IsFiniteSet(OpsOf(s, op)) /\ Cardinality(OpsOf(s, op)) \in Nat
<1>1. IsFiniteSet(1 .. Len(s))
    BY FS_Interval
<1>2. IsFiniteSet(OpsOf(s, op))
    BY <1>1, FS_Subset DEF OpsOf
<1> QED BY <1>2, FS_CardinalityType

LEMMA OpsOfAppend ==
    ASSUME NEW s \in Seq(Functions), NEW f \in Functions, NEW op
    PROVE  /\ OpsOf(Append(s, f), op)
                = OpsOf(s, op) \cup (IF f.op = op THEN {Len(s) + 1} ELSE {})
           /\ Cardinality(OpsOf(Append(s, f), op))
                = Cardinality(OpsOf(s, op)) + (IF f.op = op THEN 1 ELSE 0)
<1>1. OpsOf(Append(s, f), op)
        = OpsOf(s, op) \cup (IF f.op = op THEN {Len(s) + 1} ELSE {})
    BY AppendProps DEF OpsOf
<1>2. Len(s) + 1 \notin OpsOf(s, op)
    BY DEF OpsOf
<1>3. IsFiniteSet(OpsOf(s, op)) /\ Cardinality(OpsOf(s, op)) \in Nat
    BY OpsFinite
<1>4. CASE f.op = op
    BY <1>1, <1>2, <1>3, <1>4, FS_AddElement
<1>5. CASE f.op # op
    BY <1>1, <1>3, <1>5
<1> QED BY <1>4, <1>5

LEMMA OpsOfTail ==
    ASSUME NEW s \in Seq(Functions), s # <<>>, NEW op
    PROVE  /\ \A i : i \in OpsOf(Tail(s), op) <=> i \in Nat \ {0} /\ i + 1 \in OpsOf(s, op)
           /\ Cardinality(OpsOf(Tail(s), op))
                = Cardinality(OpsOf(s, op)) - (IF Head(s).op = op THEN 1 ELSE 0)
<1> DEFINE A == OpsOf(s, op) \ {1}
           B == OpsOf(Tail(s), op)
           g == [i \in B |-> i + 1]
<1>1. \A i : i \in B <=> i \in Nat \ {0} /\ i + 1 \in OpsOf(s, op)
    BY TailProps DEF OpsOf
<1>2. OpsOf(s, op) \subseteq Nat \ {0}
    BY DEF OpsOf
<1>3. g \in Bijection(B, A)
    <2> HIDE DEF B
    <2>1. \A i \in B : g[i] \in A
        BY <1>1
    <2>2. \A i, j \in B : g[i] = g[j] => i = j
        BY <1>1
    <2>3. \A a \in A : \E i \in B : g[i] = a
        <3> SUFFICES ASSUME NEW a \in A PROVE \E i \in B : g[i] = a
            OBVIOUS
        <3>1. a - 1 \in B /\ g[a - 1] = a
            BY <1>1, <1>2
        <3> QED BY <3>1
    <2> QED BY <2>1, <2>2, <2>3 DEF Bijection, Injection, Surjection, IsInjective
<1>4. IsFiniteSet(B) /\ IsFiniteSet(OpsOf(s, op))
      /\ Cardinality(OpsOf(s, op)) \in Nat
    BY OpsFinite, TailProps
<1>5. Cardinality(A) = Cardinality(B)
    <2>1. ExistsBijection(B, A)
        BY <1>3 DEF ExistsBijection
    <2> HIDE DEF A, B, g
    <2> QED BY <2>1, <1>4, FS_Bijection
<1>6. Cardinality(A) = Cardinality(OpsOf(s, op))
                          - (IF 1 \in OpsOf(s, op) THEN 1 ELSE 0)
    <2>1. Cardinality(A) = IF 1 \in OpsOf(s, op) THEN Cardinality(OpsOf(s, op)) - 1
                           ELSE Cardinality(OpsOf(s, op))
        BY <1>4, FS_RemoveElement
    <2> HIDE DEF A
    <2> QED BY <2>1, <1>4
<1>7. 1 \in OpsOf(s, op) <=> Head(s).op = op
    BY TailProps DEF OpsOf
<1> QED BY <1>1, <1>5, <1>6, <1>7

-----------------------------------------------------------------------------
(* Types. *)

LEMMA Constants ==
    /\ Base \in Nat \ {0, 1} /\ Header \in Nat /\ Header >= 2 /\ Room \in Nat
    /\ MaxPings \in Nat /\ MaxPushes \in Nat /\ Parts \in Nat \ {0}
    /\ \A s \in Sizes : s \in Nat /\ s >= Header /\ s < Base * Base
    /\ Payload \in Nat
BY SessionAssumption DEF SessionAssumption

\* The packets of the stream when one more is sent.
LEMMA StreamGrows ==
    ASSUME TypeOK, NEW s \in Sizes, ClientSend(s)
    PROVE  /\ Len(ends') = Len(ends) + 1 /\ Len(ends) \in Nat
           /\ ends' \in Seq(0 .. Room)
           /\ \A n \in 0 .. Len(ends) : End(n)' = End(n) /\ End(n) \in 0 .. Room
           /\ End(Len(ends))' = End(Len(ends)) + s
           /\ s \in Nat /\ s >= Header /\ s >= 2
<1>1. s \in Nat /\ s >= Header /\ s >= 2
    BY Constants
<1>2. ends \in Seq(0 .. Room) /\ Len(ends) \in Nat
    BY DEF TypeOK
<1>3. \A n \in 0 .. Len(ends) : End(n) \in 0 .. Room
    BY <1>2, Constants DEF End
<1>4. End(Len(ends)) + s \in 0 .. Room
    BY <1>1, <1>2, <1>3, Constants DEF ClientSend
<1>5. ends' = Append(ends, End(Len(ends)) + s)
    BY DEF ClientSend
<1> HIDE DEF End
<1>6. /\ Len(ends') = Len(ends) + 1
      /\ ends' \in Seq(0 .. Room)
      /\ \A n \in 1 .. Len(ends) : ends'[n] = ends[n]
      /\ ends'[Len(ends) + 1] = End(Len(ends)) + s
    BY <1>2, <1>4, <1>5, AppendProps
<1>7. \A n \in 0 .. Len(ends) : End(n)' = End(n)
    BY <1>2, <1>6 DEF End
<1>8. End(Len(ends))' = End(Len(ends)) + s
    BY <1>2, <1>6 DEF End
<1> QED BY <1>1, <1>2, <1>3, <1>6, <1>7, <1>8

LEMMA EndTypes ==
    ASSUME TypeOK
    PROVE  /\ Len(ends) \in Nat
           /\ \A n \in 0 .. Len(ends) : End(n) \in 0 .. Room
           /\ taken \in 0 .. Room
<1>1. ends \in Seq(0 .. Room) /\ Len(ends) \in Nat /\ taken \in 0 .. End(Len(ends))
    BY DEF TypeOK
<1>2. \A n \in 0 .. Len(ends) : End(n) \in 0 .. Room
    BY <1>1, Constants DEF End
<1> QED BY <1>1, <1>2, Constants

-----------------------------------------------------------------------------
(* What the bytes at the front of recv_buffer say. *)

LEMMA SizeTypes ==
    ASSUME TypeOK, Stream, NEW n \in Packets
    PROVE  /\ Size(n) \in Nat /\ Size(n) >= Header /\ Size(n) >= 2
           /\ End(n - 1) \in 0 .. Room /\ End(n) \in 0 .. Room
           /\ End(n) = End(n - 1) + Size(n)
           /\ Size(n) % Base \in Nat /\ Size(n) \div Base \in Nat
           /\ (Size(n) % Base) + Base * (Size(n) \div Base) = Size(n)
<1>1. n \in 1 .. Len(ends) /\ n - 1 \in 0 .. Len(ends) /\ n \in 0 .. Len(ends)
    BY EndTypes DEF Packets
<1>2. End(n - 1) \in 0 .. Room /\ End(n) \in 0 .. Room
    BY <1>1, EndTypes
<1>3. Size(n) \in Nat /\ Size(n) >= Header /\ Size(n) >= 2
    BY Constants DEF Stream
<1>4. End(n) = End(n - 1) + Size(n)
    BY <1>2 DEF Size
<1>5. Base \in Nat \ {0}
    BY Constants
<1> HIDE DEF End, Size
<1> QED BY <1>2, <1>3, <1>4, <1>5

LEMMA ValueNat ==
    ASSUME TypeOK, Stream, NEW p
    PROVE  Value(p) \in Nat
<1>1. \A n \in Packets : Size(n) % Base \in Nat /\ Size(n) \div Base \in Nat
    BY SizeTypes
<1>2. ASSUME NEW j, PacketsAt(p, j) # {}
      PROVE  (CHOOSE n \in PacketsAt(p, j) : TRUE) \in Packets
    BY <1>2 DEF PacketsAt
<1> QED BY <1>1, <1>2, Constants DEF Value

LEMMA SizeInNat ==
    ASSUME TypeOK, Stream, NEW b
    PROVE  SizeIn(b) \in Nat /\ (SizeIn(b) = 0 => Value(b[0]) = 0)
<1>1. Value(b[0]) \in Nat /\ Value(b[1]) \in Nat /\ Base \in Nat
    BY ValueNat, Constants
<1> QED BY <1>1 DEF SizeIn

\* The two bytes of a size are in one packet only.
LEMMA FirstBytes ==
    ASSUME TypeOK, Stream, NEW n \in Packets
    PROVE  /\ PacketsAt(End(n - 1) + 1, 1) = {n}
           /\ PacketsAt(End(n - 1) + 2, 1) = {}
           /\ PacketsAt(End(n - 1) + 2, 2) = {n}
<1>1. n - 1 \in 0 .. Len(ends) /\ n \in 0 .. Len(ends)
    BY EndTypes DEF Packets
<1>2. \A m \in Packets : m - 1 \in 0 .. Len(ends) /\ m \in 0 .. Len(ends)
    BY EndTypes DEF Packets
<1>3. ASSUME NEW m \in Packets
      PROVE  /\ End(m - 1) \in Nat
             /\ m < n => End(m - 1) + 2 <= End(n - 1)
             /\ m > n => End(n - 1) + 2 <= End(m - 1)
    <2>1. /\ m - 1 < n - 1 => End(m - 1) + Header <= End(n - 1)
          /\ m - 1 > n - 1 => End(n - 1) + Header <= End(m - 1)
        BY <1>1, <1>2 DEF Stream
    <2>2. End(m - 1) \in Nat /\ End(n - 1) \in Nat
        BY <1>1, <1>2, EndTypes
    <2>3. n \in Nat /\ m \in Nat /\ Header \in Nat /\ Header >= 2
        BY EndTypes, Constants DEF Packets
    <2> HIDE DEF End
    <2> QED BY <2>1, <2>2, <2>3
<1>4. \A m \in Packets : m \in Nat
    BY DEF Packets
<1> HIDE DEF End
<1> QED BY <1>3, <1>4 DEF PacketsAt

LEMMA FrontSize ==
    ASSUME TypeOK, Stream, NEW n \in Packets, NEW b,
           b[0] = End(n - 1) + 1, b[1] = End(n - 1) + 2
    PROVE  SizeIn(b) = Size(n)
<1>1. /\ (CHOOSE m \in PacketsAt(End(n - 1) + 1, 1) : TRUE) = n
      /\ (CHOOSE m \in PacketsAt(End(n - 1) + 2, 2) : TRUE) = n
    BY FirstBytes
<1>2. Value(b[0]) = Size(n) % Base /\ Value(b[1]) = Size(n) \div Base
    BY <1>1, FirstBytes DEF Value
<1> QED BY <1>2, SizeTypes DEF SizeIn

LEMMA FrontByte ==
    ASSUME TypeOK, Stream, NEW n \in Packets, NEW b, b[0] = End(n - 1) + 1
    PROVE  Value(b[0]) = Size(n) % Base
BY FirstBytes DEF Value

\* Bytes are left of the stream behind End(n - 1): there is a packet n.
LEMMA NextPacket ==
    ASSUME TypeOK, Stream, NEW n \in 1 .. Len(ends) + 1,
           NEW p \in 0 .. End(Len(ends)), End(n - 1) < p
    PROVE  n \in Packets
<1>1. Len(ends) \in Nat /\ End(Len(ends)) \in Nat
    BY EndTypes
<1>2. n # Len(ends) + 1
    BY <1>1
<1> QED BY <1>1, <1>2 DEF Packets

-----------------------------------------------------------------------------
(* The handler of a read. *)

LEMMA ReceiveFacts ==
    ASSUME IInv, NEW k \in 1 .. Room, Receive(k)
    PROVE  /\ com + k \in 1 .. Room /\ taken + k \in 1 .. End(Len(ends))
           /\ taken + k \in 1 .. Room
           /\ Filled(k) \in [Cells -> 0 .. Room]
           /\ \A i \in Cells : i < com + k => Filled(k)[i] = taken - com + 1 + i
           /\ First = Len(delivered) + 1 /\ First \in Packets
           /\ taken - com = End(First - 1)
           /\ Filled(k)[0] = End(First - 1) + 1
           /\ com + k >= 2 => SizeIn(Filled(k)) = Size(First)
<1>1. /\ com \in 0 .. Room /\ taken \in Nat /\ buf \in [Cells -> 0 .. Room]
      /\ k <= End(Len(ends)) - taken /\ reader = "reading"
      /\ delivered \in Seq(Seq(0 .. Room))
    BY EndTypes DEF IInv, TypeOK, Receive
<1>2. /\ First = Len(delivered) + 1 /\ First \in 1 .. Len(ends) + 1
      /\ taken - com = End(First - 1)
      /\ \A i \in Cells : i < com => buf[i] = taken - com + 1 + i
    BY <1>1 DEF IInv, Receiving, Aligned, First
<1>3. First - 1 \in 0 .. Len(ends) /\ Len(ends) \in Nat
    BY <1>2, EndTypes DEF IInv
<1>4. End(First - 1) \in Nat /\ End(Len(ends)) \in 0 .. Room /\ Room \in Nat
    BY <1>3, EndTypes, Constants DEF IInv
<1> HIDE DEF End, First
<1>5. com + k \in 1 .. Room /\ taken + k \in 1 .. End(Len(ends))
      /\ taken + k \in 1 .. Room /\ End(First - 1) < taken + k
    BY <1>1, <1>2, <1>4
<1>6. First \in Packets
    BY <1>2, <1>5, NextPacket DEF IInv, Receiving
<1>7. Filled(k) \in [Cells -> 0 .. Room]
    BY <1>1, <1>4, <1>5 DEF Filled, Cells
<1>8. \A i \in Cells : i < com + k => Filled(k)[i] = taken - com + 1 + i
    BY <1>1, <1>2, <1>4 DEF Filled, Cells
<1>9. 0 \in Cells /\ (com + k >= 2 => 1 \in Cells)
    BY <1>4, <1>5 DEF Cells
<1>10. /\ Filled(k)[0] = End(First - 1) + 1
       /\ com + k >= 2 => Filled(k)[1] = End(First - 1) + 2
    <2>1. /\ Filled(k)[0] = taken - com + 1 + 0
          /\ com + k >= 2 => Filled(k)[1] = taken - com + 1 + 1
        <3> HIDE DEF Filled
        <3>1. com + k \in Int /\ 0 < com + k
            BY <1>1, <1>4, <1>5
        <3>2. Filled(k)[0] = taken - com + 1 + 0
            BY <1>8, <1>9, <3>1
        <3>3. com + k >= 2 => Filled(k)[1] = taken - com + 1 + 1
            BY <1>8, <1>9, <3>1
        <3> QED BY <3>2, <3>3
    <2> QED BY <1>1, <1>2, <1>4, <2>1
<1>11. com + k >= 2 => SizeIn(Filled(k)) = Size(First)
    BY <1>6, <1>10, FrontSize DEF IInv, Receiving
<1> QED BY <1>1, <1>2, <1>5, <1>6, <1>7, <1>8, <1>10, <1>11

\* The loop over several packets.
LEMMA OverFacts ==
    ASSUME IInv, reader \in {"over", "move"}
    PROVE  /\ com \in 1 .. Room /\ First \in Packets
           /\ taken - com = End(First - 1)
           /\ \A i \in Cells : i < com => buf[i] = taken - com + 1 + i
           /\ buf[0] = End(First - 1) + 1 /\ 0 \in Cells
           /\ com >= 2 => SizeIn(buf) = Size(First)
           /\ reader = "move" => /\ com >= 2 /\ Size(First) < com
                                 /\ taken > End(First)
<1>1. /\ com \in 0 .. Room /\ taken \in 0 .. End(Len(ends))
      /\ buf \in [Cells -> 0 .. Room]
    BY DEF IInv, TypeOK
<1>2. /\ First \in 1 .. Len(ends) + 1
      /\ taken - com = End(First - 1)
      /\ \A i \in Cells : i < com => buf[i] = taken - com + 1 + i
    BY DEF IInv, Receiving, Aligned
<1>3. First - 1 \in 0 .. Len(ends) /\ Len(ends) \in Nat
    BY <1>2, EndTypes DEF IInv
<1>4. End(First - 1) \in Nat /\ End(Len(ends)) \in 0 .. Room /\ Room \in Nat
    BY <1>3, EndTypes, Constants DEF IInv
<1>5. reader = "over" => com > 0
    BY DEF IInv, Receiving, Reading
<1>6. ASSUME reader = "move"
      PROVE  /\ First \in Packets /\ com > Size(First) /\ com >= 2
             /\ taken > End(First)
    <2>1. First \in Packets /\ taken > End(First)
        BY <1>1, <1>6 DEF IInv, Receiving, Reading
    <2>2. End(First) = End(First - 1) + Size(First) /\ Size(First) \in Nat
          /\ Size(First) >= 2
        BY <2>1, SizeTypes DEF IInv, Receiving
    <2> HIDE DEF First, End, Size
    <2> QED BY <1>1, <1>2, <1>4, <2>1, <2>2
<1> HIDE DEF End, First, Size
<1>7. com > 0
    BY <1>1, <1>5, <1>6
<1>8. First \in Packets
    <2>1. End(First - 1) < taken
        BY <1>1, <1>2, <1>4, <1>7
    <2> QED BY <1>1, <1>2, <2>1, NextPacket DEF IInv, Receiving
<1>9. 0 \in Cells /\ (com >= 2 => 1 \in Cells)
    BY <1>1, <1>4, <1>7 DEF Cells
<1>10. /\ buf[0] = End(First - 1) + 1
       /\ com >= 2 => buf[1] = End(First - 1) + 2
    BY <1>1, <1>2, <1>4, <1>7, <1>9
<1>11. com >= 2 => SizeIn(buf) = Size(First)
    BY <1>8, <1>10, FrontSize DEF IInv, Receiving
<1> QED BY <1>1, <1>2, <1>4, <1>6, <1>7, <1>8, <1>9, <1>10, <1>11

-----------------------------------------------------------------------------
(* Types are kept. *)

LEMMA AnsweredType ==
    ASSUME TypeOK, NEW b, NEW s \in 0 .. Room, NEW ping \in BOOLEAN,
           NEW at \in {"complete", "over"}, b[0] \in 0 .. Room,
           OnRead(b, s, ping)
    PROVE  /\ Answered(b, s, ping, at) \in Seq(Functions)
           /\ pings' \in 0 .. MaxPings
<1>1. pings \in 0 .. MaxPings /\ pushes \in 0 .. MaxPushes /\ strand \in Seq(Functions)
    BY DEF TypeOK
<1>2. pings' \in 0 .. MaxPings
    <2>1. CASE ping
        BY <1>1, <2>1, Constants DEF OnRead
    <2>2. CASE ~ping
        BY <1>1, <2>2 DEF OnRead
    <2> QED BY <2>1, <2>2
<1>3. ASSUME ping
      PROVE  [op |-> "push", msg |-> pings + pushes + 1, from |-> b[0],
              size |-> s, at |-> at] \in Functions
    <2>1. pings + pushes + 1 \in Messages
        BY <1>1, <1>3, Constants DEF OnRead, Messages
    <2> QED BY <2>1 DEF Functions
<1>4. Answered(b, s, ping, at) \in Seq(Functions)
    BY <1>1, <1>3, AppendProps DEF Answered
<1> QED BY <1>2, <1>4

LEMMA BytesType ==
    ASSUME NEW b \in [Cells -> 0 .. Room], NEW s \in 0 .. Room
    PROVE  Bytes(b, s) \in Seq(0 .. Room)
<1>1. \A k \in 1 .. s : b[k - 1] \in 0 .. Room
    BY Constants DEF Cells
<1> QED BY <1>1, Constants DEF Bytes

LEMMA NextReadType ==
    ASSUME NEW q \in Seq(Functions), NextRead(q)
    PROVE  strand' \in Seq(Functions) /\ reader' = "posted"
BY ReadsAndWrites, AppendProps DEF NextRead

LEMMA ReceiveType ==
    ASSUME IInv, NEW k \in 1 .. Room, Receive(k)
    PROVE  TypeOK'
<1> DEFINE b == Filled(k)
           c == com + k
<1>1. TypeOK
    BY DEF IInv
<1>2. /\ c \in 1 .. Room /\ taken + k \in 1 .. End(Len(ends)) /\ b \in [Cells -> 0 .. Room]
      /\ b[0] = End(First - 1) + 1 /\ First \in Packets
    BY ReceiveFacts
<1>3. taken' = taken + k /\ buf' = b /\ UNCHANGED <<open, ends, pushes, sendVars, echoes>>
    BY DEF Receive
<1>4. b[0] \in 0 .. Room
    <2>1. 0 \in Cells
        BY <1>2, Constants DEF Cells
    <2> HIDE DEF b
    <2> QED BY <1>2, <2>1
<1>5. \/ com' = c /\ NextRead(strand) /\ UNCHANGED <<delivered, pings>>
      \/ com' = 0 /\ \E ping \in BOOLEAN : OnRead(b, c, ping)
                        /\ NextRead(Answered(b, c, ping, "complete"))
      \/ com' = c /\ reader' = "over" /\ UNCHANGED <<delivered, pings, strand>>
    BY DEF Receive
<1> HIDE DEF b, c
<1>6. /\ com' \in 0 .. Room
      /\ reader' \in {"posted", "reading", "over", "move", "spinning", "ended"}
      /\ strand' \in Seq(Functions) /\ pings' \in 0 .. MaxPings
      /\ delivered' \in Seq(Seq(0 .. Room))
    <2>1. CASE com' = c /\ NextRead(strand) /\ UNCHANGED <<delivered, pings>>
        BY <1>1, <1>2, <2>1, NextReadType, Constants DEF TypeOK
    <2>2. ASSUME com' = 0, NEW ping \in BOOLEAN, OnRead(b, c, ping),
                 NextRead(Answered(b, c, ping, "complete"))
          PROVE  /\ com' \in 0 .. Room
                 /\ reader' = "posted"
                 /\ strand' \in Seq(Functions) /\ pings' \in 0 .. MaxPings
                 /\ delivered' \in Seq(Seq(0 .. Room))
        <3>1. Answered(b, c, ping, "complete") \in Seq(Functions) /\ pings' \in 0 .. MaxPings
            BY <1>1, <1>2, <1>4, <2>2, AnsweredType, Constants
        <3>2. delivered' \in Seq(Seq(0 .. Room))
            <4>1. Bytes(b, c) \in Seq(0 .. Room)
                BY <1>2, BytesType, Constants
            <4> QED BY <1>1, <2>2, <4>1, AppendProps DEF OnRead, TypeOK
        <3> QED BY <2>2, <3>1, <3>2, NextReadType, Constants
    <2>3. CASE com' = c /\ reader' = "over" /\ UNCHANGED <<delivered, pings, strand>>
        BY <1>1, <1>2, <2>3, Constants DEF TypeOK
    <2> QED BY <1>5, <2>1, <2>2, <2>3
<1>7. taken' \in 0 .. End(Len(ends))'
    <2>1. End(Len(ends))' = End(Len(ends))
        BY <1>3 DEF End
    <2>2. End(Len(ends)) \in Nat
        BY <1>1, EndTypes, Constants
    <2> QED BY <1>2, <1>3, <2>1, <2>2
<1> QED BY <1>1, <1>2, <1>3, <1>6, <1>7 DEF TypeOK, sendVars

\* What a step leaves alone keeps its type.
LEMMA StreamKept ==
    ASSUME TypeOK, UNCHANGED <<ends, taken>>
    PROVE  /\ ends' \in Seq(0 .. Room) /\ Len(ends') <= MaxPackets
           /\ taken' \in 0 .. End(Len(ends))'
           /\ \A n : End(n)' = End(n)
BY DEF TypeOK, End

LEMMA OverReadType ==
    ASSUME IInv, OverRead
    PROVE  TypeOK'
<1> DEFINE s == SizeIn(buf)
<1>1. TypeOK
    BY DEF IInv
<1>2. /\ reader = "over" /\ com > s
      /\ UNCHANGED <<open, ends, taken, buf, com, pushes, sendVars, echoes>>
    BY DEF OverRead, LoopGoesOn
<1>3. \/ reader' = "spinning" /\ UNCHANGED <<delivered, strand, pings>>
      \/ /\ reader' = "move"
         /\ \E ping \in BOOLEAN : OnRead(buf, s, ping)
                                  /\ strand' = Answered(buf, s, ping, "over")
    BY DEF OverRead
<1>4. /\ com \in 1 .. Room /\ buf[0] \in 0 .. Room /\ buf \in [Cells -> 0 .. Room]
    BY <1>1, <1>2, OverFacts DEF TypeOK
<1>5. s \in 0 .. Room
    <2>1. s \in Nat
        BY <1>1, SizeInNat DEF IInv, Receiving
    <2> HIDE DEF s
    <2> QED BY <1>2, <1>4, <2>1, Constants
<1> HIDE DEF s
<1>6. /\ reader' \in {"move", "spinning"}
      /\ strand' \in Seq(Functions) /\ pings' \in 0 .. MaxPings
      /\ delivered' \in Seq(Seq(0 .. Room))
    <2>1. CASE reader' = "spinning" /\ UNCHANGED <<delivered, strand, pings>>
        BY <1>1, <2>1 DEF TypeOK
    <2>2. ASSUME reader' = "move", NEW ping \in BOOLEAN, OnRead(buf, s, ping),
                 strand' = Answered(buf, s, ping, "over")
          PROVE  /\ reader' = "move"
                 /\ strand' \in Seq(Functions) /\ pings' \in 0 .. MaxPings
                 /\ delivered' \in Seq(Seq(0 .. Room))
        <3>1. strand' \in Seq(Functions) /\ pings' \in 0 .. MaxPings
            BY <1>1, <1>4, <1>5, <2>2, AnsweredType
        <3>2. delivered' \in Seq(Seq(0 .. Room))
            <4>1. Bytes(buf, s) \in Seq(0 .. Room)
                BY <1>4, <1>5, BytesType
            <4> QED BY <1>1, <2>2, <4>1, AppendProps DEF OnRead, TypeOK
        <3> QED BY <2>2, <3>1, <3>2
    <2> QED BY <1>3, <2>1, <2>2
<1> QED BY <1>1, <1>2, <1>6, StreamKept DEF TypeOK, sendVars

LEMMA OverMoveType ==
    ASSUME IInv, OverMove
    PROVE  TypeOK'
<1> DEFINE s == SizeIn(buf)
<1>1. TypeOK
    BY DEF IInv
<1>2. com \in 1 .. Room /\ s = Size(First) /\ s < com /\ First \in Packets
    BY OverFacts DEF OverMove
<1>3. s \in Nat
    BY <1>1, SizeInNat DEF IInv, Receiving
<1> HIDE DEF s
<1>4. Moved(s) \in [Cells -> 0 .. Room]
    <2>1. \A i \in Cells : i < com - s => i + s \in Cells
        BY <1>2, <1>3, Constants DEF Cells
    <2>2. buf \in [Cells -> 0 .. Room]
        BY <1>1 DEF TypeOK
    <2> QED BY <2>1, <2>2 DEF Moved
<1>5. com - s \in 0 .. Room
    BY <1>2, <1>3, Constants
<1>6. /\ buf' = Moved(s) /\ com' = com - s /\ reader' = "over"
      /\ UNCHANGED <<open, ends, taken, delivered, strand, pings, pushes,
                     sendVars, echoes>>
    BY DEF OverMove, s
<1> QED BY <1>1, <1>4, <1>5, <1>6, StreamKept DEF TypeOK, sendVars

\* The functions of the strand and the queues behind them.
LEMMA BuffersOf ==
    /\ \A m \in Messages, d \in 0 .. Parts : [msg |-> m, done |-> d] \in Buffers
    /\ \A m \in Messages, d \in 1 .. Parts :
          [op |-> "requeue", msg |-> m, done |-> d] \in Functions
    /\ \A w \in Buffers : w.msg \in Messages /\ w.done \in 0 .. Parts
BY DEF Buffers, Functions

LEMMA RunPushType ==
    ASSUME TypeOK, RunPush
    PROVE  TypeOK'
<1>1. strand \in Seq(Functions) /\ sendq \in Seq(Buffers) /\ strand # <<>>
    BY DEF TypeOK, RunPush, Turn
<1>2. Head(strand) \in Functions /\ Head(strand).op = "push"
    BY <1>1, TailProps DEF RunPush, Turn
<1>3. Head(strand).msg \in Messages /\ Head(strand).at \in {"complete", "over"}
    BY <1>2, FunctionKinds
<1>4. sendq' \in Seq(Buffers)
    BY <1>1, <1>3, BuffersOf, AppendProps, Constants DEF RunPush
<1>5. echoes' \in SUBSET [at : {"complete", "over"}, good : BOOLEAN]
    <2> DEFINE p == Head(strand)
               good == \A k \in Header .. p.size - 1 : buf[k] = p.from + k
    <2>1. echoes' = IF p.size = 0 THEN echoes
                    ELSE echoes \cup {[at |-> p.at, good |-> good]}
        BY DEF RunPush
    <2>2. good \in BOOLEAN /\ p.at \in {"complete", "over"}
        BY <1>3
    <2> HIDE DEF p, good
    <2> QED BY <2>1, <2>2 DEF TypeOK
<1>6. strand' \in Seq(Functions)
    BY <1>1, TailProps, AppendProps, ReadsAndWrites DEF RunPush
<1> QED BY <1>4, <1>5, <1>6, StreamKept DEF TypeOK, RunPush, readVars

LEMMA RunRequeueType ==
    ASSUME TypeOK, RunRequeue
    PROVE  TypeOK'
<1>1. strand \in Seq(Functions) /\ sendq \in Seq(Buffers) /\ strand # <<>>
    BY DEF TypeOK, RunRequeue, Turn
<1>2. Head(strand) \in Functions /\ Head(strand).op = "requeue"
    BY <1>1, TailProps DEF RunRequeue, Turn
<1>3. Head(strand).msg \in Messages /\ Head(strand).done \in 0 .. Parts
    BY <1>2, FunctionKinds
<1>4. sendq' \in Seq(Buffers)
    BY <1>1, <1>3, BuffersOf, AppendProps DEF RunRequeue
<1>5. strand' \in Seq(Functions)
    BY <1>1, TailProps DEF RunRequeue
<1> QED BY <1>4, <1>5, StreamKept DEF TypeOK, RunRequeue, readVars

LEMMA RunWriteType ==
    ASSUME TypeOK, RunWrite
    PROVE  TypeOK'
<1>1. strand \in Seq(Functions) /\ sendq \in Seq(Buffers) /\ strand # <<>>
      /\ writes \in Seq(Buffers)
    BY DEF TypeOK, RunWrite, Turn
<1>2. strand' \in Seq(Functions)
    BY <1>1, TailProps DEF RunWrite
<1>3. sendq' \in Seq(Buffers) /\ writes' \in Seq(Buffers)
    <2>1. CASE sendq = <<>>
        BY <1>1, <2>1 DEF RunWrite
    <2>2. CASE sendq # <<>>
        <3>1. Head(sendq) \in Buffers /\ Tail(sendq) \in Seq(Buffers)
            BY <1>1, <2>2, TailProps
        <3>2. writes' = Append(writes, Head(sendq)) /\ sendq' = Tail(sendq)
            BY <2>2 DEF RunWrite
        <3> QED BY <1>1, <3>1, <3>2, AppendProps
    <2> QED BY <2>1, <2>2
<1> QED BY <1>2, <1>3, StreamKept DEF TypeOK, RunWrite, readVars

\* The parts that the socket takes of a buffer.
Taken(w, k) == [j \in 1 .. k |-> [msg |-> w.msg, part |-> w.done + j]]

LEMMA TakenType ==
    ASSUME NEW w \in Buffers, NEW k \in 1 .. Parts, k <= Parts - w.done
    PROVE  /\ Taken(w, k) \in Seq([msg : Messages, part : 1 .. Parts])
           /\ Len(Taken(w, k)) = k
           /\ w.done + k \in 1 .. Parts /\ [w EXCEPT !.done = @ + k] \in Buffers
           /\ [w EXCEPT !.done = @ + k] = [msg |-> w.msg, done |-> w.done + k]
<1>1. w.msg \in Messages /\ w.done \in 0 .. Parts /\ k \in Nat /\ Parts \in Nat
    BY BuffersOf, Constants
<1>2. w.done + k \in 1 .. Parts /\ \A j \in 1 .. k : w.done + j \in 1 .. Parts
    BY <1>1
<1>3. [w EXCEPT !.done = @ + k] = [msg |-> w.msg, done |-> w.done + k]
    BY DEF Buffers
<1>4. Taken(w, k) \in Seq([msg : Messages, part : 1 .. Parts]) /\ Len(Taken(w, k)) = k
    BY <1>1, <1>2 DEF Taken
<1> QED BY <1>1, <1>2, <1>3, <1>4, BuffersOf

LEMMA SocketTakesType ==
    ASSUME TypeOK, NEW k \in 1 .. Parts, SocketTakes(k)
    PROVE  TypeOK'
<1> DEFINE w == Head(writes)
<1>1. writes \in Seq(Buffers) /\ writes # <<>> /\ w \in Buffers
      /\ Tail(writes) \in Seq(Buffers)
    BY TailProps DEF TypeOK, SocketTakes
<1>2. /\ sent' = sent \o Taken(w, k)
      /\ finished' = finished \cup {[w EXCEPT !.done = @ + k]}
      /\ k <= Parts - w.done
      /\ writes' = Tail(writes)
      /\ UNCHANGED <<open, readVars, strand, pings, pushes, sendq, echoes>>
    BY DEF SocketTakes, Taken
<1> HIDE DEF w
<1>3. /\ Taken(w, k) \in Seq([msg : Messages, part : 1 .. Parts])
      /\ [w EXCEPT !.done = @ + k] \in {b \in Buffers : b.done > 0}
    <2>1. /\ [w EXCEPT !.done = @ + k] = [msg |-> w.msg, done |-> w.done + k]
          /\ [w EXCEPT !.done = @ + k] \in Buffers /\ w.done + k \in 1 .. Parts
        BY <1>1, <1>2, TakenType
    <2>2. [w EXCEPT !.done = @ + k].done > 0
        BY <2>1
    <2> QED BY <1>1, <1>2, <2>1, <2>2, TakenType
<1>4. sent' \in Seq([msg : Messages, part : 1 .. Parts])
    BY <1>2, <1>3 DEF TypeOK
<1> QED BY <1>1, <1>2, <1>3, <1>4, StreamKept DEF TypeOK, readVars

\* The strand behind the functions of a completed write.
LEMMA AfterWriteProps ==
    ASSUME TypeOK, NEW f \in finished
    PROVE  /\ f \in Buffers /\ Again(f) \in Functions
           /\ strand \in Seq(Functions) /\ Append(strand, Again(f)) \in Seq(Functions)
           /\ strand \o AfterWrite(f) =
                 IF f.done < Parts
                 THEN Append(Append(strand, Again(f)), [op |-> "write"])
                 ELSE Append(strand, [op |-> "write"])
           /\ strand \o AfterWrite(f) \in Seq(Functions)
<1>1. strand \in Seq(Functions) /\ f \in Buffers /\ f.done > 0
    BY DEF TypeOK
<1>2. Again(f) \in Functions
    <2>1. f.msg \in Messages /\ f.done \in 1 .. Parts
        BY <1>1, BuffersOf, Constants
    <2> QED BY <2>1, BuffersOf DEF Again
<1>3. Append(strand, Again(f)) \in Seq(Functions)
    BY <1>1, <1>2, AppendProps
<1>4. /\ strand \o <<Again(f), [op |-> "write"]>>
            = Append(Append(strand, Again(f)), [op |-> "write"])
      /\ strand \o <<[op |-> "write"]>> = Append(strand, [op |-> "write"])
    BY <1>1, <1>2, ReadsAndWrites
<1>5. Append(Append(strand, Again(f)), [op |-> "write"]) \in Seq(Functions)
      /\ Append(strand, [op |-> "write"]) \in Seq(Functions)
    BY <1>1, <1>3, ReadsAndWrites, AppendProps
<1> QED BY <1>1, <1>2, <1>3, <1>4, <1>5 DEF AfterWrite

LEMMA TypeStep ==
    ASSUME IInv, [Next]_vars
    PROVE  TypeOK'
<1>1. TypeOK
    BY DEF IInv
<1>2. ASSUME NEW s \in Sizes, ClientSend(s) PROVE TypeOK'
    <2>1. /\ ends' \in Seq(0 .. Room) /\ Len(ends') <= MaxPackets
          /\ Len(ends') = Len(ends) + 1
        <3>1. Len(ends) \in Nat /\ MaxPackets \in Nat /\ Len(ends) < MaxPackets
            BY <1>1, <1>2, SessionAssumption, EndTypes DEF ClientSend, SessionAssumption
        <3> QED BY <1>1, <1>2, <3>1, StreamGrows
    <2>2. taken' \in 0 .. End(Len(ends))'
        <3>1. End(Len(ends)) \in Nat /\ s \in Nat /\ taken' = taken
              /\ taken \in 0 .. End(Len(ends)) /\ End(Len(ends))' = End(Len(ends)) + s
            BY <1>1, <1>2, StreamGrows, EndTypes, Constants DEF ClientSend, TypeOK
        <3> QED BY <3>1
    <2> QED BY <1>1, <1>2, <2>1, <2>2 DEF TypeOK, ClientSend, sendVars
<1>3. CASE ClientClose
    BY <1>1, <1>3, StreamKept DEF TypeOK, ClientClose, readVars, sendVars
<1>4. CASE RunRead
    <2>1. strand' \in Seq(Functions)
        BY <1>1, <1>4, TailProps DEF TypeOK, RunRead, Turn
    <2> QED BY <1>1, <1>4, <2>1, StreamKept DEF TypeOK, RunRead, sendVars
<1>5. CASE OverEnd
    <2>1. strand' \in Seq(Functions) /\ reader' = "posted"
        BY <1>1, <1>5, NextReadType DEF TypeOK, OverEnd
    <2> QED BY <1>1, <1>5, <2>1, StreamKept DEF TypeOK, OverEnd, sendVars
<1>6. CASE ReadEnds
    BY <1>1, <1>6, StreamKept DEF TypeOK, ReadEnds, sendVars
<1>7. CASE PushSend
    <2>1. pings + pushes + 1 \in Messages /\ pushes' \in 0 .. MaxPushes
        BY <1>1, <1>7, Constants DEF TypeOK, PushSend, Messages
    <2>2. [op |-> "push", msg |-> pings + pushes + 1, from |-> 0, size |-> 0,
           at |-> "complete"] \in Functions
        BY <2>1, Constants DEF Functions
    <2>3. strand' \in Seq(Functions)
        BY <1>1, <1>7, <2>2, AppendProps DEF TypeOK, PushSend
    <2> QED BY <1>1, <1>7, <2>1, <2>3, StreamKept DEF TypeOK, PushSend, readVars, sendVars
<1>8. CASE WriteFails
    <2>1. writes' \in Seq(Buffers)
        BY <1>1, <1>8, TailProps DEF TypeOK, WriteFails
    <2> QED BY <1>1, <1>8, <2>1, StreamKept DEF TypeOK, WriteFails, readVars
<1>9. ASSUME NEW f \in finished, WriteDone(f) PROVE TypeOK'
    <2>1. strand' \in Seq(Functions)
        BY <1>1, <1>9, AfterWriteProps DEF WriteDone
    <2> QED BY <1>1, <1>9, <2>1, StreamKept DEF TypeOK, WriteDone, readVars
<1>10. CASE UNCHANGED vars
    BY <1>1, <1>10, StreamKept DEF TypeOK, vars, readVars, sendVars
<1> QED BY <1>1, <1>2, <1>3, <1>4, <1>5, <1>6, <1>7, <1>8, <1>9, <1>10,
           ReceiveType, OverReadType, OverMoveType, RunPushType, RunRequeueType,
           RunWriteType, SocketTakesType
        DEF Next

-----------------------------------------------------------------------------
(* Receiving: every step keeps the buffer in line with the client's stream.  *)

LEMMA StreamSame ==
    ASSUME UNCHANGED ends
    PROVE  /\ \A n : End(n)' = End(n) /\ Size(n)' = Size(n)
           /\ Packets' = Packets /\ Len(ends') = Len(ends)
           /\ Stream => Stream'
BY DEF End, Size, Packets, Stream

LEMMA ReceivingKept ==
    ASSUME IInv, UNCHANGED readVars
    PROVE  Receiving'
BY DEF IInv, Receiving, Stream, Aligned, Reading, WholePackets, SpinsOnSplitSize,
       First, End, Size, Packets, readVars

LEMMA ReceivingClientSend ==
    ASSUME IInv, NEW s \in Sizes, ClientSend(s)
    PROVE  Receiving'
<1>1. TypeOK /\ Stream /\ Aligned /\ Reading /\ WholePackets /\ SpinsOnSplitSize
    BY DEF IInv, Receiving
<1>2. UNCHANGED <<open, taken, buf, com, reader, delivered>>
    BY DEF ClientSend
<1> PICK L \in Nat : L = Len(ends)
    BY <1>1, EndTypes
<1>3. /\ Len(ends') = L + 1
      /\ \A n \in 0 .. L : End(n)' = End(n) /\ End(n) \in 0 .. Room
      /\ End(Len(ends))' = End(L) + s
      /\ s \in Nat /\ s >= Header
    BY <1>1, StreamGrows
<1>4. End(L + 1)' = End(L) + s
    BY <1>3 DEF End
<1>5. /\ Packets = 1 .. L /\ Packets' = 1 .. L + 1
      /\ \A n \in Packets : n \in Packets' /\ n \in 0 .. L /\ n - 1 \in 0 .. L
    BY <1>3 DEF Packets
<1>6. \A n \in Packets : Size(n)' = Size(n)
    BY <1>3, <1>5 DEF Size
<1> PICK F : F = First
    OBVIOUS
<1>7. First' = F
    BY <1>2 DEF First
<1>8. /\ F \in 1 .. L + 1 /\ taken - com = End(F - 1) /\ F - 1 \in 0 .. L
      /\ taken \in 0 .. End(L) /\ End(L) \in Nat /\ com \in 0 .. Room
    BY <1>1, <1>3, EndTypes DEF Aligned, TypeOK
<1> HIDE DEF End, First
<1>9. Stream'
    <2>1. Size(L + 1)' = s
        <3>1. Size(L + 1)' = End(L + 1)' - End(L)'
            BY DEF Size
        <3>2. End(L)' = End(L) /\ End(L) \in Nat
            BY <1>3
        <3> QED BY <1>3, <1>4, <3>1, <3>2
    <2>2. \A n \in Packets' : Size(n)' \in Sizes
        BY <1>1, <1>5, <1>6, <2>1 DEF Stream
    <2>3. ASSUME NEW m \in 0 .. L + 1, NEW n \in 0 .. L + 1, m < n
          PROVE  End(m)' + Header <= End(n)'
        <3>1. CASE n \in 0 .. L
            BY <1>1, <1>3, <2>3, <3>1 DEF Stream
        <3>2. CASE n = L + 1
            <4>1. m \in 0 .. L /\ End(m)' = End(m) /\ End(m) \in Nat /\ End(L) \in Nat
                BY <1>3, <2>3, <3>2
            <4>2. End(m) <= End(L)
                <5>1. m = L \/ End(m) + Header <= End(L)
                    BY <1>1, <4>1 DEF Stream
                <5> QED BY <4>1, <5>1, Constants
            <4> QED BY <1>3, <1>4, <3>2, <4>1, <4>2, Constants
        <3> QED BY <3>1, <3>2
    <2> QED BY <1>3, <2>2, <2>3 DEF Stream
<1>10. Aligned'
    BY <1>1, <1>2, <1>3, <1>7, <1>8 DEF Aligned
<1>11. Reading'
    <2>1. F \in Packets => End(F)' = End(F)
        BY <1>3, <1>5
    <2>2. F \in Packets' /\ F \notin Packets => taken <= End(F)'
        <3>1. SUFFICES ASSUME F = L + 1 PROVE taken <= End(F)'
            BY <1>5
        <3> QED BY <1>3, <1>4, <1>8, <3>1
    <2> QED BY <1>1, <1>2, <1>5, <1>7, <2>1, <2>2 DEF Reading
<1>12. WholePackets'
    <2>1. \A n \in Packets : End(n - 1)' = End(n - 1)
        BY <1>3, <1>5
    <2> QED BY <1>1, <1>2, <1>5, <1>6, <2>1 DEF WholePackets
<1>13. SpinsOnSplitSize'
    <2>1. \A n \in Packets : End(n - 1)' = End(n - 1)
        BY <1>3, <1>5
    <2> QED BY <1>1, <1>2, <1>5, <1>6, <2>1 DEF SpinsOnSplitSize
<1> QED BY <1>9, <1>10, <1>11, <1>12, <1>13 DEF Receiving

\* On_Read is called for the front packet.
LEMMA DeliveredMore ==
    ASSUME TypeOK, Stream, WholePackets, UNCHANGED ends,
           NEW F \in Packets, F = Len(delivered) + 1, NEW b, NEW s, s = Size(F),
           \A i \in 0 .. s - 1 : b[i] = End(F - 1) + 1 + i,
           delivered' = Append(delivered, Bytes(b, s)),
           Bytes(b, s) \in Seq(0 .. Room)
    PROVE  WholePackets' /\ Len(delivered') = F
<1>1. delivered \in Seq(Seq(0 .. Room))
    BY DEF TypeOK
<1>2. /\ Len(delivered') = F /\ Len(delivered) \in Nat
      /\ \A n \in 1 .. Len(delivered) : delivered'[n] = delivered[n]
      /\ delivered'[F] = Bytes(b, s)
    BY <1>1, AppendProps
<1>3. s \in Nat /\ End(F - 1) \in Nat
    BY SizeTypes
<1>4. Bytes(b, s) = [k \in 1 .. Size(F) |-> End(F - 1) + k]
    <2> HIDE DEF End, Size
    <2>1. \A k \in 1 .. s : k - 1 \in 0 .. s - 1 /\ End(F - 1) + 1 + (k - 1) = End(F - 1) + k
        BY <1>3
    <2>2. \A k \in 1 .. s : b[k - 1] = End(F - 1) + k
        BY <2>1
    <2> QED BY <2>2 DEF Bytes
<1>5. ASSUME NEW n \in 1 .. Len(delivered')
      PROVE  n \in Packets /\ delivered'[n] = [k \in 1 .. Size(n) |-> End(n - 1) + k]
    <2>1. CASE n = F
        BY <1>2, <1>4, <2>1
    <2>2. CASE n # F
        <3>1. n \in 1 .. Len(delivered)
            BY <1>2, <1>5, <2>2
        <3> QED BY <1>2, <3>1 DEF WholePackets
    <2> QED BY <2>1, <2>2
<1>6. WholePackets'
    BY <1>5, StreamSame DEF WholePackets
<1> QED BY <1>2, <1>6

LEMMA ReceivingReceive ==
    ASSUME IInv, NEW k \in 1 .. Room, Receive(k)
    PROVE  Receiving'
<1> DEFINE b == Filled(k)
           c == com + k
<1>1. TypeOK /\ Stream /\ WholePackets /\ SpinsOnSplitSize
    BY DEF IInv, Receiving
<1> PICK F : F = First
    OBVIOUS
<1>2. /\ c \in 1 .. Room /\ b \in [Cells -> 0 .. Room]
      /\ \A i \in Cells : i < c => b[i] = taken - com + 1 + i
      /\ F = Len(delivered) + 1 /\ F \in Packets /\ taken - com = End(F - 1)
      /\ c >= 2 => SizeIn(b) = Size(F)
    BY ReceiveFacts
<1>3. taken' = taken + k /\ buf' = b /\ UNCHANGED <<open, ends, pushes, sendVars, echoes>>
    BY DEF Receive
<1>4. \/ /\ Short(c) \/ SizeIn(b) > c
         /\ com' = c /\ NextRead(strand) /\ UNCHANGED <<delivered, pings>>
      \/ /\ ~Short(c) /\ SizeIn(b) = c
         /\ com' = 0 /\ \E ping \in BOOLEAN : OnRead(b, c, ping)
                           /\ NextRead(Answered(b, c, ping, "complete"))
      \/ /\ com' = c /\ reader' = "over" /\ UNCHANGED <<delivered, pings, strand>>
    BY DEF Receive
<1>5. com \in Int /\ taken \in Nat /\ k \in Nat /\ reader = "reading" /\ Room \in Nat
    BY <1>1, EndTypes, Constants DEF TypeOK, Receive
<1>6. /\ Size(F) \in Nat /\ Size(F) >= 2 /\ End(F - 1) \in Nat /\ End(F) \in Nat
      /\ End(F) = End(F - 1) + Size(F)
    BY <1>1, <1>2, SizeTypes
<1>7. /\ c = com + k /\ taken' - c = End(F - 1) /\ taken' = End(F - 1) + c
      /\ taken' \in Nat
    <2> HIDE DEF End
    <2> QED BY <1>2, <1>3, <1>5, <1>6
<1>8. F \in 1 .. Len(ends) /\ Len(ends) \in Nat
    BY <1>1, <1>2, EndTypes DEF Packets
<1>9. Stream'
    BY <1>1, <1>3, StreamSame
<1>13. ASSUME First' = F PROVE End(First - 1)' = taken' - c
    <2>1. End(First - 1)' = End(F - 1)
        BY <1>3, <1>13 DEF End
    <2> QED BY <1>7, <2>1
<1> HIDE DEF End, First, Size, b, c
<1>14. \A i \in Cells : i < c => b[i] = taken' - c + 1 + i
    BY <1>2, <1>7
<1>10. CASE /\ Short(c) \/ SizeIn(b) > c
            /\ com' = c /\ NextRead(strand) /\ UNCHANGED <<delivered, pings>>
    <2>1. reader' = "posted" /\ First' = F
        BY <1>2, <1>10 DEF NextRead, First
    <2>2. Aligned'
        BY <1>3, <1>8, <1>13, <1>14, <1>10, <2>1, StreamSame DEF Aligned
    <2>3. c < Size(F)
        <3>1. CASE Short(c)
            BY <1>2, <1>6, <3>1, Constants DEF Short
        <3>2. CASE ~Short(c) /\ SizeIn(b) > c
            BY <1>2, <1>6, <3>2, Constants DEF Short
        <3> QED BY <1>10, <3>1, <3>2
    <2>4. Reading'
        BY <1>2, <1>3, <1>6, <1>7, <2>1, <2>3, StreamSame DEF Reading
    <2>5. WholePackets' /\ SpinsOnSplitSize'
        BY <1>1, <1>3, <1>10, <2>1, StreamSame DEF WholePackets, SpinsOnSplitSize
    <2> QED BY <1>9, <2>2, <2>4, <2>5 DEF Receiving
<1>11. ASSUME ~Short(c), SizeIn(b) = c, com' = 0, NEW ping \in BOOLEAN,
              OnRead(b, c, ping), NextRead(Answered(b, c, ping, "complete"))
       PROVE  Receiving'
    <2>1. c = Size(F) /\ taken' = End(F)
        <3>1. c >= 2
            BY <1>2, <1>5, <1>11 DEF Short
        <3>2. c = Size(F)
            BY <1>2, <1>11, <3>1
        <3> QED BY <1>6, <1>7, <3>2
    <2>2. WholePackets' /\ Len(delivered') = F
        <3>1. \A i \in 0 .. c - 1 : b[i] = End(F - 1) + 1 + i
            BY <1>2, <1>5 DEF Cells
        <3>2. delivered' = Append(delivered, Bytes(b, c))
            BY <1>11 DEF OnRead
        <3>3. Bytes(b, c) \in Seq(0 .. Room)
            BY <1>2, <1>5, BytesType
        <3> QED BY <1>1, <1>2, <1>3, <2>1, <3>1, <3>2, <3>3, DeliveredMore
    <2>3. reader' = "posted" /\ First' = F + 1
        BY <1>11, <2>2 DEF NextRead, First
    <2>4. Aligned'
        BY <1>3, <1>5, <1>6, <1>8, <1>11, <2>1, <2>3, StreamSame DEF Aligned, Cells
    <2>5. Reading'
        <3>1. ASSUME F + 1 \in Packets PROVE End(F) <= End(F + 1)
            <4>1. End(F) + Header <= End(F + 1)
                BY <1>1, <1>8, <3>1 DEF Stream, Packets
            <4>2. End(F + 1) \in Nat
                BY <1>1, <3>1, SizeTypes
            <4> QED BY <1>6, <4>1, <4>2, Constants
        <3>2. First' \in Packets' => taken' <= End(First)'
            <4>1. End(First)' = End(F + 1)
                BY <1>3, <2>3 DEF End
            <4> QED BY <1>3, <2>1, <2>3, <3>1, <4>1, StreamSame
        <3> QED BY <2>3, <3>2 DEF Reading
    <2>6. SpinsOnSplitSize'
        BY <2>3 DEF SpinsOnSplitSize
    <2> QED BY <1>9, <2>2, <2>4, <2>5, <2>6 DEF Receiving
<1>12. CASE com' = c /\ reader' = "over" /\ UNCHANGED <<delivered, pings, strand>>
    <2>1. First' = F
        BY <1>2, <1>12 DEF First
    <2>2. Aligned'
        BY <1>3, <1>8, <1>13, <1>14, <1>12, <2>1, StreamSame DEF Aligned
    <2>3. Reading'
        BY <1>2, <1>12 DEF Reading
    <2>4. WholePackets' /\ SpinsOnSplitSize'
        BY <1>1, <1>3, <1>12, <2>1, StreamSame DEF WholePackets, SpinsOnSplitSize
    <2> QED BY <1>9, <2>2, <2>3, <2>4 DEF Receiving
<1> QED BY <1>4, <1>10, <1>11, <1>12

LEMMA ReceivingOverRead ==
    ASSUME IInv, OverRead
    PROVE  Receiving'
<1> DEFINE s == SizeIn(buf)
<1>1. TypeOK /\ Stream /\ WholePackets
    BY DEF IInv, Receiving
<1>2. /\ reader = "over" /\ com > s
      /\ UNCHANGED <<open, ends, taken, buf, com, pushes, sendVars, echoes>>
    BY DEF OverRead, LoopGoesOn
<1>3. \/ s = 0 /\ reader' = "spinning" /\ UNCHANGED <<delivered, strand, pings>>
      \/ /\ s # 0 /\ reader' = "move"
         /\ \E ping \in BOOLEAN : OnRead(buf, s, ping)
                                  /\ strand' = Answered(buf, s, ping, "over")
    BY DEF OverRead
<1> PICK F : F = First
    OBVIOUS
<1>4. /\ com \in 1 .. Room /\ F \in Packets /\ taken - com = End(F - 1)
      /\ \A i \in Cells : i < com => buf[i] = taken - com + 1 + i
      /\ buf[0] = End(F - 1) + 1
      /\ com >= 2 => s = Size(F)
    BY <1>2, OverFacts
<1>5. /\ Size(F) \in Nat /\ Size(F) >= 2 /\ End(F - 1) \in Nat /\ End(F) \in Nat
      /\ End(F) = End(F - 1) + Size(F)
    BY <1>1, <1>4, SizeTypes
<1>6. s \in Nat /\ (s = 0 => Value(buf[0]) = 0) /\ Value(buf[0]) = Size(F) % Base
    BY <1>1, <1>4, SizeInNat, FrontByte
<1>7. F = Len(delivered) + 1 /\ F \in 1 .. Len(ends) /\ Len(ends) \in Nat
      /\ taken \in Nat /\ Room \in Nat
    BY <1>1, <1>2, <1>4, EndTypes, Constants DEF First, Packets
<1>8. Stream'
    BY <1>1, <1>2, StreamSame
<1>9. ASSUME First' = F PROVE End(First - 1)' = taken - com
    <2>1. End(First - 1)' = End(F - 1)
        BY <1>2, <1>9 DEF End
    <2> QED BY <1>4, <2>1
<1> HIDE DEF End, First, Size, s
<1>10. ASSUME First' = F PROVE Aligned'
    BY <1>2, <1>4, <1>7, <1>9, <1>10, StreamSame DEF Aligned
<1>11. CASE s = 0 /\ reader' = "spinning" /\ UNCHANGED <<delivered, strand, pings>>
    <2>1. First' = F
        BY <1>7, <1>11 DEF First
    <2>2. Reading'
        BY <1>11 DEF Reading
    <2>3. com = 1
        BY <1>4, <1>5, <1>11, <1>7
    <2>4. taken = End(F - 1) + 1
        BY <1>4, <1>5, <1>7, <2>3
    <2>5. SpinsOnSplitSize'
        BY <1>2, <1>4, <1>6, <1>11, <2>4, StreamSame DEF SpinsOnSplitSize
    <2>6. WholePackets'
        BY <1>1, <1>2, <1>11, StreamSame DEF WholePackets
    <2> QED BY <1>8, <1>10, <2>1, <2>2, <2>5, <2>6 DEF Receiving
<1>12. ASSUME s # 0, reader' = "move", NEW ping \in BOOLEAN, OnRead(buf, s, ping)
       PROVE  Receiving'
    <2>1. com >= 2 /\ s = Size(F)
        BY <1>2, <1>4, <1>6, <1>12, Constants
    <2>2. WholePackets' /\ Len(delivered') = F
        <3>1. \A i \in 0 .. s - 1 : buf[i] = End(F - 1) + 1 + i
            <4>1. \A i \in 0 .. s - 1 : i \in Cells /\ i < com
                BY <1>2, <1>4, <1>6, Constants DEF Cells
            <4> QED BY <1>4, <4>1
        <3>2. delivered' = Append(delivered, Bytes(buf, s))
            BY <1>12 DEF OnRead
        <3>3. Bytes(buf, s) \in Seq(0 .. Room)
            <4>1. s \in 0 .. Room /\ buf \in [Cells -> 0 .. Room]
                BY <1>1, <1>2, <1>4, <1>6, Constants DEF TypeOK
            <4> QED BY <4>1, BytesType
        <3> QED BY <1>1, <1>2, <1>4, <1>7, <2>1, <3>1, <3>2, <3>3, DeliveredMore
    <2>3. First' = F
        BY <1>12, <2>2 DEF First
    <2>4. End(F) < taken
        BY <1>2, <1>4, <1>5, <1>7, <2>1
    <2>5. Reading'
        BY <1>2, <1>4, <1>12, <2>3, <2>4, StreamSame DEF Reading
    <2>6. SpinsOnSplitSize'
        BY <1>12 DEF SpinsOnSplitSize
    <2> QED BY <1>8, <1>10, <2>2, <2>3, <2>5, <2>6 DEF Receiving
<1> QED BY <1>3, <1>11, <1>12

LEMMA ReceivingOverMove ==
    ASSUME IInv, OverMove
    PROVE  Receiving'
<1> DEFINE s == SizeIn(buf)
<1>1. TypeOK /\ Stream /\ WholePackets
    BY DEF IInv, Receiving
<1>2. /\ reader = "move" /\ buf' = Moved(s) /\ com' = com - s /\ reader' = "over"
      /\ UNCHANGED <<open, ends, taken, delivered, strand, pings, pushes,
                     sendVars, echoes>>
    BY DEF OverMove
<1> PICK F : F = First
    OBVIOUS
<1>3. /\ com \in 1 .. Room /\ F \in Packets /\ taken - com = End(F - 1)
      /\ \A i \in Cells : i < com => buf[i] = taken - com + 1 + i
      /\ s = Size(F) /\ s < com
    BY <1>2, OverFacts
<1>4. /\ Size(F) \in Nat /\ Size(F) >= 2 /\ End(F - 1) \in Nat /\ End(F) \in Nat
      /\ End(F) = End(F - 1) + Size(F)
    BY <1>1, <1>3, SizeTypes
<1>5. F = Len(delivered) /\ F \in 1 .. Len(ends) /\ Len(ends) \in Nat
      /\ taken \in Nat /\ Room \in Nat
    BY <1>1, <1>2, <1>3, EndTypes, Constants DEF First, Packets
<1>6. First' = F + 1
    BY <1>2, <1>5 DEF First
<1>7. End(First - 1)' = End(F)
    BY <1>2, <1>5, <1>6 DEF End
<1> HIDE DEF End, First, Size, s
<1>8. taken - com' = End(F) /\ com' > 0
    BY <1>2, <1>3, <1>4, <1>5
<1>9. \A i \in Cells : i < com' => buf'[i] = taken - com' + 1 + i
    <2>1. ASSUME NEW i \in Cells, i < com'
          PROVE  i + s \in Cells /\ i + s < com /\ buf'[i] = buf[i + s]
        <3>1. i \in 0 .. Room - 1 /\ i < com - s /\ com \in 1 .. Room /\ s \in Nat
            BY <1>2, <1>3, <1>4, <2>1 DEF Cells
        <3>2. i + s \in 0 .. Room - 1 /\ i + s < com
            BY <1>5, <3>1
        <3>3. buf' = [j \in Cells |-> IF j < com - s THEN buf[j + s] ELSE buf[j]]
            BY <1>2 DEF Moved
        <3> QED BY <3>1, <3>2, <3>3 DEF Cells
    <2>2. ASSUME NEW i \in Cells, i < com'
          PROVE  buf'[i] = taken - com' + 1 + i
        <3>1. buf'[i] = taken - com + 1 + (i + s)
            <4>1. i + s \in Cells /\ i + s < com /\ buf'[i] = buf[i + s]
                BY <2>1, <2>2
            <4> QED BY <1>3, <4>1
        <3>2. i \in Int /\ com' = com - s /\ com \in Int /\ s \in Int
            BY <1>2, <1>3, <1>4 DEF Cells
        <3> QED BY <1>5, <3>1, <3>2
    <2> QED BY <2>2
<1>10. Aligned'
    BY <1>2, <1>5, <1>6, <1>7, <1>8, <1>9 DEF Aligned
<1>11. Stream' /\ WholePackets'
    BY <1>1, <1>2, StreamSame DEF WholePackets
<1>12. Reading' /\ SpinsOnSplitSize'
    BY <1>2, <1>8 DEF Reading, SpinsOnSplitSize
<1> QED BY <1>10, <1>11, <1>12 DEF Receiving

LEMMA ReceivingOverEnd ==
    ASSUME IInv, OverEnd
    PROVE  Receiving'
<1>1. TypeOK /\ Stream /\ WholePackets /\ Aligned
    BY DEF IInv, Receiving
<1>2. /\ reader = "over" /\ ~(com > SizeIn(buf)) /\ reader' = "posted"
      /\ UNCHANGED <<open, ends, taken, buf, com, delivered, pings, pushes,
                     sendVars, echoes>>
    BY DEF OverEnd, LoopGoesOn, NextRead
<1> PICK F : F = First
    OBVIOUS
<1>3. /\ com \in 1 .. Room /\ F \in Packets /\ taken - com = End(F - 1)
      /\ com >= 2 => SizeIn(buf) = Size(F)
    BY <1>2, OverFacts
<1>4. /\ Size(F) \in Nat /\ Size(F) >= 2 /\ End(F - 1) \in Nat /\ End(F) \in Nat
      /\ End(F) = End(F - 1) + Size(F) /\ taken \in Nat /\ Room \in Nat
    BY <1>1, <1>3, SizeTypes, EndTypes, Constants
<1>5. First' = F
    BY <1>2 DEF First
<1>6. Aligned'
    <2>1. End(First - 1)' = End(F - 1)
        BY <1>2, <1>5 DEF End
    <2> QED BY <1>1, <1>2, <1>5, <2>1 DEF Aligned
<1> HIDE DEF End, First, Size
<1>7. taken <= End(F)
    <2>1. com <= Size(F)
        BY <1>2, <1>3, <1>4
    <2> QED BY <1>3, <1>4, <2>1
<1>8. Reading'
    BY <1>2, <1>5, <1>7, StreamSame DEF Reading
<1>9. Stream' /\ WholePackets' /\ SpinsOnSplitSize'
    BY <1>1, <1>2, StreamSame DEF WholePackets, SpinsOnSplitSize
<1> QED BY <1>6, <1>8, <1>9 DEF Receiving

\* Only reader changes, and neither to nor from a place in the loop.
LEMMA ReceivingReader ==
    ASSUME IInv, UNCHANGED <<ends, taken, buf, com, delivered>>,
           \/ reader = "posted" /\ reader' = "reading"
           \/ reader = "reading" /\ reader' = "ended"
    PROVE  Receiving'
<1>1. Stream /\ WholePackets /\ Aligned /\ Reading
    BY DEF IInv, Receiving
<1>2. First' = First
    BY DEF First
<1>3. Aligned'
    <2>1. End(First - 1)' = End(First - 1)
        BY <1>2 DEF End
    <2> QED BY <1>1, <1>2, <2>1 DEF Aligned
<1>4. Reading'
    <2>1. End(First)' = End(First) /\ Packets' = Packets
        BY <1>2 DEF End, Packets
    <2> QED BY <1>1, <1>2, <2>1 DEF Reading
<1>5. Stream' /\ WholePackets' /\ SpinsOnSplitSize'
    BY <1>1, StreamSame DEF WholePackets, SpinsOnSplitSize
<1> QED BY <1>3, <1>4, <1>5 DEF Receiving

\* The read that is started was posted: no handler of a read runs.
LEMMA ReadPosted ==
    ASSUME IInv, RunRead
    PROVE  reader = "posted"
<1>1. 1 \in Ops("read")
    <2>1. strand \in Seq(Functions) /\ strand # <<>>
        BY DEF IInv, TypeOK, RunRead, Turn
    <2> QED BY <2>1, TailProps DEF RunRead, Turn, Ops
<1> QED BY <1>1 DEF IInv, Posting, OneRead

LEMMA ReceivingStep ==
    ASSUME IInv, [Next]_vars
    PROVE  Receiving'
<1>1. CASE RunRead
    <2>1. UNCHANGED <<ends, taken, buf, com, delivered>> /\ reader' = "reading"
        BY <1>1 DEF RunRead
    <2>2. reader = "posted"
        BY <1>1, ReadPosted
    <2> QED BY <2>1, <2>2, ReceivingReader
<1>2. CASE ReadEnds
    BY <1>2, ReceivingReader DEF ReadEnds
<1>3. CASE ClientClose \/ RunPush \/ RunRequeue \/ RunWrite \/ PushSend \/ WriteFails
    BY <1>3, ReceivingKept
       DEF ClientClose, RunPush, RunRequeue, RunWrite, PushSend, WriteFails
<1>4. ASSUME NEW k \in 1 .. Parts, SocketTakes(k) PROVE Receiving'
    BY <1>4, ReceivingKept DEF SocketTakes
<1>5. ASSUME NEW f \in finished, WriteDone(f) PROVE Receiving'
    BY <1>5, ReceivingKept DEF WriteDone
<1>6. CASE UNCHANGED vars
    BY <1>6, ReceivingKept DEF vars
<1> QED BY <1>1, <1>2, <1>3, <1>4, <1>5, <1>6, ReceivingClientSend,
           ReceivingReceive, ReceivingOverRead, ReceivingOverMove, ReceivingOverEnd
        DEF Next

-----------------------------------------------------------------------------
(* One read at a time, and what an answer to PING_TEST copies.             *)

OneReadIn(s) == \A i, j \in OpsOf(s, "read") : i = j

EchoIn(s, b) ==
    \A i \in OpsOf(s, "push") :
        s[i].at = "complete" /\ s[i].size > 0 =>
            /\ \E j \in OpsOf(s, "read") : i < j
            /\ \A k \in Header .. s[i].size - 1 : b[k] = s[i].from + k

LEMMA PostingIs ==
    /\ Posting <=> /\ OneReadIn(strand)
                   /\ OpsOf(strand, "read") # {} => reader = "posted"
                   /\ EchoIn(strand, buf) /\ EchoOfOnePacket
    /\ Posting' <=> /\ OneReadIn(strand')
                    /\ OpsOf(strand', "read") # {} => reader' = "posted"
                    /\ EchoIn(strand', buf') /\ EchoOfOnePacket'
BY DEF Posting, OneRead, EchoReady, OneReadIn, EchoIn, Ops, OpsOf

LEMMA OpsBehind ==
    ASSUME NEW s \in Seq(Functions), NEW f \in Functions, NEW op
    PROVE  /\ f.op # op => OpsOf(Append(s, f), op) = OpsOf(s, op)
           /\ f.op = op => OpsOf(Append(s, f), op) = OpsOf(s, op) \cup {Len(s) + 1}
<1>1. OpsOf(Append(s, f), op)
        = OpsOf(s, op) \cup (IF f.op = op THEN {Len(s) + 1} ELSE {})
    BY OpsOfAppend
<1> QED BY <1>1

\* One more function behind the others, that is not a read and not the answer to
\* a PING_TEST that came alone.
LEMMA PostingAppend ==
    ASSUME NEW s \in Seq(Functions), NEW b, OneReadIn(s), EchoIn(s, b),
           NEW f \in Functions, f.op # "read",
           f.op = "push" /\ f.at = "complete" => f.size = 0
    PROVE  /\ OneReadIn(Append(s, f)) /\ EchoIn(Append(s, f), b)
           /\ OpsOf(Append(s, f), "read") = OpsOf(s, "read")
<1>1. OpsOf(Append(s, f), "read") = OpsOf(s, "read")
    BY OpsBehind
<1>2. OneReadIn(Append(s, f))
    BY <1>1 DEF OneReadIn
<1>3. ASSUME NEW i \in OpsOf(Append(s, f), "push"),
             Append(s, f)[i].at = "complete" /\ Append(s, f)[i].size > 0
      PROVE  /\ \E j \in OpsOf(Append(s, f), "read") : i < j
             /\ \A k \in Header .. Append(s, f)[i].size - 1 :
                   b[k] = Append(s, f)[i].from + k
    <2>1. i \in OpsOf(s, "push")
        <3>1. i \in OpsOf(s, "push") \/ (f.op = "push" /\ i = Len(s) + 1)
            BY OpsBehind
        <3>2. Append(s, f)[Len(s) + 1] = f
            BY AppendProps
        <3> QED BY <1>3, <3>1, <3>2
    <2>2. Append(s, f)[i] = s[i]
        BY <2>1, AppendProps DEF OpsOf
    <2> QED BY <1>1, <1>3, <2>1, <2>2 DEF EchoIn
<1>4. EchoIn(Append(s, f), b)
    BY <1>3 DEF EchoIn
<1> QED BY <1>1, <1>2, <1>4

\* The first function has run.
LEMMA PostingTail ==
    ASSUME NEW s \in Seq(Functions), NEW b, OneReadIn(s), EchoIn(s, b), s # <<>>
    PROVE  /\ Tail(s) \in Seq(Functions)
           /\ OneReadIn(Tail(s)) /\ EchoIn(Tail(s), b)
           /\ OpsOf(Tail(s), "read") # {} =>
                 OpsOf(s, "read") # {} /\ Head(s).op # "read"
<1>1. \A op : \A i : i \in OpsOf(Tail(s), op) <=> i \in Nat \ {0} /\ i + 1 \in OpsOf(s, op)
    BY OpsOfTail
<1>2. OneReadIn(Tail(s))
    <2>1. ASSUME NEW i \in OpsOf(Tail(s), "read"), NEW j \in OpsOf(Tail(s), "read")
          PROVE  i = j
        <3>1. i + 1 = j + 1 /\ i \in Nat /\ j \in Nat
            BY <1>1 DEF OneReadIn
        <3> QED BY <3>1
    <2> QED BY <2>1 DEF OneReadIn
<1>3. Head(s).op = "read" => OpsOf(s, "read") = {1}
    BY TailProps DEF OneReadIn, OpsOf
<1>4. ASSUME NEW i \in OpsOf(Tail(s), "push"),
             Tail(s)[i].at = "complete" /\ Tail(s)[i].size > 0
      PROVE  /\ \E j \in OpsOf(Tail(s), "read") : i < j
             /\ \A k \in Header .. Tail(s)[i].size - 1 : b[k] = Tail(s)[i].from + k
    <2>1. i \in Nat \ {0} /\ i + 1 \in OpsOf(s, "push")
        BY <1>1
    <2>2. Tail(s)[i] = s[i + 1]
        <3>1. i \in 1 .. Len(s) - 1
            BY <2>1, TailProps DEF OpsOf
        <3> QED BY <3>1, TailProps
    <2>3. PICK j \in OpsOf(s, "read") : i + 1 < j
        BY <1>4, <2>1, <2>2 DEF EchoIn
    <2>4. j \in Nat /\ j - 1 \in OpsOf(Tail(s), "read") /\ i < j - 1
        <3>1. j \in Nat
            BY <2>3 DEF OpsOf
        <3>2. j - 1 \in Nat \ {0} /\ (j - 1) + 1 = j /\ i < j - 1
            BY <2>1, <2>3, <3>1
        <3>3. (j - 1) + 1 \in OpsOf(s, "read")
            BY <2>3, <3>2
        <3> QED BY <1>1, <3>1, <3>2, <3>3
    <2>5. \A k \in Header .. s[i + 1].size - 1 : b[k] = s[i + 1].from + k
        BY <1>4, <2>1, <2>2 DEF EchoIn
    <2> QED BY <2>2, <2>4, <2>5
<1>5. EchoIn(Tail(s), b)
    BY <1>4 DEF EchoIn
<1>6. ASSUME OpsOf(Tail(s), "read") # {} PROVE OpsOf(s, "read") # {} /\ Head(s).op # "read"
    <2>1. PICK i : i \in OpsOf(Tail(s), "read")
        BY <1>6
    <2>2. i \in Nat \ {0} /\ i + 1 \in OpsOf(s, "read")
        BY <1>1, <2>1
    <2>3. i + 1 # 1
        BY <2>2
    <2> QED BY <1>3, <2>2, <2>3
<1> QED BY <1>2, <1>5, <1>6, TailProps

\* While a handler of a read runs, no answer waits to copy.
LEMMA PostingNoRead ==
    ASSUME NEW s, NEW b, EchoIn(s, b), OpsOf(s, "read") = {}
    PROVE  \A c : EchoIn(s, c)
BY DEF EchoIn

\* do_read posts the next read, when there is none.
LEMMA PostingRead ==
    ASSUME NEW s \in Seq(Functions), NEW b, OpsOf(s, "read") = {},
           \A i \in OpsOf(s, "push") : s[i].at = "complete" /\ s[i].size > 0 =>
              \A k \in Header .. s[i].size - 1 : b[k] = s[i].from + k
    PROVE  OneReadIn(Append(s, [op |-> "read"])) /\ EchoIn(Append(s, [op |-> "read"]), b)
<1> DEFINE t == Append(s, [op |-> "read"])
<1>1. /\ OpsOf(t, "read") = {Len(s) + 1} /\ OpsOf(t, "push") = OpsOf(s, "push")
      /\ Len(s) \in Nat
    <2>1. [op |-> "read"] \in Functions /\ [op |-> "read"].op = "read"
        BY ReadsAndWrites
    <2>2. OpsOf(t, "read") = OpsOf(s, "read") \cup {Len(s) + 1}
        BY <2>1, OpsBehind
    <2>3. OpsOf(t, "push") = OpsOf(s, "push")
        BY <2>1, OpsBehind
    <2> QED BY <2>2, <2>3
<1>2. \A i \in OpsOf(s, "push") : t[i] = s[i] /\ i < Len(s) + 1
    BY AppendProps, ReadsAndWrites DEF OpsOf
<1> HIDE DEF t
<1>3. OneReadIn(t)
    BY <1>1 DEF OneReadIn
<1>4. EchoIn(t, b)
    BY <1>1, <1>2 DEF EchoIn
<1> QED BY <1>3, <1>4 DEF t

LEMMA PostingRunPush ==
    ASSUME IInv, RunPush
    PROVE  Posting'
<1> DEFINE p == Head(strand)
           good == \A k \in Header .. p.size - 1 : buf[k] = p.from + k
<1>1. /\ strand \in Seq(Functions) /\ strand # <<>> /\ p.op = "push"
      /\ strand' = Append(Tail(strand), [op |-> "write"])
      /\ UNCHANGED <<buf, reader>>
    BY DEF IInv, TypeOK, RunPush, Turn, readVars
<1>2. echoes' = IF p.size = 0 THEN echoes
                ELSE echoes \cup {[at |-> p.at, good |-> good]}
    BY DEF RunPush
<1>3. /\ OneReadIn(strand) /\ EchoIn(strand, buf) /\ EchoOfOnePacket
      /\ OpsOf(strand, "read") # {} => reader = "posted"
    BY PostingIs DEF IInv
<1>4. p \in Functions /\ p = strand[1] /\ 1 \in OpsOf(strand, "push")
    BY <1>1, TailProps DEF OpsOf
<1>5. p.size \in 0 .. Room
    BY <1>1, <1>4, FunctionKinds
<1>6. ASSUME p.size # 0, p.at = "complete" PROVE good
    <2>1. p.size > 0
        BY <1>5, <1>6, Constants
    <2> QED BY <1>3, <1>4, <1>6, <2>1 DEF EchoIn
<1>7. /\ OneReadIn(Tail(strand)) /\ EchoIn(Tail(strand), buf)
      /\ Tail(strand) \in Seq(Functions)
      /\ OpsOf(Tail(strand), "read") # {} => OpsOf(strand, "read") # {}
    BY <1>1, <1>3, PostingTail
<1>8. [op |-> "write"] \in Functions /\ [op |-> "write"].op = "write"
    BY ReadsAndWrites
<1> HIDE DEF p, good
<1>9. EchoOfOnePacket'
    BY <1>2, <1>3, <1>6 DEF EchoOfOnePacket
<1>10. /\ OneReadIn(strand') /\ EchoIn(strand', buf)
       /\ OpsOf(strand', "read") = OpsOf(Tail(strand), "read")
    BY <1>1, <1>7, <1>8, PostingAppend
<1> QED BY <1>1, <1>3, <1>7, <1>9, <1>10, PostingIs

LEMMA PostingTurn ==
    ASSUME IInv, strand # <<>>, strand' = Tail(strand), UNCHANGED <<buf, echoes>>,
           Head(strand).op = "read" \/ UNCHANGED reader
    PROVE  Posting'
<1>1. strand \in Seq(Functions)
    BY DEF IInv, TypeOK
<1>2. /\ OneReadIn(strand) /\ EchoIn(strand, buf) /\ EchoOfOnePacket
      /\ OpsOf(strand, "read") # {} => reader = "posted"
    BY PostingIs DEF IInv
<1>3. /\ OneReadIn(Tail(strand)) /\ EchoIn(Tail(strand), buf)
      /\ OpsOf(Tail(strand), "read") # {} =>
            OpsOf(strand, "read") # {} /\ Head(strand).op # "read"
    BY <1>1, <1>2, PostingTail
<1>4. EchoOfOnePacket'
    BY <1>2 DEF EchoOfOnePacket
<1> QED BY <1>2, <1>3, <1>4, PostingIs

LEMMA PostingPushed ==
    ASSUME IInv, NEW f \in Functions, strand' = Append(strand, f), f.op # "read",
           f.op = "push" /\ f.at = "complete" => f.size = 0,
           UNCHANGED <<buf, echoes>>,
           UNCHANGED reader \/ reader = "over"
    PROVE  Posting'
<1>1. strand \in Seq(Functions)
    BY DEF IInv, TypeOK
<1>2. /\ OneReadIn(strand) /\ EchoIn(strand, buf) /\ EchoOfOnePacket
      /\ OpsOf(strand, "read") # {} => reader = "posted"
    BY PostingIs DEF IInv
<1>3. /\ OneReadIn(strand') /\ EchoIn(strand', buf)
      /\ OpsOf(strand', "read") = OpsOf(strand, "read")
    BY <1>1, <1>2, PostingAppend
<1>4. EchoOfOnePacket'
    BY <1>2 DEF EchoOfOnePacket
<1> QED BY <1>2, <1>3, <1>4, PostingIs

\* While the handler of a read runs, it may change the buffer.
LEMMA PostingHandler ==
    ASSUME IInv, UNCHANGED <<strand, echoes>>, reader # "posted"
    PROVE  Posting'
<1>1. /\ OneReadIn(strand) /\ EchoIn(strand, buf) /\ EchoOfOnePacket
      /\ OpsOf(strand, "read") = {}
    BY PostingIs DEF IInv
<1>2. OneReadIn(strand') /\ EchoIn(strand', buf') /\ OpsOf(strand', "read") = {}
    BY <1>1, PostingNoRead
<1>3. EchoOfOnePacket'
    BY <1>1 DEF EchoOfOnePacket
<1> QED BY <1>2, <1>3, PostingIs

LEMMA PostingNextRead ==
    ASSUME IInv, NextRead(strand), UNCHANGED echoes, reader # "posted"
    PROVE  Posting'
<1>1. strand \in Seq(Functions)
    BY DEF IInv, TypeOK
<1>2. /\ OneReadIn(strand) /\ EchoIn(strand, buf) /\ EchoOfOnePacket
      /\ OpsOf(strand, "read") = {}
    BY PostingIs DEF IInv
<1>3. \A i \in OpsOf(strand, "push") : ~(strand[i].at = "complete" /\ strand[i].size > 0)
    BY <1>2 DEF EchoIn
<1>4. strand' = Append(strand, [op |-> "read"]) /\ reader' = "posted"
    BY DEF NextRead
<1>5. OneReadIn(strand') /\ EchoIn(strand', buf')
    BY <1>1, <1>2, <1>3, <1>4, PostingRead
<1>6. EchoOfOnePacket'
    BY <1>2 DEF EchoOfOnePacket
<1> QED BY <1>4, <1>5, <1>6, PostingIs

\* On_Read of a packet that came alone, and the next read behind its answer.
LEMMA PostingComplete ==
    ASSUME IInv, NEW k \in 1 .. Room, Receive(k), NEW ping \in BOOLEAN,
           OnRead(Filled(k), com + k, ping),
           NextRead(Answered(Filled(k), com + k, ping, "complete"))
    PROVE  Posting'
<1> DEFINE b == Filled(k)
           c == com + k
           q == Answered(b, c, ping, "complete")
           f == [op |-> "push", msg |-> pings + pushes + 1, from |-> b[0],
                 size |-> c, at |-> "complete"]
<1>1. strand \in Seq(Functions) /\ reader = "reading" /\ buf' = b /\ UNCHANGED echoes
      /\ Room \in Nat /\ Header \in Nat
    BY Constants DEF IInv, TypeOK, Receive
<1>2. /\ OneReadIn(strand) /\ EchoIn(strand, buf) /\ EchoOfOnePacket
      /\ OpsOf(strand, "read") = {}
    BY <1>1, PostingIs DEF IInv
<1>3. \A i \in OpsOf(strand, "push") : ~(strand[i].at = "complete" /\ strand[i].size > 0)
    BY <1>2 DEF EchoIn
<1>4. strand' = Append(q, [op |-> "read"]) /\ reader' = "posted"
    BY DEF NextRead
<1>5. EchoOfOnePacket'
    BY <1>1, <1>2 DEF EchoOfOnePacket
<1>6. CASE ~ping
    <2>1. q = strand
        BY <1>6 DEF Answered
    <2> HIDE DEF q
    <2>2. OneReadIn(strand') /\ EchoIn(strand', buf')
        BY <1>1, <1>2, <1>3, <1>4, <2>1, PostingRead
    <2> QED BY <1>4, <1>5, <2>2, PostingIs
<1>7. CASE ping
    <2>1. /\ c \in 1 .. Room /\ b \in [Cells -> 0 .. Room]
          /\ \A i \in Cells : i < c => b[i] = taken - com + 1 + i
          /\ b[0] = taken - com + 1
        <3>1. End(First - 1) = taken - com /\ b[0] = End(First - 1) + 1
            BY ReceiveFacts
        <3> QED BY <3>1, ReceiveFacts
    <2>2. q = Append(strand, f)
        BY <1>7 DEF Answered
    <2>3. q \in Seq(Functions)
        <3>1. b[0] \in 0 .. Room
            BY <1>1, <2>1 DEF Cells
        <3>2. c \in 0 .. Room
            BY <1>1, <2>1
        <3> QED BY <3>1, <3>2, AnsweredType DEF IInv
    <2>4. f \in Functions /\ f.op = "push"
        <3>1. Len(q) = Len(strand) + 1 /\ q[Len(strand) + 1] = f /\ Len(strand) \in Nat
            BY <1>1, <2>2
        <3>2. f \in Functions
            <4> HIDE DEF q, f
            <4> QED BY <2>3, <3>1
        <3> QED BY <3>2
    <2>5. /\ OpsOf(q, "read") = {}
          /\ OpsOf(q, "push") = OpsOf(strand, "push") \cup {Len(strand) + 1}
        <3> HIDE DEF f, q
        <3> QED BY <1>1, <1>2, <2>2, <2>4, OpsBehind
    <2>6. \A i \in OpsOf(strand, "push") : q[i] = strand[i]
        BY <1>1, <2>2, <2>4, AppendProps DEF OpsOf
    <2>7. q[Len(strand) + 1] = f
        BY <1>1, <2>2, <2>4, AppendProps
    <2>8. \A j \in Header .. f.size - 1 : b[j] = f.from + j
        <3>1. f.size = c /\ f.from = taken - com + 1
            BY <2>1
        <3>2. \A j \in Header .. c - 1 : j \in Cells /\ j < c
            BY <1>1, <2>1, Constants DEF Cells
        <3> HIDE DEF b, c, f
        <3> QED BY <2>1, <3>1, <3>2
    <2> HIDE DEF b, c, f, q
    <2>9. OneReadIn(strand') /\ EchoIn(strand', b)
        <3>1. \A i \in OpsOf(q, "push") : q[i].at = "complete" /\ q[i].size > 0 =>
                 \A j \in Header .. q[i].size - 1 : b[j] = q[i].from + j
            BY <1>3, <2>5, <2>6, <2>7, <2>8
        <3> QED BY <1>4, <2>3, <2>5, <3>1, PostingRead
    <2> QED BY <1>1, <1>4, <1>5, <2>9, PostingIs
<1> QED BY <1>6, <1>7

LEMMA PostingStep ==
    ASSUME IInv, [Next]_vars
    PROVE  Posting'
<1>1. TypeOK
    BY DEF IInv
<1>2. ASSUME UNCHANGED <<strand, reader, buf, echoes>> PROVE Posting'
    BY <1>2, PostingIs DEF IInv, EchoOfOnePacket
<1>3. ASSUME NEW s \in Sizes, ClientSend(s) PROVE Posting'
    BY <1>2, <1>3 DEF ClientSend
<1>4. CASE ClientClose \/ WriteFails
    BY <1>2, <1>4 DEF ClientClose, WriteFails, readVars
<1>5. CASE RunRead \/ RunRequeue \/ RunWrite
    BY <1>5, PostingTurn DEF RunRead, RunRequeue, RunWrite, Turn, readVars
<1>6. ASSUME NEW k \in 1 .. Room, Receive(k) PROVE Posting'
    <2>1. reader = "reading" /\ UNCHANGED echoes
        BY <1>6 DEF Receive
    <2>2. \/ NextRead(strand)
          \/ \E ping \in BOOLEAN : OnRead(Filled(k), com + k, ping)
                  /\ NextRead(Answered(Filled(k), com + k, ping, "complete"))
          \/ UNCHANGED strand
        BY <1>6 DEF Receive
    <2> QED BY <1>6, <2>1, <2>2, PostingNextRead, PostingComplete, PostingHandler
<1>7. CASE OverRead
    <2>1. reader = "over" /\ UNCHANGED <<buf, echoes>>
        BY <1>7 DEF OverRead
    <2>2. \/ UNCHANGED strand
          \/ \E ping \in BOOLEAN : strand' = Answered(buf, SizeIn(buf), ping, "over")
        BY <1>7 DEF OverRead
    <2>3. ASSUME NEW ping \in BOOLEAN, ping, strand' = Answered(buf, SizeIn(buf), ping, "over")
          PROVE  Posting'
        <3> DEFINE f == [op |-> "push", msg |-> pings + pushes + 1, from |-> buf[0],
                         size |-> SizeIn(buf), at |-> "over"]
        <3>1. strand' = Append(strand, f) /\ f.op = "push" /\ f.at = "over"
            BY <2>3 DEF Answered
        <3>2. strand \in Seq(Functions) /\ strand' \in Seq(Functions)
            BY <1>1, <1>7, OverReadType DEF TypeOK
        <3> HIDE DEF f
        <3>3. f \in Functions
            <4>1. Len(strand') = Len(strand) + 1 /\ strand'[Len(strand) + 1] = f
                  /\ Len(strand) \in Nat
                BY <3>1, <3>2
            <4> QED BY <3>2, <4>1
        <3> QED BY <2>1, <3>1, <3>3, PostingPushed
    <2>4. ASSUME NEW ping \in BOOLEAN, ~ping, strand' = Answered(buf, SizeIn(buf), ping, "over")
          PROVE  Posting'
        <3>1. UNCHANGED strand
            BY <2>4 DEF Answered
        <3> QED BY <2>1, <3>1, PostingHandler
    <2> QED BY <2>1, <2>2, <2>3, <2>4, PostingHandler
<1>8. CASE OverMove
    BY <1>8, PostingHandler DEF OverMove
<1>9. CASE OverEnd
    BY <1>9, PostingNextRead DEF OverEnd
<1>10. CASE ReadEnds
    BY <1>10, PostingHandler DEF ReadEnds
<1>11. CASE PushSend
    <2> DEFINE f == [op |-> "push", msg |-> pings + pushes + 1, from |-> 0, size |-> 0,
                     at |-> "complete"]
    <2>1. pings + pushes + 1 \in Messages
        BY <1>1, <1>11, Constants DEF TypeOK, PushSend, Messages
    <2>2. f \in Functions /\ f.op = "push" /\ f.size = 0
        BY <2>1, Constants DEF Functions
    <2>3. strand' = Append(strand, f) /\ UNCHANGED <<buf, reader, echoes>>
        BY <1>11 DEF PushSend, readVars
    <2> HIDE DEF f
    <2> QED BY <2>2, <2>3, PostingPushed
<1>12. ASSUME NEW k \in 1 .. Parts, SocketTakes(k) PROVE Posting'
    BY <1>2, <1>12 DEF SocketTakes, readVars
<1>13. ASSUME NEW f \in finished, WriteDone(f) PROVE Posting'
    <2> DEFINE w == [op |-> "write"]
    <2>1. UNCHANGED <<buf, reader, echoes>>
        BY <1>13 DEF WriteDone, readVars
    <2>2. w \in Functions /\ w.op = "write"
        BY ReadsAndWrites
    <2>3. CASE ~(f.done < Parts)
        <3>1. strand' = Append(strand, w)
            BY <1>1, <1>13, <2>3, AfterWriteProps DEF WriteDone
        <3> QED BY <2>1, <2>2, <3>1, PostingPushed
    <2>4. CASE f.done < Parts
        <3>1. /\ strand' = Append(Append(strand, Again(f)), w)
              /\ strand \in Seq(Functions) /\ Append(strand, Again(f)) \in Seq(Functions)
              /\ Again(f) \in Functions
            BY <1>1, <1>13, <2>4, AfterWriteProps DEF WriteDone
        <3>2. Again(f).op = "requeue"
            BY DEF Again
        <3>3. /\ OneReadIn(strand) /\ EchoIn(strand, buf) /\ EchoOfOnePacket
              /\ OpsOf(strand, "read") # {} => reader = "posted"
            BY PostingIs DEF IInv
        <3> HIDE DEF w
        <3>4. LET s == Append(strand, Again(f))
              IN  /\ OneReadIn(s) /\ EchoIn(s, buf)
                  /\ OpsOf(s, "read") = OpsOf(strand, "read")
            BY <3>1, <3>2, <3>3, PostingAppend
        <3>5. /\ OneReadIn(strand') /\ EchoIn(strand', buf)
              /\ OpsOf(strand', "read") = OpsOf(strand, "read")
            BY <2>2, <3>1, <3>4, PostingAppend
        <3>6. EchoOfOnePacket'
            BY <2>1, <3>3 DEF EchoOfOnePacket
        <3> QED BY <2>1, <3>3, <3>5, <3>6, PostingIs
    <2> QED BY <2>3, <2>4
<1>14. CASE UNCHANGED vars
    BY <1>2, <1>14 DEF vars, readVars
<1> QED BY <1>3, <1>4, <1>5, <1>6, <1>7, <1>8, <1>9, <1>10, <1>11, <1>12, <1>13, <1>14,
           PostingRunPush
        DEF Next

-----------------------------------------------------------------------------
(* Every buffer that waits has a do_write on the strand.                   *)

PairedIn(s) == \A i \in OpsOf(s, "requeue") : i + 1 \in OpsOf(s, "write")
Requeues(s) == Cardinality(OpsOf(s, "requeue"))
DoWrites(s) == Cardinality(OpsOf(s, "write"))

LEMMA QueueingIs ==
    /\ Queueing <=> PairedIn(strand) /\ Len(sendq) + Requeues(strand) <= DoWrites(strand)
    /\ Queueing' <=> PairedIn(strand') /\ Len(sendq') + Requeues(strand') <= DoWrites(strand')
BY DEF Queueing, Paired, EveryBufferHasWrite, PairedIn, Requeues, DoWrites, Ops, OpsOf

LEMMA CountsAreNat ==
    ASSUME NEW s \in Seq(Functions)
    PROVE  Requeues(s) \in Nat /\ DoWrites(s) \in Nat
BY OpsFinite DEF Requeues, DoWrites

LEMMA QueueingAppend ==
    ASSUME NEW s \in Seq(Functions), NEW f \in Functions
    PROVE  /\ f.op # "requeue" /\ PairedIn(s) => PairedIn(Append(s, f))
           /\ f.op \notin {"requeue", "write"} =>
                 Requeues(Append(s, f)) = Requeues(s) /\ DoWrites(Append(s, f)) = DoWrites(s)
           /\ f.op = "write" =>
                 /\ Requeues(Append(s, f)) = Requeues(s)
                 /\ DoWrites(Append(s, f)) = DoWrites(s) + 1
           /\ f.op = "requeue" =>
                 /\ Requeues(Append(s, f)) = Requeues(s) + 1
                 /\ DoWrites(Append(s, f)) = DoWrites(s)
<1>1. /\ Cardinality(OpsOf(Append(s, f), "requeue"))
            = Requeues(s) + (IF f.op = "requeue" THEN 1 ELSE 0)
      /\ Cardinality(OpsOf(Append(s, f), "write"))
            = DoWrites(s) + (IF f.op = "write" THEN 1 ELSE 0)
    BY OpsOfAppend DEF Requeues, DoWrites
<1>2. Requeues(s) \in Nat /\ DoWrites(s) \in Nat
    BY CountsAreNat
<1>3. ASSUME f.op # "requeue", PairedIn(s) PROVE PairedIn(Append(s, f))
    <2>1. OpsOf(Append(s, f), "requeue") = OpsOf(s, "requeue")
        BY <1>3, OpsBehind
    <2>2. OpsOf(s, "write") \subseteq OpsOf(Append(s, f), "write")
        BY OpsBehind
    <2> QED BY <1>3, <2>1, <2>2 DEF PairedIn
<1> QED BY <1>1, <1>2, <1>3 DEF Requeues, DoWrites

LEMMA QueueingTail ==
    ASSUME NEW s \in Seq(Functions), s # <<>>, PairedIn(s)
    PROVE  /\ PairedIn(Tail(s)) /\ Tail(s) \in Seq(Functions)
           /\ Requeues(Tail(s)) = Requeues(s) - (IF Head(s).op = "requeue" THEN 1 ELSE 0)
           /\ DoWrites(Tail(s)) = DoWrites(s) - (IF Head(s).op = "write" THEN 1 ELSE 0)
<1>1. \A i \in OpsOf(Tail(s), "requeue") : i + 1 \in OpsOf(Tail(s), "write")
    <2> SUFFICES ASSUME NEW i \in OpsOf(Tail(s), "requeue")
                 PROVE  i + 1 \in OpsOf(Tail(s), "write")
        OBVIOUS
    <2>1. i \in Nat \ {0} /\ i + 1 \in OpsOf(s, "requeue")
        BY OpsOfTail
    <2>2. i + 1 \in Nat \ {0} /\ (i + 1) + 1 \in OpsOf(s, "write")
        BY <2>1 DEF PairedIn
    <2> QED BY <2>2, OpsOfTail
<1> QED BY <1>1, OpsOfTail, TailProps DEF PairedIn, Requeues, DoWrites

\* There are as many do_writes as rests: one stands behind each.
LEMMA PairedCounts ==
    ASSUME NEW s \in Seq(Functions), PairedIn(s)
    PROVE  Requeues(s) <= DoWrites(s)
<1> DEFINE R == OpsOf(s, "requeue")
           W == OpsOf(s, "write")
           g == [i \in R |-> i + 1]
<1>1. IsFiniteSet(R) /\ IsFiniteSet(W)
    BY OpsFinite
<1>2. R \subseteq Nat
    BY DEF OpsOf
<1>3. \A i \in R : i + 1 \in W
    BY DEF PairedIn
<1> HIDE DEF R, W
<1>4. g \in Injection(R, W)
    BY <1>2, <1>3 DEF Injection, IsInjective
<1> HIDE DEF g
<1>5. Cardinality(R) <= Cardinality(W)
    BY <1>1, <1>4, FS_Injection
<1> QED BY <1>5 DEF Requeues, DoWrites, R, W

\* Functions that neither queue nor start a write.
LEMMA QueueingPushed ==
    ASSUME IInv, NEW f \in Functions, f.op \notin {"requeue", "write"},
           strand' = Append(strand, f), UNCHANGED sendq
    PROVE  Queueing'
<1>1. strand \in Seq(Functions)
    BY DEF IInv, TypeOK
<1>2. PairedIn(strand) /\ Len(sendq) + Requeues(strand) <= DoWrites(strand)
    BY QueueingIs DEF IInv
<1>3. /\ PairedIn(strand') /\ Requeues(strand') = Requeues(strand)
      /\ DoWrites(strand') = DoWrites(strand)
    BY <1>1, <1>2, QueueingAppend
<1> QED BY <1>2, <1>3, QueueingIs

LEMMA QueueingNextRead ==
    ASSUME IInv, NEW q \in Seq(Functions), PairedIn(q),
           Len(sendq) + Requeues(q) <= DoWrites(q), NextRead(q), UNCHANGED sendq
    PROVE  Queueing'
<1>1. [op |-> "read"] \in Functions /\ [op |-> "read"].op = "read"
      /\ strand' = Append(q, [op |-> "read"])
    BY ReadsAndWrites DEF NextRead
<1>2. PairedIn(strand') /\ Requeues(strand') = Requeues(q) /\ DoWrites(strand') = DoWrites(q)
    BY <1>1, QueueingAppend
<1> QED BY <1>2, QueueingIs

\* The strand behind an answer of On_Read.
LEMMA QueueingAnswered ==
    ASSUME IInv, NEW b, NEW s, NEW ping \in BOOLEAN, NEW at,
           Answered(b, s, ping, at) \in Seq(Functions)
    PROVE  LET q == Answered(b, s, ping, at)
           IN  PairedIn(q) /\ Len(sendq) + Requeues(q) <= DoWrites(q)
<1> DEFINE f == [op |-> "push", msg |-> pings + pushes + 1, from |-> b[0],
                 size |-> s, at |-> at]
<1>1. strand \in Seq(Functions)
    BY DEF IInv, TypeOK
<1>2. PairedIn(strand) /\ Len(sendq) + Requeues(strand) <= DoWrites(strand)
    BY QueueingIs DEF IInv
<1>3. CASE ~ping
    BY <1>2, <1>3 DEF Answered
<1>4. CASE ping
    <2>1. Answered(b, s, ping, at) = Append(strand, f) /\ f.op = "push"
        BY <1>4 DEF Answered
    <2> HIDE DEF f
    <2>2. f \in Functions
        <3>1. /\ Len(Append(strand, f)) = Len(strand) + 1
              /\ Append(strand, f)[Len(strand) + 1] = f /\ Len(strand) \in Nat
            BY <1>1
        <3> QED BY <2>1, <3>1
    <2>3. /\ PairedIn(Append(strand, f)) /\ Requeues(Append(strand, f)) = Requeues(strand)
          /\ DoWrites(Append(strand, f)) = DoWrites(strand)
        BY <1>1, <1>2, <2>1, <2>2, QueueingAppend
    <2> QED BY <1>2, <2>1, <2>3
<1> QED BY <1>3, <1>4

LEMMA QueueingStep ==
    ASSUME IInv, [Next]_vars
    PROVE  Queueing'
<1>1. TypeOK /\ strand \in Seq(Functions) /\ sendq \in Seq(Buffers)
    BY DEF IInv, TypeOK
<1>2. /\ PairedIn(strand) /\ Len(sendq) + Requeues(strand) <= DoWrites(strand)
      /\ Len(sendq) \in Nat /\ Requeues(strand) \in Nat /\ DoWrites(strand) \in Nat
    BY <1>1, QueueingIs, CountsAreNat DEF IInv
<1>3. ASSUME UNCHANGED <<strand, sendq>> PROVE Queueing'
    BY <1>2, <1>3, QueueingIs
<1>4. ASSUME NEW s \in Sizes, ClientSend(s) PROVE Queueing'
    BY <1>3, <1>4 DEF ClientSend, sendVars
<1>5. CASE ClientClose \/ WriteFails \/ OverMove \/ ReadEnds \/ UNCHANGED vars
    BY <1>3, <1>5 DEF ClientClose, WriteFails, OverMove, ReadEnds, vars, sendVars
<1>6. ASSUME NEW k \in 1 .. Parts, SocketTakes(k) PROVE Queueing'
    BY <1>3, <1>6 DEF SocketTakes
<1>7. ASSUME strand # <<>>
      PROVE  /\ PairedIn(Tail(strand)) /\ Tail(strand) \in Seq(Functions)
             /\ Requeues(Tail(strand)) =
                   Requeues(strand) - (IF Head(strand).op = "requeue" THEN 1 ELSE 0)
             /\ DoWrites(Tail(strand)) =
                   DoWrites(strand) - (IF Head(strand).op = "write" THEN 1 ELSE 0)
             /\ Requeues(Tail(strand)) \in Nat /\ DoWrites(Tail(strand)) \in Nat
    BY <1>1, <1>2, <1>7, QueueingTail, CountsAreNat
<1>8. CASE RunRead
    BY <1>2, <1>7, <1>8, QueueingIs DEF RunRead, Turn, sendVars
<1>9. CASE RunPush
    <2>1. /\ strand # <<>> /\ Head(strand).op = "push" /\ Len(sendq') = Len(sendq) + 1
          /\ strand' = Append(Tail(strand), [op |-> "write"])
        BY <1>1, <1>9 DEF RunPush, Turn
    <2>2. [op |-> "write"] \in Functions /\ [op |-> "write"].op = "write"
        BY ReadsAndWrites
    <2>3. /\ PairedIn(strand') /\ Requeues(strand') = Requeues(strand)
          /\ DoWrites(strand') = DoWrites(strand) + 1
        <3>1. /\ PairedIn(Tail(strand)) /\ Tail(strand) \in Seq(Functions)
              /\ Requeues(Tail(strand)) = Requeues(strand)
              /\ DoWrites(Tail(strand)) = DoWrites(strand)
            BY <1>2, <1>7, <2>1
        <3> QED BY <2>1, <2>2, <3>1, QueueingAppend
    <2> QED BY <1>2, <2>1, <2>3, QueueingIs
<1>10. CASE RunRequeue
    <2>1. /\ strand # <<>> /\ Head(strand).op = "requeue" /\ strand' = Tail(strand)
          /\ Len(sendq') = Len(sendq) + 1
        BY <1>1, <1>10 DEF RunRequeue, Turn
    <2> QED BY <1>2, <1>7, <2>1, QueueingIs
<1>11. CASE RunWrite
    <2>1. strand # <<>> /\ Head(strand).op = "write" /\ strand' = Tail(strand)
        BY <1>11 DEF RunWrite, Turn
    <2>2. CASE sendq = <<>>
        <3>1. sendq' = <<>> /\ Len(sendq') = 0
            BY <1>11, <2>2 DEF RunWrite
        <3>2. Requeues(strand') <= DoWrites(strand')
            BY <1>7, <2>1, PairedCounts
        <3> QED BY <1>7, <2>1, <3>1, <3>2, QueueingIs
    <2>3. CASE sendq # <<>>
        <3>1. Len(sendq') = Len(sendq) - 1
            BY <1>1, <1>11, <2>3, TailProps DEF RunWrite
        <3> QED BY <1>2, <1>7, <2>1, <3>1, QueueingIs
    <2> QED BY <2>2, <2>3
<1>12. ASSUME NEW k \in 1 .. Room, Receive(k) PROVE Queueing'
    <2>1. UNCHANGED sendq
        BY <1>12 DEF Receive, sendVars
    <2>2. CASE NextRead(strand)
        BY <1>1, <1>2, <2>1, <2>2, QueueingNextRead
    <2>3. ASSUME NEW ping \in BOOLEAN, OnRead(Filled(k), com + k, ping),
                 NextRead(Answered(Filled(k), com + k, ping, "complete"))
          PROVE  Queueing'
        <3>1. Answered(Filled(k), com + k, ping, "complete") \in Seq(Functions)
            <4>1. /\ com + k \in 0 .. Room /\ Filled(k) \in [Cells -> 0 .. Room]
                  /\ 0 \in Cells
                BY <1>12, ReceiveFacts, Constants DEF Cells
            <4> QED BY <1>1, <2>3, <4>1, AnsweredType
        <3> QED BY <2>1, <2>3, <3>1, QueueingAnswered, QueueingNextRead
    <2> QED BY <1>3, <1>12, <2>1, <2>2, <2>3 DEF Receive
<1>13. CASE OverRead
    <2>1. UNCHANGED sendq
        BY <1>13 DEF OverRead, sendVars
    <2>2. ASSUME NEW ping \in BOOLEAN, strand' = Answered(buf, SizeIn(buf), ping, "over")
          PROVE  Queueing'
        <3>1. strand' \in Seq(Functions)
            BY <1>13, OverReadType DEF TypeOK
        <3> QED BY <2>1, <2>2, <3>1, QueueingAnswered, QueueingIs
    <2> QED BY <1>3, <1>13, <2>1, <2>2 DEF OverRead
<1>14. CASE OverEnd
    BY <1>1, <1>2, <1>14, QueueingNextRead DEF OverEnd, sendVars
<1>15. CASE PushSend
    <2> DEFINE f == [op |-> "push", msg |-> pings + pushes + 1, from |-> 0, size |-> 0,
                     at |-> "complete"]
    <2>1. pings + pushes + 1 \in Messages
        BY <1>1, <1>15, Constants DEF TypeOK, PushSend, Messages
    <2>2. f \in Functions /\ f.op = "push"
        BY <2>1, Constants DEF Functions
    <2>3. strand' = Append(strand, f) /\ UNCHANGED sendq
        BY <1>15 DEF PushSend, sendVars
    <2> HIDE DEF f
    <2> QED BY <2>2, <2>3, QueueingPushed
<1>16. ASSUME NEW f \in finished, WriteDone(f) PROVE Queueing'
    <2> DEFINE w == [op |-> "write"]
               s == Append(strand, Again(f))
    <2>1. UNCHANGED sendq /\ w \in Functions /\ w.op = "write"
        BY <1>16, ReadsAndWrites DEF WriteDone
    <2>2. CASE ~(f.done < Parts)
        <3>1. strand' = Append(strand, w)
            BY <1>1, <1>16, <2>2, AfterWriteProps DEF WriteDone
        <3> HIDE DEF w
        <3>2. /\ PairedIn(strand') /\ Requeues(strand') = Requeues(strand)
              /\ DoWrites(strand') = DoWrites(strand) + 1
            BY <1>1, <1>2, <2>1, <3>1, QueueingAppend
        <3> QED BY <1>2, <2>1, <3>2, QueueingIs
    <2>3. CASE f.done < Parts
        <3>1. strand' = Append(s, w) /\ s \in Seq(Functions) /\ Again(f) \in Functions
              /\ Again(f).op = "requeue"
            BY <1>1, <1>16, <2>3, AfterWriteProps DEF WriteDone, Again
        <3>2. /\ Requeues(s) = Requeues(strand) + 1 /\ DoWrites(s) = DoWrites(strand)
              /\ OpsOf(s, "requeue") = OpsOf(strand, "requeue") \cup {Len(strand) + 1}
              /\ OpsOf(s, "write") = OpsOf(strand, "write")
              /\ Len(s) = Len(strand) + 1 /\ Len(strand) \in Nat
            BY <1>1, <3>1, QueueingAppend, OpsBehind, AppendProps
        <3> HIDE DEF w, s
        <3>3. Requeues(strand') = Requeues(s) /\ DoWrites(strand') = DoWrites(s) + 1
            BY <2>1, <3>1, QueueingAppend
        <3>4. PairedIn(strand')
            <4>1. OpsOf(strand', "requeue") = OpsOf(s, "requeue")
                BY <2>1, <3>1, OpsBehind
            <4>2. OpsOf(strand', "write") = OpsOf(s, "write") \cup {Len(s) + 1}
                BY <2>1, <3>1, OpsBehind
            <4> QED BY <1>2, <3>2, <4>1, <4>2 DEF PairedIn
        <3> QED BY <1>2, <2>1, <3>2, <3>3, <3>4, QueueingIs
    <2> QED BY <2>2, <2>3
<1> QED BY <1>4, <1>5, <1>6, <1>8, <1>9, <1>10, <1>11, <1>12, <1>13, <1>14, <1>15, <1>16
        DEF Next

-----------------------------------------------------------------------------
(* The places of a message.                                                *)

Distinct(q) == \A i, j \in 1 .. Len(q) : q[i].msg = q[j].msg => i = j
CarriersIn(s) == OpsOf(s, "push") \cup OpsOf(s, "requeue")
DistinctIn(s) == \A i, j \in CarriersIn(s) : s[i].msg = s[j].msg => i = j
WaitingIn(s) == {Load(s[i]) : i \in CarriersIn(s)}
RisingIn(s) == \A i, j \in OpsOf(s, "push") : i < j => s[i].msg < s[j].msg

LEMMA PlacesAre ==
    /\ Waiting = WaitingIn(strand) /\ Waiting' = WaitingIn(strand')
    /\ Once <=> /\ DistinctIn(strand) /\ Distinct(sendq) /\ Distinct(writes)
                /\ \A f, g \in finished : f.msg = g.msg => f = g
    /\ Once' <=> /\ DistinctIn(strand') /\ Distinct(sendq') /\ Distinct(writes')
                 /\ \A f, g \in finished' : f.msg = g.msg => f = g
    /\ InLine <=> /\ RisingIn(strand) /\ Rising(sendq) /\ Rising(writes)
                  /\ Below(Held(sendq), Waiting)
                  /\ Below(Held(writes), Waiting \cup Held(sendq))
    /\ InLine' <=> /\ RisingIn(strand') /\ Rising(sendq') /\ Rising(writes')
                   /\ Below(Held(sendq'), Waiting')
                   /\ Below(Held(writes'), Waiting' \cup Held(sendq'))
BY DEF Waiting, WaitingIn, Carriers, CarriersIn, Ops, OpsOf, Once, DistinctIn, Distinct,
       InLine, RisingIn, Rising, Held, Below

\* A buffer leaves the front of a queue, or joins its end.
LEMMA HeldTail ==
    ASSUME NEW q \in Seq(Buffers), q # <<>>
    PROVE  /\ Tail(q) \in Seq(Buffers) /\ Head(q) \in Buffers
           /\ Held(q) = Held(Tail(q)) \cup {Head(q)}
           /\ Distinct(q) => /\ Distinct(Tail(q))
                             /\ \A b \in Held(Tail(q)) : b.msg # Head(q).msg
           /\ Rising(q) => Rising(Tail(q)) /\ Below({Head(q)}, Held(Tail(q)))
<1> DEFINE t == Tail(q)
<1>1. /\ t \in Seq(Buffers) /\ Len(q) \in Nat \ {0} /\ Len(t) = Len(q) - 1
      /\ \A i \in 1 .. Len(q) - 1 : t[i] = q[i + 1]
      /\ Head(q) = q[1] /\ q[1] \in Buffers /\ 1 \in 1 .. Len(q)
    BY TailProps
<1>2. \A i \in 1 .. Len(t) : i + 1 \in 1 .. Len(q) /\ t[i] = q[i + 1] /\ 1 < i + 1
    BY <1>1
<1>3. \A i \in 1 .. Len(q) : i = 1 \/ (i - 1 \in 1 .. Len(t) /\ t[i - 1] = q[i])
    BY <1>1
<1> HIDE DEF t
<1>4. Held(q) = Held(t) \cup {q[1]}
    BY <1>1, <1>2, <1>3 DEF Held
<1>5. ASSUME Distinct(q) PROVE Distinct(t) /\ \A b \in Held(t) : b.msg # q[1].msg
    <2>1. ASSUME NEW i \in 1 .. Len(t), NEW j \in 1 .. Len(t), t[i].msg = t[j].msg
          PROVE  i = j
        <3>1. i + 1 = j + 1
            BY <1>2, <1>5, <2>1 DEF Distinct
        <3> QED BY <3>1
    <2>2. \A i \in 1 .. Len(t) : t[i].msg # q[1].msg
        BY <1>1, <1>2, <1>5 DEF Distinct
    <2> QED BY <2>1, <2>2 DEF Distinct, Held
<1>6. ASSUME Rising(q) PROVE Rising(t) /\ Below({q[1]}, Held(t))
    <2>1. Rising(t)
        <3>1. \A i, j \in 1 .. Len(t) : i < j => i + 1 < j + 1
            BY <1>1
        <3> QED BY <1>2, <1>6, <3>1 DEF Rising
    <2>2. Below({q[1]}, Held(t))
        BY <1>1, <1>2, <1>6 DEF Rising, Below, Held
    <2> QED BY <2>1, <2>2
<1> QED BY <1>1, <1>4, <1>5, <1>6 DEF t

LEMMA HeldAppend ==
    ASSUME NEW q \in Seq(Buffers), NEW e \in Buffers
    PROVE  /\ Append(q, e) \in Seq(Buffers)
           /\ Held(Append(q, e)) = Held(q) \cup {e}
           /\ Distinct(q) /\ (\A b \in Held(q) : b.msg # e.msg) => Distinct(Append(q, e))
           /\ Rising(q) /\ Below(Held(q), {e}) => Rising(Append(q, e))
<1> DEFINE t == Append(q, e)
<1>1. /\ t \in Seq(Buffers) /\ Len(q) \in Nat /\ Len(t) = Len(q) + 1
      /\ \A i \in 1 .. Len(q) : t[i] = q[i]
      /\ t[Len(q) + 1] = e
    BY AppendProps
<1> HIDE DEF t
<1>2. \A i \in 1 .. Len(t) : i \in 1 .. Len(q) \/ i = Len(q) + 1
    BY <1>1
<1>3. Held(t) = Held(q) \cup {e}
    <2>1. \A i \in 1 .. Len(q) : i \in 1 .. Len(t)
        BY <1>1
    <2>2. Len(q) + 1 \in 1 .. Len(t)
        BY <1>1
    <2> QED BY <1>1, <1>2, <2>1, <2>2 DEF Held
<1>4. ASSUME Distinct(q), \A b \in Held(q) : b.msg # e.msg
      PROVE  Distinct(t)
    BY <1>1, <1>2, <1>4 DEF Distinct, Held
<1>5. ASSUME Rising(q), Below(Held(q), {e})
      PROVE  Rising(t)
    <2> SUFFICES ASSUME NEW i \in 1 .. Len(t), NEW j \in 1 .. Len(t), i < j,
                        t[i].done = 0, t[j].done = 0
                 PROVE  t[i].msg < t[j].msg
        BY DEF Rising
    <2>1. i \in 1 .. Len(q)
        BY <1>1
    <2>2. CASE j \in 1 .. Len(q)
        BY <1>1, <1>5, <2>1, <2>2 DEF Rising
    <2>3. CASE j = Len(q) + 1
        BY <1>1, <1>5, <2>1, <2>3 DEF Below, Held
    <2> QED BY <1>2, <2>2, <2>3
<1> QED BY <1>1, <1>3, <1>4, <1>5 DEF t

\* The same of the strand.
Carrier(f) == f.op \in {"push", "requeue"}

LEMMA CarriersAre ==
    ASSUME NEW s \in Seq(Functions)
    PROVE  /\ \A i : i \in CarriersIn(s) <=> i \in 1 .. Len(s) /\ Carrier(s[i])
           /\ \A i \in CarriersIn(s) : Load(s[i]) \in Buffers
                                       /\ (Load(s[i]).done = 0 => s[i].op = "push")
<1>1. \A i : i \in CarriersIn(s) <=> i \in 1 .. Len(s) /\ Carrier(s[i])
    BY DEF CarriersIn, OpsOf, Carrier
<1>2. ASSUME NEW i \in CarriersIn(s)
      PROVE  Load(s[i]) \in Buffers /\ (Load(s[i]).done = 0 => s[i].op = "push")
    <2>1. s[i] \in Functions /\ s[i].op \in {"push", "requeue"}
        BY <1>1 DEF Carrier
    <2>2. s[i].msg \in Messages /\ (s[i].op = "requeue" => s[i].done \in 1 .. Parts)
        BY <2>1, FunctionKinds
    <2> QED BY <2>1, <2>2, Constants DEF Load, Buffers
<1> QED BY <1>1, <1>2

LEMMA WaitingTail ==
    ASSUME NEW s \in Seq(Functions), s # <<>>
    PROVE  /\ Tail(s) \in Seq(Functions) /\ Head(s) \in Functions
           /\ WaitingIn(s) = WaitingIn(Tail(s)) \cup
                             (IF Carrier(Head(s)) THEN {Load(Head(s))} ELSE {})
           /\ DistinctIn(s) =>
                /\ DistinctIn(Tail(s))
                /\ Carrier(Head(s)) => \A b \in WaitingIn(Tail(s)) : b.msg # Head(s).msg
           /\ RisingIn(s) =>
                /\ RisingIn(Tail(s))
                /\ Carrier(Head(s)) => Below({Load(Head(s))}, WaitingIn(Tail(s)))
<1> DEFINE t == Tail(s)
<1>1. /\ t \in Seq(Functions) /\ Len(s) \in Nat \ {0} /\ Len(t) = Len(s) - 1
      /\ \A i \in 1 .. Len(s) - 1 : t[i] = s[i + 1]
      /\ Head(s) = s[1] /\ s[1] \in Functions /\ 1 \in 1 .. Len(s)
    BY TailProps
<1> HIDE DEF t
<1>2. \A i \in CarriersIn(t) : i + 1 \in CarriersIn(s) /\ t[i] = s[i + 1] /\ 1 < i + 1
    BY <1>1, CarriersAre
<1>3. \A i \in CarriersIn(s) : \/ i = 1 /\ Carrier(s[1])
                               \/ i - 1 \in CarriersIn(t) /\ t[i - 1] = s[i]
    <2> TAKE i \in CarriersIn(s)
    <2>1. i \in 1 .. Len(s) /\ Carrier(s[i])
        BY CarriersAre
    <2>2. CASE i = 1
        BY <2>1, <2>2
    <2>3. CASE i # 1
        <3>1. i - 1 \in 1 .. Len(s) - 1 /\ (i - 1) + 1 = i
            BY <1>1, <2>1, <2>3
        <3>2. t[i - 1] = s[i] /\ i - 1 \in 1 .. Len(t)
            BY <1>1, <3>1
        <3> QED BY <1>1, <2>1, <3>2, CarriersAre
    <2> QED BY <2>2, <2>3
<1>4. Carrier(s[1]) => 1 \in CarriersIn(s)
    BY <1>1, CarriersAre
<1>5. CarriersIn(t) \subseteq Nat /\ CarriersIn(s) \subseteq Nat
    BY <1>1, CarriersAre
<1>6. WaitingIn(s) = WaitingIn(t) \cup (IF Carrier(s[1]) THEN {Load(s[1])} ELSE {})
    BY <1>2, <1>3, <1>4 DEF WaitingIn
<1>7. ASSUME DistinctIn(s)
      PROVE  /\ DistinctIn(t)
             /\ Carrier(s[1]) => \A b \in WaitingIn(t) : b.msg # s[1].msg
    <2>1. DistinctIn(t)
        BY <1>2, <1>5, <1>7 DEF DistinctIn
    <2>2. ASSUME Carrier(s[1]), NEW b \in WaitingIn(t) PROVE b.msg # s[1].msg
        <3>1. PICK i \in CarriersIn(t) : b = Load(t[i])
            BY <2>2 DEF WaitingIn
        <3>2. b.msg = s[i + 1].msg /\ i + 1 \in CarriersIn(s) /\ i + 1 # 1
            BY <1>2, <1>5, <3>1 DEF Load
        <3> QED BY <1>4, <1>7, <2>2, <3>2 DEF DistinctIn
    <2> QED BY <2>1, <2>2
<1>8. ASSUME RisingIn(s)
      PROVE  RisingIn(t) /\ (Carrier(s[1]) => Below({Load(s[1])}, WaitingIn(t)))
    <2>1. \A i \in OpsOf(t, "push") : i + 1 \in OpsOf(s, "push") /\ t[i] = s[i + 1]
                                      /\ i \in Nat /\ 1 < i + 1
        BY <1>1 DEF OpsOf
    <2>2. RisingIn(t)
        <3>1. \A i, j \in OpsOf(t, "push") : i < j => i + 1 < j + 1
            BY <2>1
        <3> QED BY <1>8, <2>1, <3>1 DEF RisingIn
    <2>3. ASSUME Carrier(s[1]), NEW b \in WaitingIn(t), Load(s[1]).done = 0, b.done = 0
          PROVE  Load(s[1]).msg < b.msg
        <3>1. PICK i \in CarriersIn(t) : b = Load(t[i])
            BY <2>3 DEF WaitingIn
        <3>2. t[i].op = "push" /\ i \in OpsOf(t, "push")
            BY <1>1, <2>3, <3>1, CarriersAre DEF OpsOf
        <3>3. s[1].op = "push" /\ 1 \in OpsOf(s, "push")
            BY <1>1, <1>4, <2>3, CarriersAre DEF OpsOf
        <3>4. s[1].msg < s[i + 1].msg
            BY <1>8, <2>1, <3>2, <3>3 DEF RisingIn
        <3> QED BY <2>1, <3>1, <3>2, <3>4 DEF Load
    <2> QED BY <2>2, <2>3 DEF Below
<1> QED BY <1>1, <1>6, <1>7, <1>8 DEF t

LEMMA WaitingAppend ==
    ASSUME NEW s \in Seq(Functions), NEW f \in Functions
    PROVE  /\ WaitingIn(Append(s, f)) =
                 WaitingIn(s) \cup (IF Carrier(f) THEN {Load(f)} ELSE {})
           /\ /\ DistinctIn(s)
              /\ Carrier(f) => \A b \in WaitingIn(s) : b.msg # f.msg
              => DistinctIn(Append(s, f))
           /\ /\ RisingIn(s)
              /\ f.op = "push" => Below(WaitingIn(s), {Load(f)})
              => RisingIn(Append(s, f))
<1> DEFINE t == Append(s, f)
<1>1. /\ t \in Seq(Functions) /\ Len(s) \in Nat /\ Len(t) = Len(s) + 1
      /\ \A i \in 1 .. Len(s) : t[i] = s[i]
      /\ t[Len(s) + 1] = f
    BY AppendProps
<1> HIDE DEF t
<1>2. \A i : i \in CarriersIn(t) <=> \/ i \in CarriersIn(s)
                                     \/ i = Len(s) + 1 /\ Carrier(f)
    BY <1>1, CarriersAre
<1>3. \A i \in CarriersIn(s) : t[i] = s[i] /\ i # Len(s) + 1
    BY <1>1, CarriersAre
<1>4. WaitingIn(t) = WaitingIn(s) \cup (IF Carrier(f) THEN {Load(f)} ELSE {})
    BY <1>1, <1>2, <1>3 DEF WaitingIn
<1>5. ASSUME DistinctIn(s), Carrier(f) => \A b \in WaitingIn(s) : b.msg # f.msg
      PROVE  DistinctIn(t)
    <2>1. ASSUME NEW i \in CarriersIn(s), Carrier(f) PROVE t[i].msg # f.msg
        <3>1. Load(s[i]) \in WaitingIn(s) /\ Load(s[i]).msg = s[i].msg
            BY DEF WaitingIn, Load
        <3> QED BY <1>3, <1>5, <2>1, <3>1
    <2> QED BY <1>1, <1>2, <1>3, <1>5, <2>1 DEF DistinctIn
<1>6. ASSUME RisingIn(s), f.op = "push" => Below(WaitingIn(s), {Load(f)})
      PROVE  RisingIn(t)
    <2> SUFFICES ASSUME NEW i \in OpsOf(t, "push"), NEW j \in OpsOf(t, "push"), i < j
                 PROVE  t[i].msg < t[j].msg
        BY DEF RisingIn
    <2>1. i \in OpsOf(s, "push") /\ t[i] = s[i]
        BY <1>1 DEF OpsOf
    <2>2. CASE j \in 1 .. Len(s)
        <3>1. j \in OpsOf(s, "push") /\ t[j] = s[j]
            BY <1>1, <2>2 DEF OpsOf
        <3> QED BY <1>6, <2>1, <3>1 DEF RisingIn
    <2>3. CASE j = Len(s) + 1
        <3>1. t[j] = f /\ f.op = "push"
            BY <1>1, <2>3 DEF OpsOf
        <3>2. Load(s[i]) \in WaitingIn(s) /\ Load(s[i]).done = 0
              /\ Load(s[i]).msg = s[i].msg
            BY <2>1 DEF WaitingIn, CarriersIn, Load, OpsOf
        <3>3. Load(f).done = 0 /\ Load(f).msg = f.msg
            BY <3>1 DEF Load
        <3> QED BY <1>6, <2>1, <3>1, <3>2, <3>3 DEF Below
    <2> QED BY <1>1, <2>2, <2>3 DEF OpsOf
<1> QED BY <1>1, <1>4, <1>5, <1>6 DEF t

-----------------------------------------------------------------------------
(* Sending: every message goes through its places once and in order.        *)

LEMMA SendingFacts ==
    ASSUME IInv
    PROVE  /\ TypeOK /\ Once /\ Apart /\ Numbered /\ Counted /\ InLine
           /\ open => NoneLost
           /\ WireInOrder
           /\ strand \in Seq(Functions) /\ sendq \in Seq(Buffers)
           /\ writes \in Seq(Buffers) /\ finished \in SUBSET {b \in Buffers : b.done > 0}
           /\ pings \in Nat /\ pushes \in Nat /\ Pushed \in Nat
           /\ OnTheWay \subseteq Buffers
           /\ \A b \in Buffers : b.msg \in Nat \ {0} /\ b.done \in Nat /\ b.done <= Parts
           /\ \A i \in 1 .. Len(sent) : sent[i].msg \in Nat \ {0}
                                       /\ sent[i].part \in 1 .. Parts
<1>1. /\ TypeOK /\ Once /\ Apart /\ Numbered /\ Counted /\ InLine
      /\ open => NoneLost
      /\ WireInOrder
    BY DEF IInv, Sending
<1>2. /\ strand \in Seq(Functions) /\ sendq \in Seq(Buffers)
      /\ writes \in Seq(Buffers) /\ finished \in SUBSET {b \in Buffers : b.done > 0}
      /\ pings \in Nat /\ pushes \in Nat /\ Pushed \in Nat
    BY <1>1, Constants DEF TypeOK, Pushed
<1>3. \A b \in Buffers : b.msg \in Nat \ {0} /\ b.done \in Nat /\ b.done <= Parts
    BY Constants DEF Buffers, Messages
<1>4. OnTheWay \subseteq Buffers
    <2>1. Waiting \subseteq Buffers
        BY <1>2, CarriersAre, PlacesAre DEF WaitingIn
    <2>2. Held(sendq) \subseteq Buffers /\ Held(writes) \subseteq Buffers
        BY <1>2 DEF Held
    <2> QED BY <1>2, <2>1, <2>2 DEF OnTheWay
<1>5. ASSUME NEW i \in 1 .. Len(sent)
      PROVE  sent[i].msg \in Nat \ {0} /\ sent[i].part \in 1 .. Parts
    <2> DEFINE P == [msg : Messages, part : 1 .. Parts]
    <2>1. sent \in Seq(P)
        BY <1>1 DEF TypeOK
    <2>2. sent[i] \in P
        <3> HIDE DEF P
        <3> QED BY <2>1, ElementOf
    <2> QED BY <2>2, Constants DEF Messages
<1> QED BY <1>1, <1>2, <1>3, <1>4, <1>5

LEMMA WireKept ==
    ASSUME WireInOrder, UNCHANGED sent
    PROVE  WireInOrder'
BY DEF WireInOrder, PartsInOrder, BegunInOrder, Before

\* Messages change their places only.
LEMMA OnTheWayKept ==
    ASSUME IInv, OnTheWay' = OnTheWay, UNCHANGED <<open, sent, pings, pushes>>
    PROVE  Numbered' /\ Counted' /\ (open' => NoneLost') /\ WireInOrder'
<1>1. Numbered' /\ Counted'
    BY SendingFacts DEF Numbered, Counted, Pushed, PartsOf
<1>2. open' => NoneLost'
    BY SendingFacts DEF NoneLost, Pushed, Begun
<1> QED BY <1>1, <1>2, SendingFacts, WireKept

LEMMA SendingKept ==
    ASSUME IInv, WaitingIn(strand') = WaitingIn(strand), DistinctIn(strand'),
           RisingIn(strand'), UNCHANGED <<sendVars, open, pings, pushes>>
    PROVE  Sending'
<1>1. Waiting' = Waiting /\ UNCHANGED <<sendq, writes, finished, sent>>
    BY PlacesAre DEF sendVars
<1>2. OnTheWay' = OnTheWay
    BY <1>1 DEF OnTheWay, Held
<1>3. Numbered' /\ Counted' /\ (open' => NoneLost') /\ WireInOrder'
    BY <1>1, <1>2, OnTheWayKept
<1>4. Once'
    BY <1>1, SendingFacts, PlacesAre DEF Distinct
<1>5. Apart'
    BY <1>1, SendingFacts DEF Apart, Disjoint, Held
<1>6. InLine'
    BY <1>1, SendingFacts, PlacesAre DEF Rising, Below, Held
<1> QED BY <1>3, <1>4, <1>5, <1>6 DEF Sending

\* A push with the next number on the strand.
LEMMA PushBehind ==
    ASSUME IInv, NEW f \in Functions, f.op = "push", f.msg = Pushed + 1
    PROVE  LET t == Append(strand, f)
           IN  /\ t \in Seq(Functions)
               /\ WaitingIn(t) = Waiting \cup {[msg |-> Pushed + 1, done |-> 0]}
               /\ DistinctIn(t) /\ RisingIn(t)
<1>1. Waiting = WaitingIn(strand) /\ DistinctIn(strand) /\ RisingIn(strand)
    BY PlacesAre, SendingFacts
<1>2. \A b \in Waiting : b.msg <= Pushed /\ b.msg \in Nat
    BY SendingFacts DEF Numbered, OnTheWay
<1>3. Load(f) = [msg |-> Pushed + 1, done |-> 0] /\ Carrier(f)
    BY DEF Load, Carrier
<1>4. \A b \in WaitingIn(strand) : b.msg # f.msg
    BY <1>1, <1>2, SendingFacts
<1>5. Below(WaitingIn(strand), {Load(f)})
    BY <1>1, <1>2, <1>3, SendingFacts DEF Below
<1> QED BY <1>1, <1>3, <1>4, <1>5, SendingFacts, WaitingAppend, AppendProps

LEMMA SendingPushed ==
    ASSUME IInv, WaitingIn(strand') = Waiting \cup {[msg |-> Pushed + 1, done |-> 0]},
           DistinctIn(strand'), RisingIn(strand'),
           Pushed' = Pushed + 1, UNCHANGED <<sendVars, open>>
    PROVE  Sending'
<1> DEFINE n == [msg |-> Pushed + 1, done |-> 0]
<1>1. /\ Waiting' = Waiting \cup {n} /\ UNCHANGED <<sendq, writes, finished, sent>>
      /\ OnTheWay' = OnTheWay \cup {n}
    <2>1. Waiting' = Waiting \cup {n} /\ UNCHANGED <<sendq, writes, finished, sent>>
        BY PlacesAre DEF sendVars
    <2> QED BY <2>1 DEF OnTheWay, Held
<1>2. n.msg = Pushed + 1 /\ n.done = 0
    OBVIOUS
<1>3. \A b \in OnTheWay : b.msg <= Pushed /\ b.msg \in Nat
    BY SendingFacts DEF Numbered
<1> HIDE DEF n
<1>4. Once'
    BY <1>1, SendingFacts, PlacesAre DEF Distinct
<1>5. Apart'
    <2>1. \A b \in Held(sendq) \cup Held(writes) \cup finished : b.msg # n.msg
        BY <1>2, <1>3, SendingFacts DEF OnTheWay
    <2>2. Held(sendq') = Held(sendq) /\ Held(writes') = Held(writes) /\ finished' = finished
        BY <1>1 DEF Held
    <2> QED BY <1>1, <2>1, <2>2, SendingFacts DEF Apart, Disjoint
<1>6. Numbered'
    <2>1. \A b \in OnTheWay' : b.msg <= Pushed'
        BY <1>1, <1>2, <1>3, SendingFacts
    <2>2. \A i \in 1 .. Len(sent) : sent[i].msg <= Pushed + 1
        <3>1. \A i \in 1 .. Len(sent) : sent[i].msg \in Nat /\ sent[i].msg <= Pushed
            BY SendingFacts DEF Numbered
        <3> QED BY <3>1, SendingFacts
    <2> QED BY <1>1, <2>1, <2>2 DEF Numbered
<1>7. Counted'
    <2>1. \A m : PartsOf(m)' = PartsOf(m)
        BY <1>1 DEF PartsOf
    <2>2. PartsOf(n.msg) = 1 .. n.done
        <3>1. \A i \in 1 .. Len(sent) : sent[i].msg \in Nat /\ sent[i].msg <= Pushed
            BY SendingFacts DEF Numbered
        <3>2. \A i \in 1 .. Len(sent) : sent[i].msg # n.msg
            BY <1>2, <3>1, SendingFacts
        <3>3. 1 .. n.done = {}
            BY <1>2
        <3> QED BY <3>2, <3>3 DEF PartsOf
    <2> QED BY <1>1, <2>1, <2>2, SendingFacts DEF Counted
<1>8. InLine'
    <2>1. Below(Held(sendq) \cup Held(writes), {n})
        BY <1>2, <1>3, SendingFacts DEF Below, OnTheWay
    <2>2. Below(Held(sendq), Waiting') /\ Below(Held(writes), Waiting' \cup Held(sendq))
        BY <1>1, <2>1, SendingFacts DEF InLine, Below
    <2>3. /\ RisingIn(strand') /\ Rising(sendq') /\ Rising(writes')
          /\ Held(sendq') = Held(sendq) /\ Held(writes') = Held(writes)
        BY <1>1, SendingFacts DEF InLine, Rising, Held
    <2> QED BY <2>2, <2>3, PlacesAre
<1>9. open' => NoneLost'
    <2>1. ASSUME open, NEW m \in 1 .. Pushed + 1
          PROVE  Begun(m)' \/ \E b \in OnTheWay' : b.msg = m
        <3>1. CASE m = Pushed + 1
            BY <1>1, <1>2, <3>1
        <3>2. CASE m \in 1 .. Pushed
            <4>1. Begun(m) \/ \E b \in OnTheWay : b.msg = m
                BY <2>1, <3>2, SendingFacts DEF NoneLost
            <4>2. Begun(m)' <=> Begun(m)
                BY <1>1 DEF Begun
            <4> QED BY <1>1, <4>1, <4>2
        <3> QED BY <3>1, <3>2, SendingFacts
    <2> QED BY <2>1 DEF NoneLost
<1> QED BY <1>1, <1>4, <1>5, <1>6, <1>7, <1>8, <1>9, SendingFacts, WireKept DEF Sending

\* RunPush and RunRequeue: from the strand to the end of send_buffers.
LEMMA SendingQueued ==
    ASSUME IInv, strand # <<>>, Carrier(Head(strand)),
           WaitingIn(strand') = WaitingIn(Tail(strand)),
           DistinctIn(strand'), RisingIn(strand'),
           sendq' = Append(sendq, Load(Head(strand))),
           UNCHANGED <<writes, finished, sent, open, pings, pushes>>
    PROVE  Sending'
<1> DEFINE n == Load(Head(strand))
           W == WaitingIn(Tail(strand))
<1>1. /\ Waiting = W \cup {n} /\ Waiting' = W
      /\ \A b \in W : b.msg # n.msg
      /\ Below({n}, W)
    <2>1. DistinctIn(strand) /\ RisingIn(strand) /\ Waiting = WaitingIn(strand)
          /\ Waiting' = WaitingIn(strand')
        BY PlacesAre, SendingFacts
    <2>2. n.msg = Head(strand).msg
        BY DEF Load
    <2> QED BY <2>1, <2>2, SendingFacts, WaitingTail
<1> HIDE DEF n, W
<1>2. n \in Buffers
    BY <1>1, SendingFacts DEF OnTheWay
<1>3. \A b \in Held(sendq) : b.msg # n.msg
    BY <1>1, SendingFacts DEF Apart, Disjoint
<1>4. Below(Held(sendq), {n}) /\ Below(Held(writes), {n})
    BY <1>1, SendingFacts DEF InLine, Below
<1>5. /\ Held(sendq') = Held(sendq) \cup {n} /\ Distinct(sendq') /\ Rising(sendq')
    BY <1>2, <1>3, <1>4, SendingFacts, PlacesAre, HeldAppend DEF n
<1>6. Held(writes') = Held(writes) /\ Distinct(writes') /\ Rising(writes')
    BY SendingFacts, PlacesAre DEF Held, Distinct, Rising
<1>7. OnTheWay' = OnTheWay
    BY <1>1, <1>5, <1>6 DEF OnTheWay
<1>8. Numbered' /\ Counted' /\ (open' => NoneLost') /\ WireInOrder'
    BY <1>7, OnTheWayKept
<1>9. Once'
    BY <1>5, <1>6, SendingFacts, PlacesAre
<1>10. Apart'
    <2>1. Disjoint(W, Held(sendq)) /\ Disjoint(W, Held(writes)) /\ Disjoint(W, finished)
          /\ \A b \in Held(writes) \cup finished : n.msg # b.msg
        BY <1>1, SendingFacts DEF Apart, Disjoint
    <2> QED BY <1>1, <1>5, <1>6, <2>1, SendingFacts DEF Apart, Disjoint
<1>11. InLine'
    <2>1. Below(Held(sendq'), Waiting')
        BY <1>1, <1>5, SendingFacts DEF InLine, Below
    <2>2. Below(Held(writes'), Waiting' \cup Held(sendq'))
        BY <1>1, <1>4, <1>5, <1>6, SendingFacts DEF InLine, Below
    <2> QED BY <1>5, <1>6, <2>1, <2>2, PlacesAre
<1> QED BY <1>8, <1>9, <1>10, <1>11 DEF Sending

\* RunWrite: the front of send_buffers is given to the socket.
LEMMA SendingWrite ==
    ASSUME IInv, sendq # <<>>, WaitingIn(strand') = WaitingIn(strand),
           DistinctIn(strand'), RisingIn(strand'),
           writes' = Append(writes, Head(sendq)), sendq' = Tail(sendq),
           UNCHANGED <<finished, sent, open, pings, pushes>>
    PROVE  Sending'
<1> DEFINE n == Head(sendq)
           Q == Held(Tail(sendq))
<1>1. /\ Held(sendq) = Q \cup {n} /\ Distinct(sendq') /\ Rising(sendq')
      /\ \A b \in Q : b.msg # n.msg
      /\ Below({n}, Q) /\ n \in Buffers /\ Held(sendq') = Q
    BY SendingFacts, PlacesAre, HeldTail
<1>2. Waiting' = Waiting
    BY PlacesAre
<1> HIDE DEF n, Q
<1>3. \A b \in Held(writes) : b.msg # n.msg
    BY <1>1, SendingFacts DEF Apart, Disjoint
<1>4. Below(Held(writes), {n})
    BY <1>1, SendingFacts DEF InLine, Below
<1>5. Held(writes') = Held(writes) \cup {n} /\ Distinct(writes') /\ Rising(writes')
    BY <1>1, <1>3, <1>4, SendingFacts, PlacesAre, HeldAppend DEF n
<1>6. OnTheWay' = OnTheWay
    BY <1>1, <1>2, <1>5 DEF OnTheWay
<1>7. Numbered' /\ Counted' /\ (open' => NoneLost') /\ WireInOrder'
    BY <1>6, OnTheWayKept
<1>8. Once'
    BY <1>1, <1>5, SendingFacts, PlacesAre
<1>9. Apart'
    <2>1. Disjoint(Q, Held(writes)) /\ Disjoint(Q, finished)
          /\ \A b \in finished : n.msg # b.msg
        BY <1>1, SendingFacts DEF Apart, Disjoint
    <2>2. Disjoint(Waiting, Q) /\ Disjoint(Waiting, Held(writes) \cup {n})
        BY <1>1, SendingFacts DEF Apart, Disjoint
    <2>3. Disjoint(Waiting, finished) /\ Disjoint(Held(writes), finished)
        BY SendingFacts DEF Apart, Disjoint
    <2>4. finished' = finished
        BY PlacesAre
    <2>5. Disjoint(Waiting, Q \cup (Held(writes) \cup {n}) \cup finished)
        BY <2>2, <2>3 DEF Disjoint
    <2>6. Disjoint(Q, (Held(writes) \cup {n}) \cup finished)
        BY <1>1, <2>1 DEF Disjoint
    <2>7. Disjoint(Held(writes) \cup {n}, finished)
        BY <2>1, <2>3 DEF Disjoint
    <2> QED BY <1>1, <1>2, <1>5, <2>4, <2>5, <2>6, <2>7 DEF Apart, Disjoint
<1>10. InLine'
    <2>1. Below(Q, Waiting) /\ Below({n}, Waiting)
        BY <1>1, SendingFacts DEF InLine, Below
    <2>2. Below(Held(sendq'), Waiting')
        BY <1>1, <1>2, <2>1
    <2>3. Below(Held(writes'), Waiting' \cup Held(sendq'))
        BY <1>1, <1>2, <1>5, <2>1, SendingFacts DEF InLine, Below
    <2> QED BY <1>1, <1>5, <2>2, <2>3, PlacesAre
<1> QED BY <1>7, <1>8, <1>9, <1>10 DEF Sending

\* The wire when the socket has taken k parts of the first buffer.
LEMMA WireGrows ==
    ASSUME IInv, NEW k \in 1 .. Parts, SocketTakes(k)
    PROVE  LET w == Head(writes)
           IN  /\ w \in Buffers /\ w \in Held(writes) /\ w.done + k \in 1 .. Parts
               /\ Len(sent') = Len(sent) + k /\ Len(sent) \in Nat
               /\ \A i \in 1 .. Len(sent) : sent'[i] = sent[i]
               /\ \A j \in 1 .. k : /\ sent'[Len(sent) + j].msg = w.msg
                                    /\ sent'[Len(sent) + j].part = w.done + j
               /\ finished' = finished \cup {[msg |-> w.msg, done |-> w.done + k]}
<1> DEFINE w == Head(writes)
<1>1. writes \in Seq(Buffers) /\ writes # <<>> /\ sent \in Seq([msg : Messages, part : 1 .. Parts])
    BY SendingFacts DEF SocketTakes, TypeOK
<1>2. w \in Buffers /\ w \in Held(writes)
    BY <1>1, HeldTail
<1>3. k <= Parts - w.done /\ sent' = sent \o Taken(w, k)
      /\ finished' = finished \cup {[w EXCEPT !.done = @ + k]}
    BY DEF SocketTakes, Taken
<1> HIDE DEF w
<1>4. /\ Taken(w, k) \in Seq([msg : Messages, part : 1 .. Parts])
      /\ Len(Taken(w, k)) = k /\ w.done + k \in 1 .. Parts
      /\ [w EXCEPT !.done = @ + k] = [msg |-> w.msg, done |-> w.done + k]
    BY <1>2, <1>3, TakenType
<1>5. /\ Len(sent') = Len(sent) + k /\ Len(sent) \in Nat
      /\ \A i \in 1 .. Len(sent) : sent'[i] = sent[i]
      /\ \A j \in 1 .. k : sent'[Len(sent) + j] = Taken(w, k)[j]
    BY <1>1, <1>3, <1>4
<1>6. \A j \in 1 .. k : Taken(w, k)[j].msg = w.msg /\ Taken(w, k)[j].part = w.done + j
    BY DEF Taken
<1>7. \A j \in 1 .. k : /\ sent'[Len(sent) + j].msg = w.msg
                        /\ sent'[Len(sent) + j].part = w.done + j
    BY <1>5, <1>6
<1> QED BY <1>2, <1>3, <1>4, <1>5, <1>7 DEF w

\* Nothing that was pushed before the first buffer waits anywhere.
LEMMA FrontIsNext ==
    ASSUME IInv, open, writes # <<>>, NEW m \in 1 .. Head(writes).msg - 1
    PROVE  Begun(m)
<1> DEFINE w == Head(writes)
           R == Held(Tail(writes))
<1>1. /\ w \in Buffers /\ Held(writes) = R \cup {w} /\ Below({w}, R)
    BY SendingFacts, PlacesAre, HeldTail
<1> HIDE DEF w, R
<1>2. ASSUME NEW b \in OnTheWay, b.done # 0 PROVE Begun(b.msg)
    <2>1. PartsOf(b.msg) = 1 .. b.done /\ b.done \in Nat
        BY SendingFacts DEF Counted
    <2>2. 1 \in PartsOf(b.msg)
        BY <1>2, <2>1
    <2> QED BY <2>2 DEF PartsOf, Begun
<1>3. w \in OnTheWay /\ w.msg \in Nat /\ m \in 1 .. w.msg - 1 /\ w.msg <= Pushed
    BY <1>1, SendingFacts DEF OnTheWay, Numbered, w
<1>4. CASE w.done # 0
    <2>1. PICK i \in 1 .. Len(sent) : sent[i].msg = w.msg
        BY <1>2, <1>3, <1>4 DEF Begun
    <2>2. PICK j \in 1 .. i : sent[j].msg = m
        BY <1>3, <2>1, SendingFacts DEF WireInOrder, BegunInOrder
    <2>3. j \in 1 .. Len(sent)
        BY <2>1, <2>2
    <2> QED BY <2>2, <2>3 DEF Begun
<1>5. CASE w.done = 0
    <2>1. SUFFICES ASSUME NEW b \in OnTheWay, b.msg = m PROVE Begun(m)
        <3>1. m \in 1 .. Pushed
            BY <1>3, SendingFacts
        <3> QED BY <3>1, SendingFacts DEF NoneLost
    <2>2. SUFFICES ASSUME b.done = 0 PROVE FALSE
        BY <1>2, <2>1
    <2>3. b \notin finished
        BY <2>2, SendingFacts
    <2>4. b = w \/ w.msg < b.msg
        BY <1>1, <1>5, <2>1, <2>2, <2>3, SendingFacts DEF OnTheWay, InLine, Below
    <2> QED BY <1>3, <2>1, <2>4
<1> QED BY <1>4, <1>5

LEMMA WireStep ==
    ASSUME IInv, NEW k \in 1 .. Parts, SocketTakes(k)
    PROVE  /\ WireInOrder'
           /\ \A m : m # Head(writes).msg => PartsOf(m)' = PartsOf(m)
           /\ \A m : m = Head(writes).msg => PartsOf(m)' = 1 .. Head(writes).done + k
           /\ \A m : Begun(m)' <=> Begun(m) \/ m = Head(writes).msg
<1> PICK w : w = Head(writes)
    OBVIOUS
<1> PICK L \in Nat : L = Len(sent)
    BY SendingFacts DEF TypeOK
<1>1. /\ w \in Buffers /\ w \in Held(writes) /\ w.done + k \in 1 .. Parts
      /\ Len(sent') = L + k
      /\ \A i \in 1 .. L : sent'[i] = sent[i]
      /\ \A j \in 1 .. k : sent'[L + j].msg = w.msg /\ sent'[L + j].part = w.done + j
    BY WireGrows
<1>2. w.done \in Nat /\ w.msg \in Nat \ {0}
    BY <1>1, SendingFacts
<1>3. \A i \in 1 .. L + k : i \in 1 .. L \/ (i - L \in 1 .. k /\ i = L + (i - L))
    OBVIOUS
<1>4. \A i \in 1 .. L : i \in 1 .. L + k
    OBVIOUS
<1>5. \A j \in 1 .. k : L + j \in 1 .. L + k /\ L + j > L
    OBVIOUS
<1>6. PartsOf(w.msg) = 1 .. w.done
    BY <1>1, SendingFacts DEF Counted, OnTheWay
<1>7. ASSUME NEW m, m # w.msg PROVE PartsOf(m)' = PartsOf(m)
    BY <1>1, <1>3, <1>4, <1>7 DEF PartsOf
<1>8. \A x : x \in PartsOf(w.msg)' <=>
                \/ x \in PartsOf(w.msg)
                \/ \E j \in 1 .. k : x = w.done + j
    <2>1. ASSUME NEW x \in PartsOf(w.msg)'
          PROVE  x \in PartsOf(w.msg) \/ \E j \in 1 .. k : x = w.done + j
        <3>1. PICK i \in 1 .. L + k : sent'[i].msg = w.msg /\ sent'[i].part = x
            BY <1>1 DEF PartsOf
        <3>2. CASE i \in 1 .. L
            BY <1>1, <3>1, <3>2 DEF PartsOf
        <3>3. CASE i \notin 1 .. L
            <4>1. PICK j \in 1 .. k : i = L + j
                BY <1>3, <3>3
            <4>2. sent'[L + j].part = w.done + j
                BY <1>1
            <4> QED BY <3>1, <4>1, <4>2
        <3> QED BY <3>2, <3>3
    <2>2. ASSUME NEW x \in PartsOf(w.msg) PROVE x \in PartsOf(w.msg)'
        BY <1>1, <1>4 DEF PartsOf
    <2>3. ASSUME NEW j \in 1 .. k PROVE w.done + j \in PartsOf(w.msg)'
        BY <1>1, <1>5 DEF PartsOf
    <2> QED BY <2>1, <2>2, <2>3
<1>9. PartsOf(w.msg)' = 1 .. w.done + k
    <2>1. ASSUME NEW x \in 1 .. w.done + k PROVE x \in PartsOf(w.msg)'
        <3>1. CASE x \in 1 .. w.done
            BY <1>6, <1>8, <3>1
        <3>2. CASE x \notin 1 .. w.done
            <4>1. x - w.done \in 1 .. k /\ x = w.done + (x - w.done)
                BY <1>2, <3>2
            <4> QED BY <1>8, <4>1
        <3> QED BY <3>1, <3>2
    <2>2. ASSUME NEW x \in PartsOf(w.msg)' PROVE x \in 1 .. w.done + k
        <3>1. CASE x \in 1 .. w.done
            BY <1>2, <3>1
        <3>2. CASE \E j \in 1 .. k : x = w.done + j
            BY <1>2, <3>2
        <3> QED BY <1>6, <1>8, <3>1, <3>2
    <2> QED BY <2>1, <2>2
<1>10. \A m : Begun(m)' <=> Begun(m) \/ m = w.msg
    <2>1. 1 \in 1 .. k
        BY Constants
    <2>2. ASSUME NEW m, Begun(m)' PROVE Begun(m) \/ m = w.msg
        <3>1. PICK i \in 1 .. L + k : sent'[i].msg = m
            BY <1>1, <2>2 DEF Begun
        <3>2. CASE i \in 1 .. L
            BY <1>1, <3>1, <3>2 DEF Begun
        <3>3. CASE i \notin 1 .. L
            BY <1>1, <1>3, <3>1, <3>3
        <3> QED BY <3>2, <3>3
    <2>3. ASSUME NEW m, Begun(m) PROVE Begun(m)'
        BY <1>1, <1>4, <2>3 DEF Begun
    <2>4. Begun(w.msg)'
        BY <1>1, <1>5, <2>1 DEF Begun
    <2> QED BY <2>2, <2>3, <2>4
<1>11. PartsInOrder'
    <2> SUFFICES ASSUME NEW i \in 1 .. L + k
                 PROVE  {sent'[j].part : j \in Before(i)'} = 1 .. sent'[i].part - 1
        BY <1>1 DEF PartsInOrder
    <2>1. CASE i \in 1 .. L
        <3>1. \A j \in 1 .. i - 1 : j \in 1 .. L
            BY <2>1
        <3>2. Before(i)' = Before(i) /\ \A j \in Before(i) : sent'[j] = sent[j]
            BY <1>1, <2>1, <3>1 DEF Before
        <3>3. {sent[j].part : j \in Before(i)} = 1 .. sent[i].part - 1
            BY <2>1, SendingFacts DEF WireInOrder, PartsInOrder
        <3> QED BY <1>1, <2>1, <3>2, <3>3
    <2>2. ASSUME NEW n \in 1 .. k, i = L + n
          PROVE  {sent'[j].part : j \in Before(i)'} = 1 .. sent'[i].part - 1
        <3>1. sent'[i].msg = w.msg /\ sent'[i].part = w.done + n
            BY <1>1, <2>2
        <3>2. ASSUME NEW j \in Before(i)' PROVE sent'[j].part \in 1 .. w.done + n - 1
            <4>1. j \in 1 .. i - 1 /\ sent'[j].msg = w.msg
                BY <3>1, <3>2 DEF Before
            <4>2. CASE j \in 1 .. L
                <5>1. sent[j].part \in PartsOf(w.msg)
                    BY <1>1, <4>1, <4>2 DEF PartsOf
                <5> QED BY <1>1, <1>2, <1>6, <2>2, <4>2, <5>1
            <4>3. CASE j \notin 1 .. L
                <5>1. j - L \in 1 .. n - 1 /\ j - L \in 1 .. k /\ j = L + (j - L)
                    BY <2>2, <4>1, <4>3
                <5>2. sent'[j].part = w.done + (j - L)
                    BY <1>1, <5>1
                <5> QED BY <1>2, <5>1, <5>2
            <4> QED BY <4>2, <4>3
        <3>3. ASSUME NEW x \in 1 .. w.done + n - 1 PROVE \E j \in Before(i)' : x = sent'[j].part
            <4>1. CASE x \in 1 .. w.done
                <5>1. PICK j \in 1 .. L : sent[j].msg = w.msg /\ sent[j].part = x
                    BY <1>6, <4>1 DEF PartsOf
                <5>2. j \in 1 .. i - 1
                    BY <2>2
                <5> QED BY <1>1, <3>1, <5>1, <5>2 DEF Before
            <4>2. CASE x \notin 1 .. w.done
                <5>1. x - w.done \in 1 .. n - 1 /\ x = w.done + (x - w.done)
                    BY <1>2, <4>2
                <5>2. x - w.done \in 1 .. k /\ L + (x - w.done) \in 1 .. i - 1
                    BY <2>2, <5>1
                <5> QED BY <1>1, <3>1, <5>1, <5>2 DEF Before
            <4> QED BY <4>1, <4>2
        <3>4. {sent'[j].part : j \in Before(i)'} = 1 .. w.done + n - 1
            BY <3>2, <3>3
        <3>5. 1 .. sent'[i].part - 1 = 1 .. w.done + n - 1
            BY <1>2, <2>2, <3>1
        <3> QED BY <3>4, <3>5, Zenon
    <2> QED BY <1>3, <2>1, <2>2
<1>12. BegunInOrder'
    <2> SUFFICES ASSUME NEW i \in 1 .. L + k, NEW m \in 1 .. sent'[i].msg - 1
                 PROVE  \E j \in 1 .. i : sent'[j].msg = m
        BY <1>1 DEF BegunInOrder
    <2>1. CASE i \in 1 .. L
        <3>1. PICK j \in 1 .. i : sent[j].msg = m
            BY <1>1, <2>1, SendingFacts DEF WireInOrder, BegunInOrder
        <3>2. j \in 1 .. L
            BY <2>1
        <3> QED BY <1>1, <3>1, <3>2
    <2>2. CASE i \notin 1 .. L
        <3>1. sent'[i].msg = w.msg
            BY <1>1, <1>3, <2>2
        <3>2. Begun(m)
            BY <3>1, FrontIsNext DEF SocketTakes
        <3>3. PICK j \in 1 .. L : sent[j].msg = m
            BY <3>2 DEF Begun
        <3>4. j \in 1 .. i
            BY <2>2
        <3> QED BY <1>1, <3>3, <3>4
    <2> QED BY <2>1, <2>2
<1> QED BY <1>7, <1>9, <1>10, <1>11, <1>12 DEF WireInOrder

LEMMA SendingTakes ==
    ASSUME IInv, NEW k \in 1 .. Parts, SocketTakes(k)
    PROVE  Sending'
<1> PICK w : w = Head(writes)
    OBVIOUS
<1> DEFINE R == Held(Tail(writes))
           n == [msg |-> w.msg, done |-> w.done + k]
<1>1. /\ writes # <<>> /\ writes' = Tail(writes) /\ open
      /\ UNCHANGED <<open, strand, pings, pushes, sendq>>
    BY DEF SocketTakes
<1>2. /\ Held(writes) = R \cup {w} /\ Distinct(writes') /\ Rising(writes')
      /\ \A b \in R : b.msg # w.msg
      /\ w \in Buffers /\ Held(writes') = R
    BY <1>1, SendingFacts, PlacesAre, HeldTail
<1>3. Waiting' = Waiting /\ Held(sendq') = Held(sendq)
    BY <1>1, PlacesAre DEF Held
<1>4. finished' = finished \cup {n} /\ w.done + k \in 1 .. Parts
    BY WireGrows
<1>5. n.msg = w.msg /\ n.done = w.done + k
    OBVIOUS
<1> HIDE DEF R, n
<1>6. \A b \in Waiting \cup Held(sendq) \cup R \cup finished : b.msg # w.msg
    BY <1>2, SendingFacts DEF Apart, Disjoint
<1>7. /\ OnTheWay = Waiting \cup Held(sendq) \cup R \cup finished \cup {w}
      /\ OnTheWay' = Waiting \cup Held(sendq) \cup R \cup finished \cup {n}
    BY <1>2, <1>3, <1>4 DEF OnTheWay
<1>8. Once'
    <2>1. \A f, g \in finished' : f.msg = g.msg => f = g
        BY <1>4, <1>5, <1>6, SendingFacts DEF Once
    <2>2. DistinctIn(strand') /\ Distinct(sendq')
        BY <1>1, SendingFacts, PlacesAre DEF Distinct
    <2> QED BY <1>2, <2>1, <2>2, PlacesAre
<1>9. Apart'
    <2>1. Disjoint(Waiting, Held(sendq) \cup R \cup finished')
        BY <1>2, <1>4, <1>5, <1>6, SendingFacts DEF Apart, Disjoint
    <2>2. Disjoint(Held(sendq), R \cup finished')
        BY <1>2, <1>4, <1>5, <1>6, SendingFacts DEF Apart, Disjoint
    <2>3. Disjoint(R, finished')
        BY <1>2, <1>4, <1>5, <1>6, SendingFacts DEF Apart, Disjoint
    <2> QED BY <1>2, <1>3, <2>1, <2>2, <2>3 DEF Apart
<1>10. InLine'
    <2>1. Below(Held(sendq), Waiting) /\ Below(R, Waiting \cup Held(sendq))
        BY <1>2, SendingFacts DEF InLine, Below
    <2>2. RisingIn(strand') /\ Rising(sendq')
        BY <1>1, SendingFacts, PlacesAre DEF Rising
    <2> QED BY <1>2, <1>3, <2>1, <2>2, PlacesAre
<1>11. Pushed' = Pushed
    BY <1>1 DEF Pushed
<1>12. Numbered'
    <2>1. w.msg <= Pushed
        BY <1>7, SendingFacts DEF Numbered
    <2>2. \A b \in OnTheWay' : b.msg <= Pushed
        BY <1>5, <1>7, <2>1, SendingFacts DEF Numbered
    <2>3. ASSUME NEW i \in 1 .. Len(sent') PROVE sent'[i].msg <= Pushed
        <3>1. PICK m : m = sent'[i].msg
            OBVIOUS
        <3>2. Begun(m)'
            BY <3>1 DEF Begun
        <3>3. Begun(m) \/ m = w.msg
            BY <3>2, WireStep
        <3> QED BY <2>1, <3>1, <3>3, SendingFacts DEF Begun, Numbered
    <2> QED BY <1>11, <2>2, <2>3 DEF Numbered
<1>13. Counted'
    <2>1. ASSUME NEW b \in OnTheWay' PROVE PartsOf(b.msg)' = 1 .. b.done
        <3>1. CASE b = n
            BY <1>5, <3>1, WireStep
        <3>2. CASE b # n
            <4>1. b \in OnTheWay /\ b.msg # w.msg
                BY <1>6, <1>7, <3>2
            <4>2. PartsOf(b.msg)' = PartsOf(b.msg)
                BY <4>1, WireStep
            <4> QED BY <4>1, <4>2, SendingFacts DEF Counted
        <3> QED BY <3>1, <3>2
    <2> QED BY <2>1 DEF Counted
<1>14. NoneLost'
    <2>1. ASSUME NEW m \in 1 .. Pushed PROVE Begun(m)' \/ \E b \in OnTheWay' : b.msg = m
        <3>1. Begun(m) \/ \E b \in OnTheWay : b.msg = m
            BY <1>1, SendingFacts DEF NoneLost
        <3>2. Begun(m)' <=> Begun(m) \/ m = w.msg
            BY WireStep
        <3> QED BY <1>7, <3>1, <3>2
    <2> QED BY <1>11, <2>1 DEF NoneLost
<1> QED BY <1>8, <1>9, <1>10, <1>12, <1>13, <1>14, WireStep DEF Sending

\* The connection is closed, and the first buffer is dropped.
LEMMA SendingFails ==
    ASSUME IInv, WriteFails
    PROVE  Sending'
<1> DEFINE R == Held(Tail(writes))
<1>1. /\ writes # <<>> /\ writes' = Tail(writes) /\ open' = FALSE
      /\ UNCHANGED <<strand, pings, pushes, sendq, finished, sent>>
    BY DEF WriteFails, IInv, TypeOK
<1>2. /\ R \subseteq Held(writes) /\ Distinct(writes') /\ Rising(writes')
      /\ Held(writes') = R
    BY <1>1, SendingFacts, PlacesAre, HeldTail
<1>3. Waiting' = Waiting /\ Held(sendq') = Held(sendq) /\ Pushed' = Pushed
    BY <1>1, PlacesAre DEF Held, Pushed
<1> HIDE DEF R
<1>4. OnTheWay' \subseteq OnTheWay
    BY <1>1, <1>2, <1>3 DEF OnTheWay
<1>5. Once'
    BY <1>1, <1>2, SendingFacts, PlacesAre DEF Distinct
<1>6. Apart'
    BY <1>1, <1>2, <1>3, SendingFacts DEF Apart, Disjoint
<1>7. InLine'
    <2>1. Below(Held(sendq), Waiting) /\ Below(R, Waiting \cup Held(sendq))
        BY <1>2, SendingFacts DEF InLine, Below
    <2>2. RisingIn(strand') /\ Rising(sendq')
        BY <1>1, SendingFacts, PlacesAre DEF Rising
    <2> QED BY <1>2, <1>3, <2>1, <2>2, PlacesAre
<1>8. Numbered' /\ Counted'
    BY <1>1, <1>3, <1>4, SendingFacts DEF Numbered, Counted, PartsOf
<1> QED BY <1>1, <1>5, <1>6, <1>7, <1>8, SendingFacts, WireKept DEF Sending

\* The handler of a completed write: the rest goes back to the strand, or the
\* message is done.
LEMMA SendingDone ==
    ASSUME IInv, NEW f \in finished, WriteDone(f)
    PROVE  Sending'
<1> DEFINE G == finished \ {f}
           s == Append(strand, Again(f))
           v == [op |-> "write"]
<1>1. /\ finished' = G /\ strand' = strand \o AfterWrite(f)
      /\ UNCHANGED <<open, pings, pushes, sendq, writes, sent>>
    BY DEF WriteDone
<1>2. f \in Buffers /\ f.done \in 1 .. Parts /\ v \in Functions /\ ~Carrier(v)
    BY SendingFacts, ReadsAndWrites, Constants DEF Carrier
<1>3. /\ DistinctIn(strand) /\ RisingIn(strand) /\ Waiting = WaitingIn(strand)
      /\ Waiting' = WaitingIn(strand')
    BY SendingFacts, PlacesAre
<1>4. /\ Held(sendq') = Held(sendq) /\ Held(writes') = Held(writes) /\ Pushed' = Pushed
      /\ Distinct(sendq') /\ Distinct(writes') /\ Rising(sendq') /\ Rising(writes')
    BY <1>1, SendingFacts, PlacesAre DEF Held, Distinct, Rising, Pushed
<1>5. /\ \A b \in Waiting \cup Held(sendq) \cup Held(writes) : b.msg # f.msg
      /\ \A b \in G : b.msg # f.msg
    BY SendingFacts DEF Apart, Disjoint, Once
<1>6. CASE f.done < Parts
    <2>1. /\ strand' = Append(s, v) /\ s \in Seq(Functions) /\ Again(f) \in Functions
        BY <1>1, <1>6, AfterWriteProps, SendingFacts
    <2>2. Carrier(Again(f)) /\ Again(f).op # "push" /\ Load(Again(f)) = f
        <3>1. f = [msg |-> f.msg, done |-> f.done]
            BY <1>2 DEF Buffers
        <3> QED BY <3>1 DEF Again, Carrier, Load
    <2>3. Again(f).msg = f.msg
        BY DEF Again
    <2>4. WaitingIn(s) = Waiting \cup {f} /\ DistinctIn(s) /\ RisingIn(s)
        BY <1>3, <1>5, <2>1, <2>2, <2>3, SendingFacts, WaitingAppend
    <2> HIDE DEF s, v, G
    <2>5. /\ Waiting' = Waiting \cup {f} /\ DistinctIn(strand') /\ RisingIn(strand')
        <3>1. v.op # "push"
            BY <1>2 DEF Carrier
        <3> QED BY <1>2, <1>3, <2>1, <2>4, <3>1, WaitingAppend
    <2>6. G \subseteq finished /\ finished = G \cup {f}
        BY DEF G
    <2>7. OnTheWay' = OnTheWay
        BY <1>1, <1>4, <2>5, <2>6 DEF OnTheWay
    <2>8. Numbered' /\ Counted' /\ (open' => NoneLost') /\ WireInOrder'
        BY <1>1, <2>7, OnTheWayKept
    <2>9. Once'
        BY <1>1, <1>4, <2>5, <2>6, SendingFacts, PlacesAre
    <2>10. Apart'
        <3>1. Disjoint(Waiting \cup {f}, Held(sendq) \cup Held(writes) \cup G)
            BY <1>5, <2>6, SendingFacts DEF Apart, Disjoint
        <3>2. Disjoint(Held(sendq), Held(writes) \cup G) /\ Disjoint(Held(writes), G)
            BY <2>6, SendingFacts DEF Apart, Disjoint
        <3> QED BY <1>1, <1>4, <2>5, <3>1, <3>2 DEF Apart
    <2>11. InLine'
        <3>1. /\ Below(Held(sendq), Waiting \cup {f})
              /\ Below(Held(writes), Waiting \cup {f} \cup Held(sendq))
            BY <1>2, SendingFacts DEF InLine, Below
        <3> QED BY <1>4, <2>5, <3>1, PlacesAre
    <2> QED BY <2>8, <2>9, <2>10, <2>11 DEF Sending
<1>7. CASE ~(f.done < Parts)
    <2>1. strand' = Append(strand, v)
        BY <1>1, <1>7, AfterWriteProps, SendingFacts
    <2> HIDE DEF v, G, s
    <2>2. Waiting' = Waiting /\ DistinctIn(strand') /\ RisingIn(strand')
        <3>1. v.op # "push"
            BY <1>2 DEF Carrier
        <3> QED BY <1>2, <1>3, <2>1, <3>1, SendingFacts, WaitingAppend
    <2>3. G \subseteq finished /\ finished = G \cup {f}
        BY DEF G
    <2>4. OnTheWay = OnTheWay' \cup {f}
        BY <1>1, <1>4, <2>2, <2>3 DEF OnTheWay
    <2>5. Numbered' /\ Counted'
        BY <1>1, <1>4, <2>4, SendingFacts DEF Numbered, Counted, PartsOf
    <2>6. open' => NoneLost'
        <3>1. Begun(f.msg)
            <4>1. PartsOf(f.msg) = 1 .. f.done
                BY <2>4, SendingFacts DEF Counted
            <4>2. f.done \in PartsOf(f.msg)
                BY <1>2, <4>1, Constants
            <4> QED BY <4>2 DEF PartsOf, Begun
        <3>2. ASSUME open, NEW m \in 1 .. Pushed
              PROVE  Begun(m)' \/ \E b \in OnTheWay' : b.msg = m
            <4>1. Begun(m) \/ \E b \in OnTheWay : b.msg = m
                BY <3>2, SendingFacts DEF NoneLost
            <4>2. Begun(m)' <=> Begun(m)
                BY <1>1 DEF Begun
            <4> QED BY <2>4, <3>1, <4>1, <4>2
        <3> QED BY <1>1, <1>4, <3>2 DEF NoneLost
    <2>7. Once'
        BY <1>1, <1>4, <2>2, <2>3, SendingFacts, PlacesAre
    <2>8. Apart'
        BY <1>1, <1>4, <2>2, <2>3, SendingFacts DEF Apart, Disjoint
    <2>9. InLine'
        BY <1>4, <2>2, SendingFacts, PlacesAre
    <2> QED BY <1>1, <2>5, <2>6, <2>7, <2>8, <2>9, SendingFacts, WireKept DEF Sending
<1> QED BY <1>6, <1>7

\* The strand behind On_Read: a push with the next number, or nothing new.
LEMMA AnswerBehind ==
    ASSUME IInv, NEW b, NEW s, NEW ping \in BOOLEAN, NEW at, OnRead(b, s, ping),
           Answered(b, s, ping, at) \in Seq(Functions), UNCHANGED pushes
    PROVE  LET q == Answered(b, s, ping, at)
           IN  /\ DistinctIn(q) /\ RisingIn(q)
               /\ \/ WaitingIn(q) = Waiting /\ UNCHANGED pings
                  \/ /\ WaitingIn(q) = Waiting \cup {[msg |-> Pushed + 1, done |-> 0]}
                     /\ Pushed' = Pushed + 1
<1> DEFINE f == [op |-> "push", msg |-> pings + pushes + 1, from |-> b[0],
                 size |-> s, at |-> at]
<1>1. CASE ~ping
    <2>1. Answered(b, s, ping, at) = strand /\ UNCHANGED pings
        BY <1>1 DEF Answered, OnRead
    <2> QED BY <2>1, SendingFacts, PlacesAre
<1>2. CASE ping
    <2>1. Answered(b, s, ping, at) = Append(strand, f) /\ f.op = "push"
          /\ f.msg = Pushed + 1
        BY <1>2 DEF Answered, Pushed
    <2>2. Pushed' = Pushed + 1
        BY <1>2, SendingFacts DEF OnRead, Pushed
    <2> HIDE DEF f
    <2>3. f \in Functions
        <3>1. /\ Len(Append(strand, f)) = Len(strand) + 1
              /\ Append(strand, f)[Len(strand) + 1] = f /\ Len(strand) \in Nat
            BY SendingFacts
        <3>2. Len(strand) + 1 \in 1 .. Len(Append(strand, f))
            BY <3>1
        <3> QED BY <2>1, <3>1, <3>2, ElementOf
    <2> QED BY <2>1, <2>2, <2>3, PushBehind
<1> QED BY <1>1, <1>2

\* A read behind the others carries no message.
LEMMA ReadBehind ==
    ASSUME NEW q \in Seq(Functions), NextRead(q), DistinctIn(q), RisingIn(q)
    PROVE  WaitingIn(strand') = WaitingIn(q) /\ DistinctIn(strand') /\ RisingIn(strand')
<1> DEFINE r == [op |-> "read"]
<1>1. r \in Functions /\ ~Carrier(r) /\ r.op # "push" /\ strand' = Append(q, r)
    BY ReadsAndWrites DEF NextRead, Carrier
<1> HIDE DEF r
<1> QED BY <1>1, WaitingAppend

LEMMA SendingStep ==
    ASSUME IInv, [Next]_vars
    PROVE  Sending'
<1>1. /\ strand \in Seq(Functions) /\ DistinctIn(strand) /\ RisingIn(strand)
      /\ Waiting = WaitingIn(strand)
    BY SendingFacts, PlacesAre
<1>2. ASSUME UNCHANGED <<strand, sendVars, open, pings, pushes>> PROVE Sending'
    BY <1>1, <1>2, SendingKept
<1>3. ASSUME NEW s \in Sizes, ClientSend(s) PROVE Sending'
    BY <1>2, <1>3 DEF ClientSend, sendVars
<1>4. CASE ClientClose
    <2>1. UNCHANGED <<strand, sendVars, pings, pushes>> /\ open /\ open' = FALSE
        BY <1>4 DEF ClientClose, sendVars
    <2>2. Waiting' = Waiting /\ OnTheWay' = OnTheWay
        BY <2>1 DEF sendVars, Waiting, OnTheWay, Held, Carriers, Ops
    <2>3. Once' /\ Apart' /\ InLine'
        BY <2>1, <2>2, SendingFacts, PlacesAre
           DEF sendVars, Distinct, Apart, Disjoint, Held, Rising, Below
    <2>4. Numbered' /\ Counted' /\ WireInOrder'
        BY <2>1, <2>2, SendingFacts, WireKept
           DEF sendVars, Numbered, Counted, Pushed, PartsOf
    <2> QED BY <2>1, <2>3, <2>4 DEF Sending
<1>5. CASE OverMove \/ ReadEnds \/ UNCHANGED vars
    BY <1>2, <1>5 DEF OverMove, ReadEnds, vars, sendVars
<1>6. ASSUME strand # <<>>
      PROVE  /\ DistinctIn(Tail(strand)) /\ RisingIn(Tail(strand))
             /\ Tail(strand) \in Seq(Functions)
             /\ ~Carrier(Head(strand)) => WaitingIn(Tail(strand)) = WaitingIn(strand)
    <2>1. /\ DistinctIn(Tail(strand)) /\ RisingIn(Tail(strand))
          /\ Tail(strand) \in Seq(Functions)
        BY <1>1, <1>6, WaitingTail
    <2>2. WaitingIn(strand) = WaitingIn(Tail(strand)) \cup
                              (IF Carrier(Head(strand)) THEN {Load(Head(strand))} ELSE {})
        BY <1>1, <1>6, WaitingTail
    <2> QED BY <2>1, <2>2
<1>7. CASE RunRead
    <2>1. strand # <<>> /\ ~Carrier(Head(strand)) /\ strand' = Tail(strand)
          /\ UNCHANGED <<sendVars, open, pings, pushes>>
        BY <1>7 DEF RunRead, Turn, Carrier
    <2> QED BY <1>6, <2>1, SendingKept
<1>8. CASE RunPush
    <2> DEFINE v == [op |-> "write"]
               p == Head(strand)
    <2>1. /\ strand # <<>> /\ p.op = "push" /\ strand' = Append(Tail(strand), v)
          /\ sendq' = Append(sendq, [msg |-> p.msg, done |-> 0])
          /\ UNCHANGED <<writes, finished, sent, open, pings, pushes>>
        BY <1>8 DEF RunPush, Turn
    <2>2. Carrier(p) /\ Load(p) = [msg |-> p.msg, done |-> 0]
        BY <2>1 DEF Carrier, Load
    <2>3. v \in Functions /\ ~Carrier(v) /\ v.op # "push"
        BY ReadsAndWrites DEF Carrier
    <2> HIDE DEF v
    <2>4. /\ WaitingIn(strand') = WaitingIn(Tail(strand))
          /\ DistinctIn(strand') /\ RisingIn(strand')
        BY <1>6, <2>1, <2>3, WaitingAppend
    <2> QED BY <2>1, <2>2, <2>4, SendingQueued
<1>9. CASE RunRequeue
    <2> DEFINE p == Head(strand)
    <2>1. /\ strand # <<>> /\ p.op = "requeue" /\ strand' = Tail(strand)
          /\ sendq' = Append(sendq, [msg |-> p.msg, done |-> p.done])
          /\ UNCHANGED <<writes, finished, sent, open, pings, pushes>>
        BY <1>9 DEF RunRequeue, Turn
    <2>2. Carrier(p) /\ Load(p) = [msg |-> p.msg, done |-> p.done]
        BY <2>1 DEF Carrier, Load
    <2> QED BY <1>6, <2>1, <2>2, SendingQueued
<1>10. CASE RunWrite
    <2>1. /\ strand # <<>> /\ ~Carrier(Head(strand)) /\ strand' = Tail(strand)
          /\ UNCHANGED <<finished, sent, open, pings, pushes>>
        BY <1>10 DEF RunWrite, Turn, Carrier
    <2>2. WaitingIn(strand') = WaitingIn(strand) /\ DistinctIn(strand') /\ RisingIn(strand')
        BY <1>6, <2>1
    <2>3. CASE sendq = <<>>
        <3>1. UNCHANGED <<sendVars, open, pings, pushes>>
            BY <1>10, <2>1, <2>3 DEF RunWrite, sendVars
        <3> QED BY <2>2, <3>1, SendingKept
    <2>4. CASE sendq # <<>>
        <3>1. writes' = Append(writes, Head(sendq)) /\ sendq' = Tail(sendq)
            BY <1>10, <2>4 DEF RunWrite
        <3> QED BY <2>1, <2>2, <2>4, <3>1, SendingWrite
    <2> QED BY <2>3, <2>4
<1>11. ASSUME NEW k \in 1 .. Room, Receive(k) PROVE Sending'
    <2>1. UNCHANGED <<open, sendVars, pushes>>
        BY <1>11 DEF Receive
    <2>2. CASE NextRead(strand) /\ UNCHANGED pings
        <3>1. WaitingIn(strand') = WaitingIn(strand) /\ DistinctIn(strand') /\ RisingIn(strand')
            BY <1>1, <2>2, ReadBehind
        <3> QED BY <2>1, <2>2, <3>1, SendingKept
    <2>3. ASSUME NEW ping \in BOOLEAN, OnRead(Filled(k), com + k, ping),
                 NextRead(Answered(Filled(k), com + k, ping, "complete"))
          PROVE  Sending'
        <3> DEFINE q == Answered(Filled(k), com + k, ping, "complete")
        <3>1. q \in Seq(Functions)
            <4>1. /\ com + k \in 0 .. Room /\ Filled(k) \in [Cells -> 0 .. Room]
                  /\ 0 \in Cells
                BY <1>11, ReceiveFacts, Constants DEF Cells
            <4> QED BY <2>3, <4>1, AnsweredType, SendingFacts
        <3>2. /\ DistinctIn(q) /\ RisingIn(q)
              /\ \/ WaitingIn(q) = Waiting /\ UNCHANGED pings
                 \/ /\ WaitingIn(q) = Waiting \cup {[msg |-> Pushed + 1, done |-> 0]}
                    /\ Pushed' = Pushed + 1
            BY <2>1, <2>3, <3>1, AnswerBehind
        <3> HIDE DEF q
        <3>3. NextRead(q)
            BY <2>3 DEF q
        <3>4. WaitingIn(strand') = WaitingIn(q) /\ DistinctIn(strand') /\ RisingIn(strand')
            BY <3>1, <3>2, <3>3, ReadBehind
        <3> QED BY <1>1, <2>1, <3>2, <3>4, SendingKept, SendingPushed
    <2>4. CASE UNCHANGED <<delivered, pings, strand>>
        BY <1>2, <2>1, <2>4
    <2> QED BY <1>11, <2>2, <2>3, <2>4 DEF Receive
<1>12. CASE OverRead
    <2>1. UNCHANGED <<open, sendVars, pushes>>
        BY <1>12 DEF OverRead
    <2>2. ASSUME NEW ping \in BOOLEAN, OnRead(buf, SizeIn(buf), ping),
                 strand' = Answered(buf, SizeIn(buf), ping, "over")
          PROVE  Sending'
        <3>1. strand' \in Seq(Functions)
            BY <1>12, OverReadType DEF TypeOK
        <3>2. /\ DistinctIn(strand') /\ RisingIn(strand')
              /\ \/ WaitingIn(strand') = Waiting /\ UNCHANGED pings
                 \/ /\ WaitingIn(strand') = Waiting \cup {[msg |-> Pushed + 1, done |-> 0]}
                    /\ Pushed' = Pushed + 1
            BY <2>1, <2>2, <3>1, AnswerBehind
        <3> QED BY <1>1, <2>1, <3>2, SendingKept, SendingPushed
    <2> QED BY <1>2, <1>12, <2>1, <2>2 DEF OverRead
<1>13. CASE OverEnd
    <2>1. NextRead(strand) /\ UNCHANGED <<sendVars, open, pings, pushes>>
        BY <1>13 DEF OverEnd
    <2>2. WaitingIn(strand') = WaitingIn(strand) /\ DistinctIn(strand') /\ RisingIn(strand')
        BY <1>1, <2>1, ReadBehind
    <2> QED BY <2>1, <2>2, SendingKept
<1>14. CASE PushSend
    <2> DEFINE f == [op |-> "push", msg |-> pings + pushes + 1, from |-> 0, size |-> 0,
                     at |-> "complete"]
    <2>1. pings + pushes + 1 \in Messages
        <3>1. pings \in 0 .. MaxPings /\ pushes \in 0 .. MaxPushes
            BY SendingFacts DEF TypeOK
        <3> QED BY <1>14, <3>1, Constants DEF PushSend, Messages
    <2>2. f \in Functions /\ f.op = "push" /\ f.msg = Pushed + 1
        BY <2>1, Constants DEF Functions, Pushed
    <2>3. strand' = Append(strand, f) /\ Pushed' = Pushed + 1 /\ UNCHANGED <<sendVars, open>>
        BY <1>14, SendingFacts DEF PushSend, Pushed
    <2> HIDE DEF f
    <2>4. /\ WaitingIn(strand') = Waiting \cup {[msg |-> Pushed + 1, done |-> 0]}
          /\ DistinctIn(strand') /\ RisingIn(strand')
        BY <2>2, <2>3, PushBehind
    <2> QED BY <2>3, <2>4, SendingPushed
<1> QED BY <1>3, <1>4, <1>5, <1>7, <1>8, <1>9, <1>10, <1>11, <1>12, <1>13, <1>14,
           SendingTakes, SendingFails, SendingDone
        DEF Next

-----------------------------------------------------------------------------
(* The theorems.                                                            *)

LEMMA InitInvariant == Init => IInv
<1> SUFFICES ASSUME Init PROVE IInv
    OBVIOUS
<1> USE DEF Init
<1>1. /\ Len(ends) = 0 /\ Len(delivered) = 0 /\ Len(sendq) = 0 /\ Len(writes) = 0
      /\ Len(sent) = 0 /\ Len(strand) = 1 /\ strand[1].op = "read"
    OBVIOUS
<1>2. TypeOK
    <2>1. ends \in Seq(0 .. Room) /\ delivered \in Seq(Seq(0 .. Room))
          /\ sendq \in Seq(Buffers) /\ writes \in Seq(Buffers)
          /\ sent \in Seq([msg : Messages, part : 1 .. Parts])
        OBVIOUS
    <2>2. strand \in Seq(Functions)
        BY ReadsAndWrites
    <2>3. taken \in 0 .. End(Len(ends)) /\ Len(ends) <= MaxPackets
        BY <1>1, SessionAssumption DEF End, SessionAssumption
    <2> QED BY <2>1, <2>2, <2>3, Constants DEF TypeOK
<1>3. Packets = {} /\ End(0) = 0 /\ First = 1
    BY <1>1 DEF Packets, End, First
<1>4. Stream
    BY <1>1, <1>3 DEF Stream
<1>5. Aligned /\ Reading /\ WholePackets /\ SpinsOnSplitSize
    BY <1>1, <1>3 DEF Aligned, Reading, WholePackets, SpinsOnSplitSize
<1>6. \A op : Ops(op) = IF op = "read" THEN {1} ELSE {}
    BY <1>1 DEF Ops
<1>7. Posting
    <2>1. OneRead
        BY <1>6 DEF OneRead
    <2>2. EchoReady /\ EchoOfOnePacket
        BY <1>6 DEF EchoReady, EchoOfOnePacket
    <2> QED BY <2>1, <2>2 DEF Posting
<1>8. Queueing
    <2>1. Ops("requeue") = {} /\ Ops("write") = {}
        BY <1>6
    <2>2. Cardinality({}) = 0
        BY FS_EmptySet
    <2>3. Len(sendq) + Cardinality(Ops("requeue")) <= Cardinality(Ops("write"))
        <3>1. Cardinality(Ops("requeue")) = 0 /\ Cardinality(Ops("write")) = 0
            BY <2>1, <2>2, Zenon
        <3> HIDE DEF Init
        <3> QED BY <1>1, <3>1
    <2> QED BY <2>1, <2>3 DEF Queueing, Paired, EveryBufferHasWrite
<1>9. OnTheWay = {} /\ Carriers = {} /\ Held(sendq) = {} /\ Held(writes) = {} /\ Waiting = {}
    BY <1>1, <1>6 DEF OnTheWay, Carriers, Held, Waiting
<1>10. Once /\ Apart
    BY <1>1, <1>9 DEF Once, Apart, Disjoint
<1>11. Numbered /\ Counted /\ (open => NoneLost)
    BY <1>1, <1>9 DEF Numbered, Counted, NoneLost, Pushed
<1>12. InLine
    BY <1>1, <1>6, <1>9 DEF InLine, Rising, Below
<1>13. WireInOrder
    BY <1>1 DEF WireInOrder, PartsInOrder, BegunInOrder
<1> QED BY <1>2, <1>4, <1>5, <1>7, <1>8, <1>10, <1>11, <1>12, <1>13
        DEF IInv, Receiving, Sending

\* One invariant of everything the session does with its client: receiving,
\* posting, queueing and sending keep it together.
THEOREM SessionInvariance == Spec => []IInv
<1>1. Init => IInv
    BY InitInvariant
<1>2. IInv /\ [Next]_vars => IInv'
    BY TypeStep, ReceivingStep, PostingStep, QueueingStep, SendingStep DEF IInv
<1> QED BY <1>1, <1>2, PTL DEF Spec

\* The cursors, buffers and queues of a session have the values they may have.
THEOREM SessionTypeCorrect == Spec => []TypeOK
<1>1. IInv => TypeOK
    BY DEF IInv
<1> QED BY <1>1, SessionInvariance, PTL

\* On_Read is called for the client's packets whole, in order and once each,
\* however recv returns the bytes.
THEOREM PacketsAreWhole == Spec => []WholePackets
<1>1. IInv => WholePackets
    BY DEF IInv, Receiving
<1> QED BY <1>1, SessionInvariance, PTL

\* A session that waits for bytes has given all complete packets but one to
\* On_Read, and the loop of OVER spins only on a size that was cut in two.
THEOREM OverLoopEnds == Spec => []LoopEnds
<1>1. IInv => LoopEnds
    <2> SUFFICES ASSUME IInv, reader \in {"posted", "reading"}
                 PROVE  Cardinality(Complete) <= Len(delivered) + 1
        BY DEF LoopEnds, OneWaits, IInv, Receiving
    <2>1. TypeOK /\ Stream /\ Aligned /\ Reading
        BY DEF IInv, Receiving
    <2>2. First = Len(delivered) + 1 /\ First \in 1 .. Len(ends) + 1 /\ Len(ends) \in Nat
          /\ Len(delivered) \in Nat
        BY <2>1, EndTypes DEF First, Aligned, TypeOK
    <2>3. Complete \subseteq 1 .. First
        <3> SUFFICES ASSUME NEW n \in Packets, End(n) <= taken, n > First
                     PROVE  FALSE
            BY <2>2 DEF Complete, Packets
        <3>1. First \in Packets /\ n \in 0 .. Len(ends) /\ First \in 0 .. Len(ends)
            BY <2>2 DEF Packets
        <3>2. End(First) + Header <= End(n)
            BY <2>1, <2>2, <3>1 DEF Stream
        <3>3. taken <= End(First)
            BY <2>1, <3>1 DEF Reading
        <3>4. End(First) \in Nat /\ End(n) \in Nat /\ taken \in Nat
            BY <2>1, <3>1, EndTypes
        <3> HIDE DEF End, First
        <3> QED BY <3>2, <3>3, <3>4, Constants
    <2>4. IsFiniteSet(1 .. First) /\ Cardinality(1 .. First) = First
        <3> HIDE DEF First
        <3> QED BY <2>2, FS_Interval
    <2>5. Cardinality(Complete) <= Cardinality(1 .. First)
        BY <2>3, <2>4, FS_Subset
    <2> QED BY <2>2, <2>4, <2>5
<1> QED BY <1>1, SessionInvariance, PTL

\* No buffer stays in send_buffers without a do_write behind it.
THEOREM BuffersHaveWrites == Spec => []EveryBufferHasWrite
<1>1. IInv => EveryBufferHasWrite
    BY DEF IInv, Queueing
<1> QED BY <1>1, SessionInvariance, PTL

\* Buffers begin on the wire in the order of the PushSend calls, the parts of
\* each in order and once.
THEOREM WireIsInOrder == Spec => []WireInOrder
<1>1. IInv => WireInOrder
    BY DEF IInv, Sending
<1> QED BY <1>1, SessionInvariance, PTL

\* The answer to a PING_TEST that came alone holds the payload On_Read saw.
THEOREM EchoIsThePacket == Spec => []EchoOfOnePacket
<1>1. IInv => EchoOfOnePacket
    BY DEF IInv, Posting
<1> QED BY <1>1, SessionInvariance, PTL

\* As long as the client is there, a message given to PushSend is on its way or
\* has begun on the wire: partial writes and requeues lose none.
THEOREM PushedIsSent == Spec => [](open => NoneLost)
<1>1. IInv => (open => NoneLost)
    BY DEF IInv, Sending
<1> QED BY <1>1, SessionInvariance, PTL

===============================================================================
