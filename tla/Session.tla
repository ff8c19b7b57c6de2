------------------------------ MODULE Session -------------------------------
(***************************************************************************)
(* The stream of one client as a Session sees it.  Functions posted to the *)
(* session's strand run one after the other; handlers of completed reads   *)
(* and writes run on any IO thread beside them.                            *)
(*                                                                         *)
(* Receiving: one read at a time fills recv_buffer behind com_recvSize     *)
(* bytes; the handler calls On_Read for the packets that are complete and  *)
(* posts the next read.  A byte in the buffer is known by its position in  *)
(* the client's stream; its value matters for the two bytes of a size.     *)
(*                                                                         *)
(* Sending: PushSend posts a function that queues the buffer and posts a   *)
(* do_write; every do_write starts one write, and a buffer that the socket *)
(* took in part is queued again behind the others.                         *)
(*                                                                         *)
(* A PING_TEST packet is answered by PushSend with a pointer to its        *)
(* payload in recv_buffer.                                                 *)
(***************************************************************************)
EXTENDS Integers, Sequences, FiniteSets

CONSTANTS
    Sizes,      \* sizes a packet of the client may have, header included
    Base,       \* values a byte may have
    Payload,    \* the value of a byte that is not part of a size
    Header,     \* bytes before the payload
    Room,       \* bytes of recv_buffer, and bound: bytes the client sends
    MaxPackets, \* bound: packets the client sends
    MaxPings,   \* bound: packets of the client that are PING_TEST
    MaxPushes,  \* bound: calls of PushSend by others than On_Read
    Parts       \* parts in which the socket may take a buffer

ASSUME SessionAssumption ==
    /\ Base \in Nat \ {0, 1}
    /\ Payload \in 0 .. Base - 1
    /\ Header \in Nat /\ Header >= 2
    /\ MaxPackets \in Nat
    /\ MaxPings \in Nat
    /\ MaxPushes \in Nat
    /\ Parts \in Nat \ {0}
    /\ Room \in Nat
    /\ \A s \in Sizes : s \in Nat /\ s >= Header /\ s < Base * Base

Cells == 0 .. Room - 1
Messages == 1 .. MaxPings + MaxPushes

VARIABLES
    open,       \* the client has not closed the connection
    ends,       \* where in its stream the packets of the client end
    taken,      \* bytes of its stream that reads have returned
    buf,        \* recv_buffer: a stream position per cell, 0 if never written
    com,        \* com_recvSize
    reader,     \* "posted", "reading", "over", "move", "spinning", "ended"
    delivered,  \* history: the bytes of each call of On_Read
    strand,     \* the functions posted to strand_
    pings,      \* calls of PushSend by On_Read, for PING_TEST
    pushes,     \* ... by others; together they number the messages
    sendq,      \* send_buffers
    writes,     \* writes the socket has not begun with
    finished,   \* completed writes whose handler has not run
    sent,       \* history: the parts on the wire
    echoes      \* history: what the answers to PING_TEST were made of

readVars == <<ends, taken, buf, com, reader, delivered>>
sendVars == <<sendq, writes, finished, sent>>
vars == <<open, readVars, strand, pings, pushes, sendVars, echoes>>

-----------------------------------------------------------------------------
(* The client's stream. *)

\* The last position of packet n, and its size.
End(n) == IF n = 0 THEN 0 ELSE ends[n]
Size(n) == End(n) - End(n - 1)

Packets == 1 .. Len(ends)

\* The packets whose k-th byte is at position p.
PacketsAt(p, k) == {n \in Packets : p = End(n - 1) + k}

\* The value of the byte at position p.
Value(p) ==
    IF PacketsAt(p, 1) # {} THEN Size(CHOOSE n \in PacketsAt(p, 1) : TRUE) % Base
    ELSE IF PacketsAt(p, 2) # {}
    THEN Size(CHOOSE n \in PacketsAt(p, 2) : TRUE) \div Base
    ELSE Payload

\* recv_buffer.packet.size of a buffer b, little endian.
SizeIn(b) == Value(b[0]) + Base * Value(b[1])

ClientSend(s) ==
    /\ open
    /\ Len(ends) < MaxPackets
    /\ End(Len(ends)) + s <= Room
    /\ ends' = Append(ends, End(Len(ends)) + s)
    /\ UNCHANGED <<open, taken, buf, com, reader, delivered, strand, pings,
                   pushes, sendVars, echoes>>

ClientClose ==
    /\ open
    /\ open' = FALSE
    /\ UNCHANGED <<readVars, strand, pings, pushes, sendVars, echoes>>

-----------------------------------------------------------------------------
(* The strand. *)

\* Functions run in the order they were posted.
Turn(op) == strand # <<>> /\ Head(strand).op = op

Ops(op) == {i \in 1 .. Len(strand) : strand[i].op = op}

\* The posted function of do_read starts the next read.
RunRead ==
    /\ Turn("read")
    /\ strand' = Tail(strand)
    /\ reader' = "reading"
    /\ UNCHANGED <<open, ends, taken, buf, com, delivered, pings, pushes,
                   sendVars, echoes>>

\* The posted function of PushSend: it makes the SendBuffer, and for an answer
\* to PING_TEST copies what recv_buffer holds now.
RunPush ==
    /\ Turn("push")
    /\ LET p == Head(strand)
       IN  /\ sendq' = Append(sendq, [msg |-> p.msg, done |-> 0])
           /\ echoes' = IF p.size = 0 THEN echoes
                        ELSE echoes \cup {[at |-> p.at,
                              good |-> \A k \in Header .. p.size - 1 :
                                           buf[k] = p.from + k]}
    /\ strand' = Append(Tail(strand), [op |-> "write"])
    /\ UNCHANGED <<open, readVars, pings, pushes, writes, finished, sent>>

\* The rest of a buffer that was written in part goes to the end of the queue.
RunRequeue ==
    /\ Turn("requeue")
    /\ sendq' = Append(sendq, [msg |-> Head(strand).msg,
                               done |-> Head(strand).done])
    /\ strand' = Tail(strand)
    /\ UNCHANGED <<open, readVars, pings, pushes, writes, finished, sent,
                   echoes>>

\* The posted function of do_write starts a write of the front buffer.
RunWrite ==
    /\ Turn("write")
    /\ strand' = Tail(strand)
    /\ IF sendq = <<>>
       THEN UNCHANGED <<sendq, writes>>
       ELSE /\ writes' = Append(writes, Head(sendq))
            /\ sendq' = Tail(sendq)
    /\ UNCHANGED <<open, readVars, pings, pushes, finished, sent, echoes>>

-----------------------------------------------------------------------------
(* Receiving. *)

\* do_read posts the start of the next read; a mutant starts it at once.
NextRead_AtOnce(q) == strand' = q /\ reader' = "reading"
NextRead(q) == strand' = Append(q, [op |-> "read"]) /\ reader' = "posted"

Bytes(b, s) == [k \in 1 .. s |-> b[k - 1]]

\* On_Read is called for the packet of size s at the front of b, and if it is
\* a PING_TEST calls PushSend.
OnRead(b, s, ping) ==
    /\ delivered' = Append(delivered, Bytes(b, s))
    /\ ping => pings < MaxPings
    /\ pings' = IF ping THEN pings + 1 ELSE pings

\* The strand afterwards.
Answered(b, s, ping, at) ==
    IF ping
    THEN Append(strand, [op |-> "push", msg |-> pings + pushes + 1,
                         from |-> b[0], size |-> s, at |-> at])
    ELSE strand

\* RecvResult: fewer bytes than a size has.
Short(c) == c < 2

\* recv_buffer when a read has returned k bytes.
Filled(k) == [i \in Cells |-> IF i \in com .. com + k - 1
                              THEN taken + 1 + (i - com) ELSE buf[i]]

\* The handler of a read that returned k bytes, up to the loop of OVER.
Receive(k) ==
    /\ reader = "reading"
    /\ k <= End(Len(ends)) - taken
    /\ LET c == com + k
           b == Filled(k)
       IN  /\ buf' = b
           /\ \/ /\ Short(c) \/ SizeIn(b) > c
                 /\ com' = c
                 /\ NextRead(strand)
                 /\ UNCHANGED <<delivered, pings>>
              \/ /\ ~Short(c) /\ SizeIn(b) = c
                 /\ com' = 0
                 /\ \E ping \in BOOLEAN :
                       /\ OnRead(b, c, ping)
                       /\ NextRead(Answered(b, c, ping, "complete"))
              \/ /\ ~Short(c) /\ SizeIn(b) < c
                 /\ com' = c
                 /\ reader' = "over"
                 /\ UNCHANGED <<delivered, pings, strand>>
    /\ taken' = taken + k
    /\ UNCHANGED <<open, ends, pushes, sendVars, echoes>>

\* The condition of the loop.
LoopGoesOn == com > SizeIn(buf)

\* The body of the loop up to memmove.  A size of 0 changes nothing, and the
\* loop calls On_Read for ever.
OverRead ==
    /\ reader = "over"
    /\ LoopGoesOn
    /\ IF SizeIn(buf) = 0
       THEN /\ reader' = "spinning"
            /\ UNCHANGED <<delivered, strand, pings>>
       ELSE /\ reader' = "move"
            /\ \E ping \in BOOLEAN :
                  /\ OnRead(buf, SizeIn(buf), ping)
                  /\ strand' = Answered(buf, SizeIn(buf), ping, "over")
    /\ UNCHANGED <<open, ends, taken, buf, com, pushes, sendVars, echoes>>

\* memmove, and a move that is off by one or leaves the loop too early.
Moved_OneMore(s) == [i \in Cells |-> IF i < com - s /\ i + s + 1 \in Cells
                                     THEN buf[i + s + 1] ELSE buf[i]]
Moved(s) == [i \in Cells |-> IF i < com - s THEN buf[i + s] ELSE buf[i]]

OverMove_Once ==
    /\ reader = "move"
    /\ buf' = Moved(SizeIn(buf))
    /\ com' = com - SizeIn(buf)
    /\ NextRead(strand)
    /\ UNCHANGED <<open, ends, taken, delivered, pings, pushes, sendVars,
                   echoes>>

OverMove ==
    /\ reader = "move"
    /\ buf' = Moved(SizeIn(buf))
    /\ com' = com - SizeIn(buf)
    /\ reader' = "over"
    /\ UNCHANGED <<open, ends, taken, delivered, strand, pings, pushes,
                   sendVars, echoes>>

OverEnd ==
    /\ reader = "over"
    /\ ~LoopGoesOn
    /\ NextRead(strand)
    /\ UNCHANGED <<open, ends, taken, buf, com, delivered, pings, pushes,
                   sendVars, echoes>>

\* A read of length 0, with or without bytes of the client left unread: the
\* session is removed (Membership!CloseSession).
ReadEnds ==
    /\ reader = "reading"
    /\ ~open
    /\ reader' = "ended"
    /\ UNCHANGED <<open, ends, taken, buf, com, delivered, strand, pings,
                   pushes, sendVars, echoes>>

-----------------------------------------------------------------------------
(* Sending. *)

\* PushSend by the game thread or by another session's handler.
PushSend ==
    /\ pushes < MaxPushes
    /\ pushes' = pushes + 1
    /\ strand' = Append(strand, [op |-> "push", msg |-> pings + pushes + 1,
                                 from |-> 0, size |-> 0, at |-> "complete"])
    /\ UNCHANGED <<open, readVars, pings, sendVars, echoes>>

\* The socket takes a part of the first buffer, or all of what is left of it.
SocketTakes(k) ==
    /\ writes # <<>>
    /\ open
    /\ LET w == Head(writes)
       IN  /\ k <= Parts - w.done
           /\ sent' = sent \o [j \in 1 .. k |-> [msg |-> w.msg,
                                                 part |-> w.done + j]]
           /\ finished' = finished \cup {[w EXCEPT !.done = @ + k]}
    /\ writes' = Tail(writes)
    /\ UNCHANGED <<open, readVars, strand, pings, pushes, sendq, echoes>>

\* Length 0: the handler returns and nobody writes the rest.
WriteFails ==
    /\ writes # <<>>
    /\ ~open
    /\ writes' = Tail(writes)
    /\ UNCHANGED <<open, readVars, strand, pings, pushes, sendq, finished,
                   sent, echoes>>

\* SendResult LOW: the rest is queued again; a mutant begins from the start.
Again_FromStart(f) == [op |-> "requeue", msg |-> f.msg, done |-> 0]
Again(f) == [op |-> "requeue", msg |-> f.msg, done |-> f.done]

\* The functions that the handler of a completed write posts: LOW, COMPLETE.
AfterWrite_NoRetry(f) ==
    IF f.done < Parts THEN <<Again(f)>> ELSE <<[op |-> "write"]>>
AfterWrite(f) ==
    IF f.done < Parts THEN <<Again(f), [op |-> "write"]>>
    ELSE <<[op |-> "write"]>>

WriteDone(f) ==
    /\ finished' = finished \ {f}
    /\ strand' = strand \o AfterWrite(f)
    /\ UNCHANGED <<open, readVars, pings, pushes, sendq, writes, sent, echoes>>

-----------------------------------------------------------------------------
Init ==
    /\ open = TRUE
    /\ ends = <<>>
    /\ taken = 0
    /\ buf = [i \in Cells |-> 0]
    /\ com = 0
    /\ reader = "posted"
    /\ delivered = <<>>
    /\ strand = <<[op |-> "read"]>>
    /\ pings = 0
    /\ pushes = 0
    /\ sendq = <<>>
    /\ writes = <<>>
    /\ finished = {}
    /\ sent = <<>>
    /\ echoes = {}

Next ==
    \/ \E s \in Sizes : ClientSend(s)
    \/ ClientClose
    \/ RunRead \/ RunPush \/ RunRequeue \/ RunWrite
    \/ \E k \in 1 .. Room : Receive(k)
    \/ OverRead \/ OverMove \/ OverEnd \/ ReadEnds
    \/ PushSend
    \/ \E k \in 1 .. Parts : SocketTakes(k)
    \/ WriteFails
    \/ \E f \in finished : WriteDone(f)

Spec == Init /\ [][Next]_vars

-----------------------------------------------------------------------------
Buffers == [msg : Messages, done : 0 .. Parts]
Functions == [op : {"read", "write"}]
    \cup [op : {"requeue"}, msg : Messages, done : 1 .. Parts]
    \cup [op : {"push"}, msg : Messages, from : 0 .. Room, size : 0 .. Room,
          at : {"complete", "over"}]

TypeOK ==
    /\ open \in BOOLEAN
    /\ ends \in Seq(0 .. Room) /\ Len(ends) <= MaxPackets
    /\ taken \in 0 .. End(Len(ends))
    /\ buf \in [Cells -> 0 .. Room]
    /\ com \in 0 .. Room
    /\ reader \in {"posted", "reading", "over", "move", "spinning", "ended"}
    /\ delivered \in Seq(Seq(0 .. Room))
    /\ strand \in Seq(Functions)
    /\ pings \in 0 .. MaxPings
    /\ pushes \in 0 .. MaxPushes
    /\ sendq \in Seq(Buffers)
    /\ writes \in Seq(Buffers)
    /\ finished \in SUBSET {b \in Buffers : b.done > 0}
    /\ sent \in Seq([msg : Messages, part : 1 .. Parts])
    /\ echoes \in SUBSET [at : {"complete", "over"}, good : BOOLEAN]

\* However the stream is cut into reads, the calls of On_Read are for the
\* client's packets, whole, in order and once each.
WholePackets ==
    \A n \in 1 .. Len(delivered) :
        /\ n \in Packets
        /\ delivered[n] = [k \in 1 .. Size(n) |-> End(n - 1) + k]

Complete == {n \in Packets : End(n) <= taken}

\* While the session waits for bytes, at most one packet that is complete has
\* not been given to On_Read: the last of several that came in one read.
OneWaits == reader \in {"posted", "reading"} =>
                Cardinality(Complete) <= Len(delivered) + 1

\* The loop over several packets spins only if the low byte of a size is 0 and
\* its high byte has not come yet.
SpinsOnSplitSize ==
    reader = "spinning" =>
        \E n \in Packets : Size(n) % Base = 0 /\ taken = End(n - 1) + 1

\* The loop over several packets ends waiting with all but one of the complete
\* packets given to On_Read, or spins, and that only on a size that was cut in two.
LoopEnds == OneWaits /\ SpinsOnSplitSize

\* A buffer in send_buffers has a do_write on the strand: none waits for the
\* next PushSend.
EveryBufferHasWrite ==
    Len(sendq) + Cardinality(Ops("requeue")) <= Cardinality(Ops("write"))

\* The parts of a message are in order and there once each: those before a
\* part are the ones with smaller numbers.
Before(i) == {j \in 1 .. i - 1 : sent[j].msg = sent[i].msg}
PartsInOrder ==
    \A i \in 1 .. Len(sent) :
        {sent[j].part : j \in Before(i)} = 1 .. sent[i].part - 1

\* Messages begin in the order of the PushSend calls.
BegunInOrder ==
    \A i \in 1 .. Len(sent) : \A m \in 1 .. sent[i].msg - 1 :
        \E j \in 1 .. i : sent[j].msg = m

\* Messages begin on the wire in the order of the PushSend calls, and the parts
\* of one reach it in order and once each, also when the socket takes it in
\* several writes between those of other messages.
WireInOrder == PartsInOrder /\ BegunInOrder

\* The answer to a PING_TEST that came alone carries the payload that On_Read
\* saw, although it is copied later: the next read starts behind the copy.
EchoOfOnePacket == \A e \in echoes : e.at = "complete" => e.good
=============================================================================
