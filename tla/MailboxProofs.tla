--------------------------- MODULE MailboxProofs ----------------------------
(***************************************************************************)
(* Proofs about Mailbox, for any threads, lists and calls: NothingLost and *)
(* the implementation of MailboxAbs.  Both follow from IInv.               *)
(***************************************************************************)
EXTENDS Mailbox, TLAPS

InTask(r) == stage[r] \in {"holding", "pushed"}
InDrain == drain.at \in {"assign", "clear", "unlock"}

\* At most one thread is between lock and unlock, and mt is locked meanwhile.
Mutex ==
    /\ \A r \in Requests : InTask(r) => mt /\ ~InDrain
    /\ \A q, r \in Requests : InTask(q) /\ InTask(r) => q = r
    /\ InDrain => mt

\* Requests of a thread are numbered in the order of its calls, and the one
\* it waits for is its last.
Numbered ==
    /\ \A r \in Requests : stage[r] # "none" => r.n <= calls[r.by]
    /\ \A r \in Requests : stage[r] \in {"begun", "holding", "pushed"}
                               => r.n = calls[r.by]
    /\ \A q, r \in Requests :
          stage[q] # "none" /\ stage[r] # "none" /\ q.by = r.by /\ q.n = r.n
              => q = r

\* What the copying has left in the lists: those before drain.kind are empty,
\* and the copies from drain.kind on are.
Copying ==
    /\ drain.at = "out" => \A k \in Kinds : batch[k] = <<>>
    /\ drain.at = "assign" =>
          \A k \in Kinds : /\ k < drain.kind => queue[k] = <<>>
                           /\ k >= drain.kind => batch[k] = <<>>
    /\ drain.at = "clear" =>
          \A k \in Kinds : /\ k < drain.kind => queue[k] = <<>>
                           /\ k > drain.kind => batch[k] = <<>>
                           /\ k = drain.kind => batch[k] = queue[k]
    /\ drain.at = "unlock" => \A k \in Kinds : queue[k] = <<>>

\* A list holds requests of its own kind, those of one thread in the order of
\* the calls.
Sorted(s) == \A i, j \in 1 .. Len(s) :
                 i < j /\ s[i].by = s[j].by => s[i].n < s[j].n
OfKind(s, k) == \A i \in 1 .. Len(s) : s[i].kind = k

InOrder ==
    /\ \A k \in Kinds : Sorted(queue[k]) /\ OfKind(queue[k], k)
    /\ \A k \in Kinds : Sorted(batch[k]) /\ OfKind(batch[k], k)

\* While PrevTick works, what is queued was pushed after what it has taken.
Younger ==
    drain.at = "run" =>
        \A q, r \in Requests :
            q \in Taken /\ r \in Queued /\ q.by = r.by => q.n < r.n

\* What is executed has left the lists.
Once == \A r \in Requests : r \in Queued \cup Taken => r \notin executed

IInv == /\ TypeOK /\ Mutex /\ Numbered /\ Copying
        /\ NothingLost /\ InOrder /\ Younger /\ Once

-----------------------------------------------------------------------------
(* Lists. *)

LEMMA RangeOfSeq ==
    ASSUME NEW S, NEW s \in Seq(S)
    PROVE  \A e : e \in Range(s) <=> \E i \in 1 .. Len(s) : s[i] = e
BY DEF Range

LEMMA RangeAppend ==
    ASSUME NEW S, NEW s \in Seq(S), NEW e \in S
    PROVE  Range(Append(s, e)) = Range(s) \cup {e}
<1>1. Append(s, e) \in Seq(S) /\ Len(Append(s, e)) = Len(s) + 1
  OBVIOUS
<1>2. \A i \in 1 .. Len(s) : Append(s, e)[i] = s[i]
  OBVIOUS
<1>3. Append(s, e)[Len(s) + 1] = e
  OBVIOUS
<1>4. \A x : x \in Range(s) <=> \E i \in 1 .. Len(s) : s[i] = x
  BY RangeOfSeq
<1>5. \A x : x \in Range(Append(s, e))
                <=> \E i \in 1 .. Len(s) + 1 : Append(s, e)[i] = x
  BY <1>1, RangeOfSeq
<1>6. \A x : x \in Range(Append(s, e)) => x \in Range(s) \cup {e}
  <2> TAKE x
  <2> HAVE x \in Range(Append(s, e))
  <2>1. PICK i \in 1 .. Len(s) + 1 : Append(s, e)[i] = x
    BY <1>5
  <2>2. CASE i = Len(s) + 1
    BY <2>1, <2>2, <1>3
  <2>3. CASE i # Len(s) + 1
    <3>1. i \in 1 .. Len(s)
      BY <2>3
    <3> QED
      BY <3>1, <2>1, <1>2, <1>4
  <2> QED
    BY <2>2, <2>3
<1>7. \A x \in Range(s) : x \in Range(Append(s, e))
  BY <1>2, <1>4, <1>5
<1>8. e \in Range(Append(s, e))
  BY <1>3, <1>5
<1> QED
  BY <1>6, <1>7, <1>8

LEMMA RangeTail ==
    ASSUME NEW S, NEW s \in Seq(S), s # <<>>
    PROVE  Range(s) = {Head(s)} \cup Range(Tail(s))
<1>1. Tail(s) \in Seq(S) /\ Len(Tail(s)) = Len(s) - 1 /\ Len(s) \in Nat \ {0}
  OBVIOUS
<1>2. \A i \in 1 .. Len(Tail(s)) : Tail(s)[i] = s[i + 1]
  OBVIOUS
<1>3. Head(s) = s[1]
  OBVIOUS
<1>4. \A i \in 1 .. Len(s) : i = 1 \/ (i - 1 \in 1 .. Len(Tail(s))
                                       /\ s[i] = Tail(s)[i - 1])
  BY <1>1, <1>2
<1>5. \A x : x \in Range(s) <=> \E i \in 1 .. Len(s) : s[i] = x
  BY RangeOfSeq
<1>6. \A x : x \in Range(Tail(s))
                <=> \E i \in 1 .. Len(Tail(s)) : Tail(s)[i] = x
  BY <1>1, RangeOfSeq
<1>7. \A x \in Range(s) : x = Head(s) \/ x \in Range(Tail(s))
  BY <1>3, <1>4, <1>5, <1>6
<1>8. Head(s) \in Range(s)
  BY <1>1, <1>3, <1>5
<1>9. \A x \in Range(Tail(s)) : x \in Range(s)
  <2> TAKE x \in Range(Tail(s))
  <2>1. PICK i \in 1 .. Len(Tail(s)) : Tail(s)[i] = x
    BY <1>6
  <2>2. i + 1 \in 1 .. Len(s) /\ s[i + 1] = x
    BY <2>1, <1>1, <1>2
  <2> QED
    BY <2>2, <1>5
<1> QED
  BY <1>7, <1>8, <1>9

LEMMA RangeEmpty == Range(<<>>) = {}
BY DEF Range

\* A request younger than all of its thread may be appended.
LEMMA SortedAppend ==
    ASSUME NEW k \in Kinds, NEW s \in Seq(Requests), NEW r \in Requests,
           r.kind = k, Sorted(s), OfKind(s, k),
           \A q \in Requests : q \in Range(s) /\ q.by = r.by => q.n < r.n
    PROVE  Sorted(Append(s, r)) /\ OfKind(Append(s, r), k)
<1>1. Len(Append(s, r)) = Len(s) + 1 /\ Len(s) \in Nat
  OBVIOUS
<1>2. \A i \in 1 .. Len(s) : Append(s, r)[i] = s[i] /\ s[i] \in Requests
  OBVIOUS
<1>3. Append(s, r)[Len(s) + 1] = r
  OBVIOUS
<1>4. \A i \in 1 .. Len(s) : s[i].by = r.by => s[i].n < r.n
  BY <1>2, RangeOfSeq
<1> QED
  BY <1>1, <1>2, <1>3, <1>4 DEF Sorted, OfKind

LEMMA SortedTail ==
    ASSUME NEW k \in Kinds, NEW s \in Seq(Requests), s # <<>>,
           Sorted(s), OfKind(s, k)
    PROVE  /\ Sorted(Tail(s)) /\ OfKind(Tail(s), k)
           /\ \A q \in Requests :
                 q \in Range(Tail(s)) /\ q.by = Head(s).by => Head(s).n < q.n
<1>1. Tail(s) \in Seq(Requests) /\ Len(Tail(s)) = Len(s) - 1
      /\ Len(s) \in Nat \ {0}
  OBVIOUS
<1>2. \A i \in 1 .. Len(Tail(s)) : Tail(s)[i] = s[i + 1] /\ i + 1 \in 1 .. Len(s)
  BY <1>1
<1>3. Head(s) = s[1]
  OBVIOUS
<1>4. Sorted(Tail(s)) /\ OfKind(Tail(s), k)
  BY <1>1, <1>2 DEF Sorted, OfKind
<1>5. \A i \in 1 .. Len(Tail(s)) : Tail(s)[i].by = s[1].by => s[1].n < Tail(s)[i].n
  BY <1>1, <1>2 DEF Sorted
<1>6. \A q : q \in Range(Tail(s))
                <=> \E i \in 1 .. Len(Tail(s)) : Tail(s)[i] = q
  BY <1>1, RangeOfSeq
<1>7. \A q \in Range(Tail(s)) : q.by = s[1].by => s[1].n < q.n
  BY <1>5, <1>6
<1> QED
  BY <1>3, <1>4, <1>7

LEMMA SortedEmpty == \A k : Sorted(<<>>) /\ OfKind(<<>>, k)
BY DEF Sorted, OfKind

-----------------------------------------------------------------------------
(* Type correctness. *)

LEMMA KindsFact == 1 \in Kinds /\ Lists \in Kinds
BY MailboxAssumption DEF Kinds

LEMMA CallRequest ==
    ASSUME TypeOK, NEW t \in Threads, NEW k \in Kinds, calls[t] < MaxCalls
    PROVE  [by |-> t, n |-> calls[t] + 1, kind |-> k] \in Requests
BY MailboxAssumption DEF TypeOK, Requests

LEMMA TypeStep == TypeOK /\ [Next]_vars => TypeOK'
<1> SUFFICES ASSUME TypeOK, [Next]_vars
             PROVE  TypeOK'
  OBVIOUS
<1> USE MailboxAssumption, KindsFact
<1>1. ASSUME NEW t \in Threads, NEW k \in Kinds, Call(t, k)
      PROVE  TypeOK'
  <2>1. calls' \in [Threads -> 0 .. MaxCalls]
    BY <1>1 DEF Call, TypeOK
  <2>2. stage' \in [Requests -> {"none", "begun", "holding", "pushed", "ended"}]
    BY <1>1, CallRequest DEF Call, TypeOK
  <2> QED
    BY <1>1, <2>1, <2>2 DEF Call, TypeOK
<1>2. ASSUME NEW r \in Requests, Acquire(r)
      PROVE  TypeOK'
  BY <1>2 DEF Acquire, TypeOK
<1>3. ASSUME NEW r \in Requests, PushBack(r)
      PROVE  TypeOK'
  <2>1. r.kind \in Kinds
    BY DEF Requests
  <2>2. queue[r.kind] \in Seq(Requests)
    BY <2>1 DEF TypeOK
  <2>3. Append(queue[r.kind], r) \in Seq(Requests)
    BY <2>2
  <2>4. queue' \in [Kinds -> Seq(Requests)]
    BY <1>3, <2>3 DEF PushBack, TypeOK
  <2>5. stage' \in [Requests -> {"none", "begun", "holding", "pushed", "ended"}]
    BY <1>3 DEF PushBack, TypeOK
  <2> QED
    BY <1>3, <2>4, <2>5 DEF PushBack, TypeOK
<1>4. ASSUME NEW r \in Requests, Release(r)
      PROVE  TypeOK'
  BY <1>4 DEF Release, TypeOK
<1>5. CASE Lock
  BY <1>5 DEF Lock, TypeOK
<1>6. CASE Assign
  BY <1>6 DEF Assign, TypeOK
<1>7. CASE Clear
  <2>1. queue' \in [Kinds -> Seq(Requests)]
    BY <1>7 DEF Clear, TypeOK
  <2>2. drain' \in [at : {"out", "assign", "clear", "unlock", "run"},
                    kind : Kinds]
    BY <1>7 DEF Clear, TypeOK, Kinds
  <2> QED
    BY <1>7, <2>1, <2>2 DEF Clear, TypeOK
<1>8. CASE Unlock
  BY <1>8 DEF Unlock, TypeOK
<1>9. ASSUME NEW k \in Kinds, Run(k)
      PROVE  TypeOK'
  <2>1. batch[k] \in Seq(Requests) /\ batch[k] # <<>>
    BY <1>9 DEF Run, Turn, TypeOK
  <2>2. Head(batch[k]) \in Requests /\ Tail(batch[k]) \in Seq(Requests)
    BY <2>1
  <2>3. batch' \in [Kinds -> Seq(Requests)]
    BY <1>9, <2>2 DEF Run, TypeOK
  <2>4. executed' \in SUBSET Requests
    BY <1>9, <2>2 DEF Run, TypeOK
  <2> QED
    BY <1>9, <2>3, <2>4 DEF Run, TypeOK
<1>10. CASE EndDrain
  BY <1>10 DEF EndDrain, TypeOK
<1>11. CASE UNCHANGED vars
  BY <1>11 DEF TypeOK, vars
<1> QED
  BY <1>1, <1>2, <1>3, <1>4, <1>5, <1>6, <1>7, <1>8, <1>9, <1>10, <1>11
     DEF Next, PrevTick, CallFromFunction, Threads

-----------------------------------------------------------------------------
(* The mutex, the numbers and the copying. *)

LEMMA MutexStep == TypeOK /\ Mutex /\ [Next]_vars => Mutex'
<1> SUFFICES ASSUME TypeOK, Mutex, [Next]_vars
             PROVE  Mutex'
  OBVIOUS
<1>1. ASSUME NEW t \in Threads, NEW k \in Kinds, Call(t, k)
      PROVE  Mutex'
  <2>1. \A r \in Requests : InTask(r)' => InTask(r)
    BY <1>1 DEF Call, InTask, TypeOK
  <2> QED
    BY <1>1, <2>1 DEF Call, Mutex, InDrain
<1>2. ASSUME NEW r \in Requests, Acquire(r)
      PROVE  Mutex'
  <2>1. \A q \in Requests : InTask(q)' <=> q = r
    BY <1>2 DEF Acquire, InTask, Mutex, TypeOK
  <2>2. mt' /\ ~InDrain'
    BY <1>2 DEF Acquire, InDrain, Mutex
  <2> QED
    BY <2>1, <2>2 DEF Mutex
<1>3. ASSUME NEW r \in Requests, PushBack(r)
      PROVE  Mutex'
  <2>1. \A q \in Requests : InTask(q)' <=> InTask(q)
    BY <1>3 DEF PushBack, InTask, TypeOK
  <2> QED
    BY <1>3, <2>1 DEF PushBack, Mutex, InDrain
<1>4. ASSUME NEW r \in Requests, Release(r)
      PROVE  Mutex'
  <2>1. \A q \in Requests : ~InTask(q)'
    BY <1>4 DEF Release, InTask, Mutex, TypeOK
  <2>2. ~InDrain'
    BY <1>4 DEF Release, InTask, InDrain, Mutex
  <2> QED
    BY <2>1, <2>2 DEF Mutex
<1>5. CASE Lock
  <2>1. \A q \in Requests : ~InTask(q)'
    BY <1>5 DEF Lock, InTask, Mutex
  <2> QED
    BY <1>5, <2>1 DEF Lock, Mutex
<1>6. CASE Assign \/ Clear
  <2>1. InDrain /\ UNCHANGED <<stage, mt>>
    BY <1>6 DEF Assign, Clear, InDrain
  <2> QED
    BY <2>1 DEF Mutex, InTask, InDrain
<1>7. CASE Unlock
  <2>1. InDrain /\ ~InDrain' /\ UNCHANGED stage
    BY <1>7 DEF Unlock, InDrain
  <2> QED
    BY <2>1 DEF Mutex, InTask
<1>8. CASE (\E k \in Kinds : Run(k)) \/ EndDrain \/ UNCHANGED vars
  <2>1. UNCHANGED <<stage, mt>> /\ (InDrain' <=> InDrain)
    BY <1>8 DEF Run, EndDrain, vars, InDrain
  <2> QED
    BY <2>1 DEF Mutex, InTask
<1> QED
  BY <1>1, <1>2, <1>3, <1>4, <1>5, <1>6, <1>7, <1>8
     DEF Next, PrevTick, CallFromFunction, Threads

LEMMA NumberedStep == TypeOK /\ Numbered /\ [Next]_vars => Numbered'
<1> SUFFICES ASSUME TypeOK, Numbered, [Next]_vars
             PROVE  Numbered'
  OBVIOUS
<1>1. ASSUME NEW t \in Threads, NEW k \in Kinds, Call(t, k)
      PROVE  Numbered'
  <2> DEFINE new == [by |-> t, n |-> calls[t] + 1, kind |-> k]
  <2>1. new \in Requests /\ calls[t] \in Nat
    BY <1>1, CallRequest DEF Call, TypeOK
  <2>2. new.by = t /\ new.n = calls[t] + 1
    OBVIOUS
  <2>3. stage' = [stage EXCEPT ![new] = "begun"]
    BY <1>1 DEF Call
  <2>4. /\ \A u \in Threads : calls'[u] = IF u = t THEN calls[t] + 1 ELSE calls[u]
        /\ \A u \in Threads : calls[u] \in Nat
    BY <1>1 DEF Call, TypeOK
  <2>5. \A r \in Requests : r.by \in Threads /\ r.n \in Nat
    BY DEF Requests
  <2>6. \A r \in Requests : r # new => stage'[r] = stage[r]
    BY <2>3 DEF TypeOK
  <2>7. \A r \in Requests : r.by = t => stage[r] \notin {"begun", "holding", "pushed"}
    BY <1>1 DEF Call, Waits
  <2> HIDE DEF new
  <2>8. \A r \in Requests : stage'[r] # "none" => r.n <= calls'[r.by]
    BY <2>1, <2>2, <2>4, <2>5, <2>6 DEF Numbered
  <2>9. \A r \in Requests : stage'[r] \in {"begun", "holding", "pushed"}
                                => r.n = calls'[r.by]
    BY <2>2, <2>4, <2>5, <2>6, <2>7 DEF Numbered
  <2>10. \A r \in Requests : stage[r] # "none" /\ r.by = t => r.n # new.n
    BY <2>1, <2>2, <2>4, <2>5 DEF Numbered
  <2>11. \A q, r \in Requests :
            stage'[q] # "none" /\ stage'[r] # "none" /\ q.by = r.by /\ q.n = r.n
                => q = r
    BY <2>2, <2>6, <2>10 DEF Numbered
  <2> QED
    BY <2>8, <2>9, <2>11 DEF Numbered
<1>2. ASSUME NEW r \in Requests, Acquire(r) \/ PushBack(r) \/ Release(r)
      PROVE  Numbered'
  <2>1. UNCHANGED calls
    BY <1>2 DEF Acquire, PushBack, Release
  <2>2. \A q \in Requests :
           /\ stage'[q] # "none" => stage[q] # "none"
           /\ stage'[q] \in {"begun", "holding", "pushed"}
                 => stage[q] \in {"begun", "holding", "pushed"}
    BY <1>2 DEF Acquire, PushBack, Release, TypeOK
  <2> QED
    BY <2>1, <2>2 DEF Numbered
<1>3. CASE PrevTick \/ UNCHANGED vars
  <2>1. UNCHANGED <<calls, stage>>
    BY <1>3 DEF PrevTick, Lock, Assign, Clear, Unlock, Run, EndDrain, vars
  <2> QED
    BY <2>1 DEF Numbered
<1> QED
  BY <1>1, <1>2, <1>3 DEF Next, CallFromFunction, Threads

LEMMA CopyingStep == TypeOK /\ Mutex /\ Copying /\ [Next]_vars => Copying'
<1> SUFFICES ASSUME TypeOK, Mutex, Copying, [Next]_vars
             PROVE  Copying'
  OBVIOUS
<1>1. CASE \/ \E t \in Threads, k \in Kinds : Call(t, k)
           \/ \E r \in Requests : Acquire(r) \/ Release(r)
           \/ UNCHANGED vars
  <2>1. UNCHANGED <<queue, batch, drain>>
    BY <1>1 DEF Call, Acquire, Release, vars
  <2> QED
    BY <2>1 DEF Copying
<1>2. ASSUME NEW r \in Requests, PushBack(r)
      PROVE  Copying'
  <2>1. ~InDrain /\ UNCHANGED <<batch, drain>>
    BY <1>2 DEF PushBack, Mutex, InTask
  <2> QED
    BY <2>1 DEF Copying, InDrain
<1>3. CASE Lock
  BY <1>3 DEF Lock, Copying, Kinds
<1>4. CASE Assign
  <2>1. drain.kind \in Kinds /\ DOMAIN batch = Kinds /\ Kinds \subseteq Nat
    BY DEF TypeOK, Kinds
  <2>2. \A k \in Kinds : k < drain.kind => queue[k] = <<>>
    BY <1>4 DEF Assign, Copying
  <2>3. \A k \in Kinds : k > drain.kind => batch[k] = <<>>
    BY <1>4, <2>1 DEF Assign, Copying
  <2>4. /\ drain'.at = "clear" /\ drain'.kind = drain.kind /\ queue' = queue
        /\ \A k \in Kinds : batch'[k] = IF k = drain.kind THEN queue[k]
                                        ELSE batch[k]
    BY <1>4, <2>1 DEF Assign, TypeOK
  <2>5. \A k \in Kinds : /\ k < drain'.kind => queue'[k] = <<>>
                         /\ k > drain'.kind => batch'[k] = <<>>
                         /\ k = drain'.kind => batch'[k] = queue'[k]
    BY <2>1, <2>2, <2>3, <2>4
  <2> QED
    BY <2>4, <2>5 DEF Copying
<1>5. CASE Clear
  <2>1. drain.kind \in Kinds /\ Lists \in Nat /\ Kinds = 1 .. Lists
    BY MailboxAssumption DEF TypeOK, Kinds
  <2>2. \A k \in Kinds : /\ k < drain.kind => queue[k] = <<>>
                         /\ k > drain.kind => batch[k] = <<>>
    BY <1>5 DEF Clear, Copying
  <2>3. /\ batch' = batch
        /\ \A k \in Kinds : queue'[k] = IF k = drain.kind THEN <<>>
                                        ELSE queue[k]
    BY <1>5, <2>1 DEF Clear, TypeOK
  <2>4. CASE drain.kind < Lists
    <3>1. drain' = [at |-> "assign", kind |-> drain.kind + 1]
      BY <1>5, <2>4 DEF Clear
    <3>2. \A k \in Kinds : /\ k < drain.kind + 1 => queue'[k] = <<>>
                           /\ k >= drain.kind + 1 => batch'[k] = <<>>
      BY <2>1, <2>2, <2>3
    <3> QED
      BY <3>1, <3>2 DEF Copying
  <2>5. CASE ~(drain.kind < Lists)
    <3>1. drain' = [at |-> "unlock", kind |-> Lists]
      BY <1>5, <2>5 DEF Clear
    <3>2. \A k \in Kinds : queue'[k] = <<>>
      BY <2>1, <2>2, <2>3, <2>5
    <3> QED
      BY <3>1, <3>2 DEF Copying
  <2> QED
    BY <2>4, <2>5
<1>6. CASE Unlock
  BY <1>6 DEF Unlock, Copying
<1>7. ASSUME NEW k \in Kinds, Run(k)
      PROVE  Copying'
  BY <1>7 DEF Run, Copying
<1>8. CASE EndDrain
  BY <1>8 DEF EndDrain, Copying
<1> QED
  BY <1>1, <1>2, <1>3, <1>4, <1>5, <1>6, <1>7, <1>8
     DEF Next, PrevTick, CallFromFunction, Threads

-----------------------------------------------------------------------------
(* What is in the lists, before and after a step. *)

LEMMA InLists ==
    /\ \A e : e \in Queued <=> \E k \in Kinds : e \in Range(queue[k])
    /\ \A e : e \in Taken <=> \E k \in Kinds : e \in Range(batch[k])
BY DEF Queued, Taken

LEMMA InListsPrime ==
    /\ \A e : e \in Queued' <=> \E k \in Kinds : e \in Range(queue'[k])
    /\ \A e : e \in Taken' <=> \E k \in Kinds : e \in Range(batch'[k])
BY DEF Queued, Taken

\* An element of a list is a request of the list's kind.
LEMMA ListElements ==
    ASSUME TypeOK, InOrder, NEW k \in Kinds
    PROVE  /\ \A e \in Range(queue[k]) : e \in Requests /\ e.kind = k
           /\ \A e \in Range(batch[k]) : e \in Requests /\ e.kind = k
<1>1. queue[k] \in Seq(Requests) /\ batch[k] \in Seq(Requests)
  BY DEF TypeOK
<1>2. \A e : e \in Range(queue[k]) <=> \E i \in 1 .. Len(queue[k]) : queue[k][i] = e
  BY <1>1, RangeOfSeq
<1>3. \A e : e \in Range(batch[k]) <=> \E i \in 1 .. Len(batch[k]) : batch[k][i] = e
  BY <1>1, RangeOfSeq
<1> QED
  BY <1>1, <1>2, <1>3 DEF InOrder, OfKind

\* PushBack adds its request, the youngest of its thread.
LEMMA PushBackLists ==
    ASSUME IInv, NEW r \in Requests, PushBack(r)
    PROVE  /\ Queued' = Queued \cup {r} /\ Taken' = Taken
           /\ \A q \in Requests : q \in Queued \cup Taken \cup executed
                                    /\ q.by = r.by => q.n < r.n
           /\ r \notin Queued \cup Taken \cup executed
           /\ InOrder'
<1> USE DEF IInv
<1>1. r.kind \in Kinds /\ queue[r.kind] \in Seq(Requests)
  BY DEF Requests, TypeOK
<1>2. /\ queue' = [queue EXCEPT ![r.kind] = Append(queue[r.kind], r)]
      /\ batch' = batch
  BY DEF PushBack
<1>3. /\ queue'[r.kind] = Append(queue[r.kind], r)
      /\ \A k \in Kinds : k # r.kind => queue'[k] = queue[k]
  BY <1>1, <1>2 DEF TypeOK
<1>4. Range(queue'[r.kind]) = Range(queue[r.kind]) \cup {r}
  BY <1>1, <1>3, RangeAppend
<1>5. Queued' = Queued \cup {r}
  BY <1>1, <1>3, <1>4, InLists, InListsPrime
<1>6. Taken' = Taken
  BY <1>2 DEF Taken
<1>7. r \notin Queued \cup Taken \cup executed
  BY DEF PushBack, NothingLost
<1>8. \A q \in Requests : q \in Queued \cup Taken \cup executed /\ q.by = r.by
                             => q.n < r.n
  <2> TAKE q \in Requests
  <2> HAVE q \in Queued \cup Taken \cup executed /\ q.by = r.by
  <2>1. stage[q] # "none" /\ q # r
    BY <1>7 DEF NothingLost
  <2>2. q.n <= r.n /\ q.n # r.n
    BY <2>1 DEF PushBack, Numbered
  <2>3. q.n \in Nat /\ r.n \in Nat
    BY DEF Requests
  <2> QED
    BY <2>2, <2>3
<1>9. \A q \in Requests : q \in Range(queue[r.kind]) /\ q.by = r.by => q.n < r.n
  BY <1>1, <1>8, InLists
<1>10. Sorted(queue'[r.kind]) /\ OfKind(queue'[r.kind], r.kind)
  BY <1>1, <1>3, <1>9, SortedAppend DEF InOrder
<1>11. InOrder'
  BY <1>2, <1>3, <1>10 DEF InOrder
<1> QED
  BY <1>5, <1>6, <1>7, <1>8, <1>11

LEMMA AssignLists ==
    ASSUME IInv, Assign
    PROVE  /\ Queued' = Queued
           /\ Queued' \cup Taken' = Queued \cup Taken
           /\ InOrder'
<1> USE DEF IInv
<1>1. drain.kind \in Kinds
  BY DEF TypeOK
<1>2. /\ queue' = queue
      /\ \A k \in Kinds : batch'[k] = IF k = drain.kind THEN queue[k]
                                      ELSE batch[k]
  BY <1>1 DEF Assign, TypeOK
<1>3. batch[drain.kind] = <<>>
  BY <1>1 DEF Assign, Copying, Kinds
<1>4. Queued' = Queued
  BY <1>2 DEF Queued
<1>5. \A e : e \in Taken' => e \in Queued \cup Taken
  BY <1>2, InLists, InListsPrime
<1>6. \A e : e \in Taken => e \in Taken'
  BY <1>2, <1>3, RangeEmpty, InLists, InListsPrime
<1>7. InOrder'
  BY <1>2 DEF InOrder
<1> QED
  BY <1>4, <1>5, <1>6, <1>7

LEMMA ClearLists ==
    ASSUME IInv, Clear
    PROVE  /\ Queued' \subseteq Queued /\ Taken' = Taken
           /\ Queued' \cup Taken' = Queued \cup Taken
           /\ InOrder'
<1> USE DEF IInv
<1>1. drain.kind \in Kinds
  BY DEF TypeOK
<1>2. /\ batch' = batch
      /\ \A k \in Kinds : queue'[k] = IF k = drain.kind THEN <<>>
                                      ELSE queue[k]
  BY <1>1 DEF Clear, TypeOK
<1>3. batch[drain.kind] = queue[drain.kind]
  BY <1>1 DEF Clear, Copying
<1>4. Taken' = Taken
  BY <1>2 DEF Taken
<1>5. \A e : e \in Queued' => e \in Queued
  BY <1>2, RangeEmpty, InLists, InListsPrime
<1>6. \A e : e \in Queued => e \in Queued' \/ e \in Taken
  BY <1>1, <1>2, <1>3, InLists, InListsPrime
<1>7. InOrder'
  BY <1>2, SortedEmpty DEF InOrder
<1> QED
  BY <1>4, <1>5, <1>6, <1>7

\* Run executes a request that is nowhere else, and of its thread only
\* requests of later lists are older.
LEMMA RunLists ==
    ASSUME IInv, NEW k \in Kinds, Run(k)
    PROVE  LET h == Head(batch[k])
           IN  /\ h \in Requests /\ h \in Taken /\ h \notin executed
               /\ Queued' = Queued /\ Taken' = Taken \ {h}
               /\ h \notin Queued
               /\ \A q \in Queued \cup Taken :
                     q.by = h.by /\ q.n < h.n => q.kind > h.kind
               /\ InOrder'
<1> USE DEF IInv
<1> DEFINE h == Head(batch[k])
<1>1. batch[k] \in Seq(Requests) /\ batch[k] # <<>>
  BY DEF Run, Turn, TypeOK
<1>2. /\ queue' = queue
      /\ batch'[k] = Tail(batch[k])
      /\ \A j \in Kinds : j # k => batch'[j] = batch[j]
  BY DEF Run, TypeOK
<1>3. Range(batch[k]) = {h} \cup Range(Tail(batch[k]))
  BY <1>1, RangeTail
<1>4. h \in Requests /\ h.kind = k /\ h \in Taken
  BY <1>3, ListElements, InLists
<1>5. /\ Sorted(Tail(batch[k])) /\ OfKind(Tail(batch[k]), k)
      /\ \A q \in Requests :
            q \in Range(Tail(batch[k])) /\ q.by = h.by => h.n < q.n
  BY <1>1, SortedTail DEF InOrder
<1>6. \A q \in Requests : q \in Queued /\ q.by = h.by => h.n < q.n
  BY <1>4 DEF Run, Younger
<1>7. \A q \in Requests : q.n \in Nat /\ q.kind \in Nat /\ Kinds \subseteq Nat
  BY DEF Requests, Kinds
<1> HIDE DEF h
<1>8. h \notin Range(Tail(batch[k])) /\ h \notin Queued
  BY <1>4, <1>5, <1>6, <1>7
<1>9. \A j \in Kinds : j # k => h \notin Range(batch[j])
  BY <1>4, ListElements
<1>10. Queued' = Queued
  BY <1>2 DEF Queued
<1>11. \A e : e \in Taken' <=> e \in Taken /\ e # h
  BY <1>2, <1>3, <1>8, <1>9, InLists, InListsPrime
<1>12. \A q \in Queued \cup Taken : q.by = h.by /\ q.n < h.n => q.kind > h.kind
  <2> TAKE q \in Queued \cup Taken
  <2> HAVE q.by = h.by /\ q.n < h.n
  <2>1. q \notin Queued
    BY <1>4, <1>6, <1>7, InLists, ListElements
  <2>2. PICK j \in Kinds : q \in Range(batch[j])
    BY <2>1, InLists
  <2>3. q \in Requests /\ q.kind = j
    BY <2>2, ListElements
  <2>4. j # k
    BY <2>2, <2>3, <1>3, <1>4, <1>5, <1>7
  <2>5. ~(j < k)
    BY <2>2, RangeEmpty DEF Run, Turn
  <2> QED
    BY <2>3, <2>4, <2>5, <1>4, <1>7
<1>13. InOrder'
  BY <1>2, <1>5 DEF InOrder
<1>14. h \notin executed
  BY <1>4 DEF Once
<1> QED
  BY <1>4, <1>8, <1>10, <1>11, <1>12, <1>13, <1>14 DEF h

-----------------------------------------------------------------------------
(* The invariant. *)

LEMMA InitIInv == Init => IInv
<1> SUFFICES ASSUME Init
             PROVE  IInv
  OBVIOUS
<1>1. TypeOK
  <2>1. <<>> \in Seq(Requests)
    OBVIOUS
  <2>2. queue \in [Kinds -> Seq(Requests)] /\ batch \in [Kinds -> Seq(Requests)]
    BY <2>1 DEF Init
  <2>3. calls \in [Threads -> 0 .. MaxCalls]
    BY MailboxAssumption DEF Init
  <2>4. stage \in [Requests -> {"none", "begun", "holding", "pushed", "ended"}]
    BY DEF Init
  <2> QED
    BY <2>2, <2>3, <2>4, KindsFact DEF Init, TypeOK
<1>2. Mutex /\ Numbered /\ Copying
  BY DEF Init, Mutex, InTask, InDrain, Numbered, Copying
<1>3. Queued = {} /\ Taken = {}
  <2>1. \A k \in Kinds : queue[k] = <<>> /\ batch[k] = <<>>
    BY DEF Init
  <2> QED
    BY <2>1, RangeEmpty, InLists
<1>4. NothingLost /\ Younger /\ Once
  BY <1>3 DEF Init, NothingLost, Younger, Once
<1>5. InOrder
  BY SortedEmpty DEF Init, InOrder
<1> QED
  BY <1>1, <1>2, <1>3, <1>4, <1>5 DEF IInv

\* Steps that touch no list and no history.
LEMMA QuietStep ==
    ASSUME IInv, UNCHANGED <<queue, batch, executed>>,
           \A r \in Requests : stage'[r] \in {"pushed", "ended"}
                                   <=> stage[r] \in {"pushed", "ended"}
    PROVE  /\ NothingLost' /\ InOrder' /\ Once'
           /\ UNCHANGED <<Queued, Taken>>
<1>1. UNCHANGED <<Queued, Taken>>
  BY DEF Queued, Taken
<1>2. NothingLost' /\ Once'
  BY <1>1 DEF IInv, NothingLost, Once
<1>3. InOrder'
  BY DEF IInv, InOrder
<1> QED
  BY <1>1, <1>2, <1>3

LEMMA ListsStep ==
    IInv /\ [Next]_vars => NothingLost' /\ InOrder' /\ Younger' /\ Once'
<1> SUFFICES ASSUME IInv, [Next]_vars
             PROVE  NothingLost' /\ InOrder' /\ Younger' /\ Once'
  OBVIOUS
<1>1. CASE \/ \E t \in Threads, k \in Kinds : Call(t, k)
           \/ \E r \in Requests : Acquire(r) \/ Release(r)
           \/ UNCHANGED vars
  <2>1. UNCHANGED <<queue, batch, executed, drain>>
    BY <1>1 DEF Call, Acquire, Release, vars
  <2>2. \A r \in Requests : stage'[r] \in {"pushed", "ended"}
                                <=> stage[r] \in {"pushed", "ended"}
    <3>1. CASE \E t \in Threads, k \in Kinds : Call(t, k)
      <4>1. PICK t \in Threads, k \in Kinds : Call(t, k)
        BY <3>1
      <4> DEFINE new == [by |-> t, n |-> calls[t] + 1, kind |-> k]
      <4>2. new \in Requests /\ new.by = t /\ new.n = calls[t] + 1
        BY <4>1, CallRequest DEF Call, IInv
      <4>3. stage[new] = "none"
        <5>1. calls[t] \in Nat
          BY DEF IInv, TypeOK
        <5> HIDE DEF new
        <5> QED
          BY <4>2, <5>1 DEF IInv, Numbered
      <4>4. stage' = [stage EXCEPT ![new] = "begun"]
        BY <4>1 DEF Call
      <4> HIDE DEF new
      <4> QED
        BY <4>2, <4>3, <4>4 DEF IInv, TypeOK
    <3>2. CASE \E r \in Requests : Acquire(r) \/ Release(r)
      BY <3>2 DEF Acquire, Release, IInv, TypeOK
    <3>3. CASE UNCHANGED vars
      BY <3>3 DEF vars
    <3> QED
      BY <1>1, <3>1, <3>2, <3>3
  <2> QED
    BY <2>1, <2>2, QuietStep DEF IInv, Younger
<1>2. ASSUME NEW r \in Requests, PushBack(r)
      PROVE  NothingLost' /\ InOrder' /\ Younger' /\ Once'
  <2>1. /\ Queued' = Queued \cup {r} /\ Taken' = Taken
        /\ \A q \in Requests : q \in Queued \cup Taken \cup executed
                                 /\ q.by = r.by => q.n < r.n
        /\ r \notin Queued \cup Taken \cup executed
        /\ InOrder'
    BY <1>2, PushBackLists
  <2>2. /\ \A q \in Requests : q # r => stage'[q] = stage[q]
        /\ stage'[r] = "pushed"
        /\ UNCHANGED <<drain, executed>>
    BY <1>2 DEF PushBack, IInv, TypeOK
  <2>3. NothingLost'
    BY <2>1, <2>2 DEF IInv, NothingLost
  <2>4. Younger' /\ Once'
    BY <2>1, <2>2 DEF IInv, Younger, Once
  <2> QED
    BY <2>1, <2>3, <2>4
<1>3. CASE Lock \/ EndDrain
  <2>1. UNCHANGED <<queue, batch, executed, stage>> /\ drain'.at # "run"
    BY <1>3 DEF Lock, EndDrain
  <2>2. \A r \in Requests : stage'[r] \in {"pushed", "ended"}
                                <=> stage[r] \in {"pushed", "ended"}
    BY <2>1
  <2>3. NothingLost' /\ InOrder' /\ Once'
    BY <2>1, <2>2, QuietStep
  <2>4. Younger'
    BY <2>1 DEF Younger
  <2> QED
    BY <2>3, <2>4
<1>4. CASE Assign \/ Clear
  <2>1. Queued' \cup Taken' = Queued \cup Taken /\ InOrder'
    BY <1>4, AssignLists, ClearLists
  <2>2. UNCHANGED <<stage, executed>> /\ drain'.at # "run"
    BY <1>4 DEF Assign, Clear, IInv, TypeOK
  <2> QED
    BY <2>1, <2>2 DEF IInv, NothingLost, Younger, Once
<1>5. CASE Unlock
  <2>1. UNCHANGED <<queue, batch, executed, stage>>
    BY <1>5 DEF Unlock
  <2>2. \A k \in Kinds : queue'[k] = <<>>
    BY <1>5 DEF Unlock, IInv, Copying
  <2>3. \A e : e \notin Queued'
    BY <2>2, RangeEmpty, InListsPrime
  <2> QED
    BY <2>1, <2>3, QuietStep DEF Younger
<1>6. ASSUME NEW k \in Kinds, Run(k)
      PROVE  NothingLost' /\ InOrder' /\ Younger' /\ Once'
  <2> DEFINE h == Head(batch[k])
  <2>1. /\ h \in Requests /\ h \in Taken /\ h \notin executed
        /\ Queued' = Queued /\ Taken' = Taken \ {h}
        /\ h \notin Queued
        /\ InOrder'
    BY <1>6, RunLists
  <2>2. UNCHANGED <<stage, drain>> /\ executed' = executed \cup {h}
    BY <1>6 DEF Run
  <2> HIDE DEF h
  <2> QED
    BY <2>1, <2>2 DEF IInv, NothingLost, Younger, Once
<1> QED
  BY <1>1, <1>2, <1>3, <1>4, <1>5, <1>6
     DEF Next, PrevTick, CallFromFunction, Threads

\* IInv holds in every reachable state, for any threads, lists and calls.
THEOREM MailboxInvariance == Spec => []IInv
<1>1. IInv /\ [Next]_vars => IInv'
  BY TypeStep, MutexStep, NumberedStep, CopyingStep, ListsStep DEF IInv
<1> QED
  BY InitIInv, <1>1, PTL DEF Spec

\* Mailbox's variables keep their types.
THEOREM MailboxTypeCorrect == Spec => []TypeOK
<1>1. IInv => TypeOK
  BY DEF IInv
<1> QED
  BY MailboxInvariance, <1>1, PTL

\* No request whose thread has pushed it is lost to the copy and the clear of
\* PrevTick, and nothing else is executed.
THEOREM NoRequestLost == Spec => []NothingLost
<1>1. IInv => NothingLost
  BY DEF IInv
<1> QED
  BY MailboxInvariance, <1>1, PTL

-----------------------------------------------------------------------------
(* Mailbox implements MailboxAbs. *)

LEMMA AbsRequests == Abs!Requests = Requests
BY DEF Abs!Requests, Abs!Threads, Requests, Threads, Kinds

LEMMA AbsInit == Init => Abs!Init
<1> SUFFICES ASSUME Init
             PROVE  Queued = {} /\ Taken = {} /\ executed = {}
  BY DEF Abs!Init
<1>1. \A k \in Kinds : queue[k] = <<>> /\ batch[k] = <<>>
  BY DEF Init
<1> QED
  BY <1>1, RangeEmpty, InLists DEF Init

\* PushBack submits, Run executes, and every other step stutters.
LEMMA AbsStep == IInv /\ IInv' /\ [Next]_vars => [Abs!Next]_(Abs!vars)
<1> SUFFICES ASSUME IInv, IInv', [Next]_vars
             PROVE  Abs!Next \/ UNCHANGED Abs!vars
  OBVIOUS
<1> DEFINE lists == Queued \cup Taken
<1>1. lists \ executed = lists /\ lists' \ executed' = lists'
  <2>1. \A e \in lists : e \in Requests
    BY InLists, ListElements DEF IInv
  <2>2. \A e \in lists' : e \in Requests
    <3>1. \A k \in Kinds : /\ queue'[k] \in Seq(Requests)
                           /\ batch'[k] \in Seq(Requests)
      BY DEF IInv, TypeOK
    <3>2. \A k \in Kinds : \A e : /\ e \in Range(queue'[k]) => e \in Requests
                                  /\ e \in Range(batch'[k]) => e \in Requests
      BY <3>1, RangeOfSeq
    <3> QED
      BY <3>2, InListsPrime
  <2> QED
    BY <2>1, <2>2 DEF IInv, Once
<1>2. ASSUME lists' = lists, executed' = executed
      PROVE  UNCHANGED Abs!vars
  BY <1>2 DEF Abs!vars
<1>3. CASE \/ \E t \in Threads, k \in Kinds : Call(t, k)
           \/ \E r \in Requests : Acquire(r) \/ Release(r)
           \/ Lock \/ Unlock \/ EndDrain
           \/ UNCHANGED vars
  <2>1. UNCHANGED <<queue, batch, executed>>
    BY <1>3 DEF Call, Acquire, Release, Lock, Unlock, EndDrain, vars
  <2> QED
    BY <2>1, <1>2 DEF Queued, Taken
<1>4. CASE Assign \/ Clear
  <2>1. lists' = lists
    BY <1>4, AssignLists, ClearLists
  <2>2. executed' = executed
    BY <1>4 DEF Assign, Clear
  <2> QED
    BY <2>1, <2>2, <1>2
<1>5. ASSUME NEW r \in Requests, PushBack(r)
      PROVE  Abs!Next
  <2>1. /\ lists' = lists \cup {r}
        /\ \A q \in Requests : q \in lists \cup executed /\ q.by = r.by => q.n < r.n
    BY <1>5, PushBackLists
  <2>2. \A q \in lists \cup executed : q \in Requests
    <3>1. \A q \in lists : q \in Requests
      BY InLists, ListElements DEF IInv
    <3>2. \A q \in executed : q \in Requests
      BY DEF IInv, TypeOK
    <3> QED
      BY <3>1, <3>2
  <2>3. executed' = executed
    BY <1>5 DEF PushBack
  <2>4. Abs!Submit(r)
    <3> HIDE DEF lists
    <3>1. Abs!Submit(r) <=>
            /\ \A q \in (lists \ executed) \cup executed :
                  q.by = r.by => (q.by = r.by /\ q.n < r.n)
            /\ (lists' \ executed') = (lists \ executed) \cup {r}
            /\ executed' = executed
      BY DEF Abs!Submit, Abs!Before, lists
    <3> QED
      BY <1>1, <2>1, <2>2, <2>3, <3>1
  <2> QED
    BY <2>4, AbsRequests DEF Abs!Next
<1>6. ASSUME NEW k \in Kinds, Run(k)
      PROVE  Abs!Next
  <2> DEFINE h == Head(batch[k])
  <2>1. /\ h \in Requests /\ h \in lists /\ lists' = lists \ {h}
        /\ \A q \in lists : q.by = h.by /\ q.n < h.n => q.kind > h.kind
    BY <1>6, RunLists
  <2>2. executed' = executed \cup {h}
    BY <1>6 DEF Run
  <2>3. Abs!Execute(h)
    <3> HIDE DEF lists, h
    <3>1. Abs!Execute(h) <=>
            /\ h \in lists \ executed
            /\ \A q \in lists \ executed :
                  (q.by = h.by /\ q.n < h.n) => q.kind > h.kind
            /\ (lists' \ executed') = (lists \ executed) \ {h}
            /\ executed' = executed \cup {h}
      BY DEF Abs!Execute, Abs!Before, lists
    <3> QED
      BY <1>1, <2>1, <2>2, <3>1
  <2> QED
    BY <2>1, <2>3, AbsRequests DEF Abs!Next
<1> QED
  BY <1>3, <1>4, <1>5, <1>6 DEF Next, PrevTick, CallFromFunction, Threads

\* The mailbox with its locks and copies keeps the promise of MailboxAbs.
THEOREM Implementation == Spec => ImplementsAbs
<1> QED
  BY AbsInit, AbsStep, MailboxInvariance, PTL DEF Spec, Abs!Spec, ImplementsAbs
=============================================================================
