------------------------------ MODULE Mailbox -------------------------------
(***************************************************************************)
(* The mailbox of a manager that the game thread owns (CharacterManager,   *)
(* Channel and, with functions only, MonsterManager).  Async_X starts a    *)
(* thread that appends the request to a list under the mutex mt, and drops *)
(* the future, whose destructor makes the caller wait for that thread.     *)
(* PrevTick copies and clears the lists under mt and then, without it,     *)
(* works through the copies, list after list; a function among them may    *)
(* call Async_X of the same manager.                                       *)
(*                                                                         *)
(* Lists are numbered in the order PrevTick works through them, the list   *)
(* of functions being the last: erase, insert, send_all, func in a         *)
(* CharacterManager.                                                       *)
(***************************************************************************)
EXTENDS Naturals, Sequences, Functions

CONSTANTS
    Callers,    \* IO threads
    Game,       \* the game thread
    Lists,      \* lists of requests in the manager
    MaxCalls    \* bound: calls of Async_X by each thread

ASSUME MailboxAssumption ==
    /\ Game \notin Callers
    /\ Lists \in Nat \ {0}
    /\ MaxCalls \in Nat

Threads == Callers \cup {Game}
Kinds == 1 .. Lists
Requests == [by : Threads, n : 1 .. MaxCalls, kind : Kinds]

VARIABLES
    calls,      \* calls of Async_X each thread has made
    stage,      \* how far the thread of a request is: "none", "begun",
                \* "holding" mt, "pushed" but still holding, "ended"
    mt,         \* the mutex is locked
    queue,      \* the req_ lists
    batch,      \* the copy_ lists
    drain,      \* where PrevTick is
    executed    \* history: requests worked through

vars == <<calls, stage, mt, queue, batch, drain, executed>>

-----------------------------------------------------------------------------
(* Async_X. *)

\* The destructor of the dropped future: t waits for the thread it started.
Waits(t) == \E r \in Requests :
                r.by = t /\ stage[r] \in {"begun", "holding", "pushed"}

Call(t, k) ==
    /\ ~Waits(t)
    /\ calls[t] < MaxCalls
    /\ calls' = [calls EXCEPT ![t] = @ + 1]
    /\ stage' = [stage EXCEPT ![[by |-> t, n |-> calls[t] + 1, kind |-> k]]
                                  = "begun"]
    /\ UNCHANGED <<mt, queue, batch, drain, executed>>

\* The lock_guard of the started thread, and a mutant without it.
Acquire_NoLock(r) ==
    /\ stage[r] = "begun"
    /\ stage' = [stage EXCEPT ![r] = "holding"]
    /\ mt' = TRUE
    /\ UNCHANGED <<calls, queue, batch, drain, executed>>

Acquire(r) ==
    /\ stage[r] = "begun"
    /\ ~mt
    /\ stage' = [stage EXCEPT ![r] = "holding"]
    /\ mt' = TRUE
    /\ UNCHANGED <<calls, queue, batch, drain, executed>>

PushBack(r) ==
    /\ stage[r] = "holding"
    /\ stage' = [stage EXCEPT ![r] = "pushed"]
    /\ queue' = [queue EXCEPT ![r.kind] = Append(@, r)]
    /\ UNCHANGED <<calls, mt, batch, drain, executed>>

Release(r) ==
    /\ stage[r] = "pushed"
    /\ stage' = [stage EXCEPT ![r] = "ended"]
    /\ mt' = FALSE
    /\ UNCHANGED <<calls, queue, batch, drain, executed>>

-----------------------------------------------------------------------------
(* PrevTick on the game thread. *)

Lock ==
    /\ drain.at = "out"
    /\ ~mt
    /\ mt' = TRUE
    /\ drain' = [at |-> "assign", kind |-> 1]
    /\ UNCHANGED <<calls, stage, queue, batch, executed>>

Assign ==
    /\ drain.at = "assign"
    /\ batch' = [batch EXCEPT ![drain.kind] = queue[drain.kind]]
    /\ drain' = [drain EXCEPT !.at = "clear"]
    /\ UNCHANGED <<calls, stage, mt, queue, executed>>

Clear ==
    /\ drain.at = "clear"
    /\ queue' = [queue EXCEPT ![drain.kind] = <<>>]
    /\ drain' = IF drain.kind < Lists
                THEN [at |-> "assign", kind |-> drain.kind + 1]
                ELSE [at |-> "unlock", kind |-> Lists]
    /\ UNCHANGED <<calls, stage, mt, batch, executed>>

Unlock ==
    /\ drain.at = "unlock"
    /\ mt' = FALSE
    /\ drain' = [at |-> "run", kind |-> 1]
    /\ UNCHANGED <<calls, stage, queue, batch, executed>>

\* The loops over the copies.
Turn(k) == batch[k] # <<>> /\ \A j \in Kinds : j < k => batch[j] = <<>>

Run(k) ==
    /\ drain.at = "run"
    /\ ~Waits(Game)
    /\ Turn(k)
    /\ executed' = executed \cup {Head(batch[k])}
    /\ batch' = [batch EXCEPT ![k] = Tail(@)]
    /\ UNCHANGED <<calls, stage, mt, queue, drain>>

\* A function calls Async_X before it is done, as LevelUp and Escape do.
CallFromFunction(k) ==
    /\ drain.at = "run"
    /\ Turn(Lists)
    /\ Call(Game, k)

EndDrain ==
    /\ drain.at = "run"
    /\ ~Waits(Game)
    /\ \A k \in Kinds : batch[k] = <<>>
    /\ drain' = [at |-> "out", kind |-> 1]
    /\ UNCHANGED <<calls, stage, mt, queue, batch, executed>>

\* The lock_guard without its own block: mt stays locked until PrevTick
\* returns, so a function that calls Async_X waits for itself.
UnlockAtEnd ==
    \/ /\ drain.at = "unlock"
       /\ drain' = [at |-> "run", kind |-> 1]
       /\ UNCHANGED <<calls, stage, mt, queue, batch, executed>>
    \/ /\ drain.at = "run"
       /\ ~Waits(Game)
       /\ \A k \in Kinds : batch[k] = <<>>
       /\ mt' = FALSE
       /\ drain' = [at |-> "out", kind |-> 1]
       /\ UNCHANGED <<calls, stage, queue, batch, executed>>

PrevTick_LockedRun ==
    Lock \/ Assign \/ Clear \/ UnlockAtEnd \/ (\E k \in Kinds : Run(k))

PrevTick ==
    Lock \/ Assign \/ Clear \/ Unlock \/ (\E k \in Kinds : Run(k)) \/ EndDrain

-----------------------------------------------------------------------------
Init ==
    /\ calls = [t \in Threads |-> 0]
    /\ stage = [r \in Requests |-> "none"]
    /\ mt = FALSE
    /\ queue = [k \in Kinds |-> <<>>]
    /\ batch = [k \in Kinds |-> <<>>]
    /\ drain = [at |-> "out", kind |-> 1]
    /\ executed = {}

Next ==
    \/ \E t \in Callers, k \in Kinds : Call(t, k)
    \/ \E k \in Kinds : CallFromFunction(k)
    \/ \E r \in Requests : Acquire(r) \/ PushBack(r) \/ Release(r)
    \/ PrevTick

Spec == Init /\ [][Next]_vars

\* The game thread never stops calling PrevTick; a started thread is run, and
\* the mutex is not withheld from one waiter for ever.
Fairness ==
    /\ SF_vars(PrevTick)
    /\ \A r \in Requests : /\ SF_vars(Acquire(r))
                           /\ WF_vars(PushBack(r))
                           /\ WF_vars(Release(r))

FairSpec == Spec /\ Fairness

-----------------------------------------------------------------------------
TypeOK ==
    /\ calls \in [Threads -> 0 .. MaxCalls]
    /\ stage \in [Requests -> {"none", "begun", "holding", "pushed", "ended"}]
    /\ mt \in BOOLEAN
    /\ queue \in [Kinds -> Seq(Requests)]
    /\ batch \in [Kinds -> Seq(Requests)]
    /\ drain \in [at : {"out", "assign", "clear", "unlock", "run"},
                  kind : Kinds]
    /\ executed \in SUBSET Requests

Queued == UNION {Range(queue[k]) : k \in Kinds}
Taken == UNION {Range(batch[k]) : k \in Kinds}

\* A request whose thread has pushed it is queued, taken or executed: no race
\* of push_back with the copy and the clear of PrevTick loses it, and no
\* request is executed that was not made.
NothingLost ==
    \A r \in Requests : stage[r] \in {"pushed", "ended"}
                            <=> r \in Queued \cup Taken \cup executed

\* What the managers rely on: MailboxAbs.  A request counts as submitted from
\* the moment it is in a list.
Abs == INSTANCE MailboxAbs WITH pending <- (Queued \cup Taken) \ executed

\* The mailbox executes every request once, and the requests of one thread in
\* the order of the calls, except that a request for an earlier list may
\* overtake one for a later list.
ImplementsAbs == Abs!Spec

\* A request is executed once its thread has begun, also when it comes from a
\* function that PrevTick is running.
EveryRequestIsExecuted ==
    \A r \in Requests : stage[r] = "begun" ~> r \in executed
=============================================================================
