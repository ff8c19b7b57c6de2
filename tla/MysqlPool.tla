----------------------------- MODULE MysqlPool ------------------------------
(***************************************************************************)
(* The pool of database connections and the calls of MySQLManager that use *)
(* it.  A call of t runs on t itself (Query, Query_Vector) or on a thread  *)
(* that t starts and waits for, because it drops the future (Async_...).   *)
(* Either way the steps below belong to t, one call at a time.  The static *)
(* mutex poollock guards the queue of idle connections and the count.      *)
(*                                                                         *)
(* Connections are the MYSQL objects; 0 is the null pointer.  A connection *)
(* that mysql_close freed may be made again.                               *)
(***************************************************************************)
EXTENDS Integers, Sequences, FiniteSets, Functions

CONSTANTS
    Callers,    \* threads that call MySQLManager
    MaxConnect, \* MAX_CONNECT
    Conns,      \* numbers of MYSQL objects that may exist at a time
    Garbage,    \* what connect_count, never initialised, may begin with
    Kinds,      \* "vector": executeSql_Vector(sql, QVector&),
                \* "one": executeSql(sql, string&), "none": executeSql(sql)
    Refusing,   \* the server may refuse a connection
    Dropping    \* the server may close a connection

ASSUME MysqlPoolAssumption ==
    /\ MaxConnect \in Nat
    /\ Conns \subseteq Nat \ {0}
    /\ IsFiniteSet(Conns)
    /\ Garbage \subseteq Nat
    /\ \A g \in Garbage : Cardinality(Conns) > MaxConnect - g
    /\ Conns # {}
    /\ Kinds \subseteq {"vector", "one", "none"}
    /\ Refusing \in BOOLEAN
    /\ Dropping \in BOOLEAN

VARIABLES
    stage,      \* how far the call of a thread is
    kind,       \* which function of the pool it calls
    hold,       \* the local variable conn
    poollock,   \* the mutex is locked
    pool,       \* mysqlpool, the queue of idle connections
    conn,       \* "none": not made or closed, "open", "dead": server closed it
    start,      \* the value connect_count began with
    count,      \* connect_count
    lost        \* history: connections that no pointer leads to any more

vars == <<stage, kind, hold, poollock, pool, conn, start, count, lost>>
callVars == <<kind, start>>

Made == {i \in Conns : conn[i] # "none"}

\* The call of t goes on to stage s.
Goto(t, s) == stage' = [stage EXCEPT ![t] = s]

-----------------------------------------------------------------------------
Call(t, k) ==
    /\ stage[t] = "idle"
    /\ Goto(t, "get")
    /\ kind' = [kind EXCEPT ![t] = k]
    /\ UNCHANGED <<hold, poollock, pool, conn, start, count, lost>>

(* getOneConnect. *)

Enter(t) ==
    /\ stage[t] = "get"
    /\ ~poollock
    /\ poollock' = TRUE
    /\ Goto(t, "ping")
    /\ UNCHANGED <<callVars, hold, pool, conn, count, lost>>

\* mysql_ping of the front fails: it is closed, popped and discounted.
Discard_Uncounted(t) ==
    /\ stage[t] = "ping"
    /\ pool # <<>>
    /\ conn[Head(pool)] = "dead"
    /\ conn' = [conn EXCEPT ![Head(pool)] = "none"]
    /\ pool' = Tail(pool)
    /\ UNCHANGED <<stage, callVars, hold, poollock, count, lost>>

Discard(t) ==
    /\ stage[t] = "ping"
    /\ pool # <<>>
    /\ conn[Head(pool)] = "dead"
    /\ conn' = [conn EXCEPT ![Head(pool)] = "none"]
    /\ pool' = Tail(pool)
    /\ count' = count - 1
    /\ UNCHANGED <<stage, callVars, hold, poollock, lost>>

\* A mutant gives the mutex back before the front is popped.
PoolFront_Unlocks(t) ==
    /\ stage[t] = "ping"
    /\ pool # <<>>
    /\ conn[Head(pool)] # "dead"
    /\ hold' = [hold EXCEPT ![t] = Head(pool)]
    /\ poollock' = FALSE
    /\ Goto(t, "pop")
    /\ UNCHANGED <<callVars, pool, conn, count, lost>>

PoolFront(t) ==
    /\ stage[t] = "ping"
    /\ pool # <<>>
    /\ conn[Head(pool)] # "dead"
    /\ hold' = [hold EXCEPT ![t] = Head(pool)]
    /\ Goto(t, "pop")
    /\ UNCHANGED <<callVars, poollock, pool, conn, count, lost>>

PoolPop(t) ==
    /\ stage[t] = "pop"
    /\ pool # <<>>
    /\ pool' = Tail(pool)
    /\ Goto(t, "leave")
    /\ UNCHANGED <<callVars, hold, poollock, conn, count, lost>>

MayCreate == count < MaxConnect

Limit(t) ==
    /\ stage[t] = "ping"
    /\ pool = <<>>
    /\ Goto(t, IF MayCreate THEN "create" ELSE "leave")
    /\ UNCHANGED <<callVars, hold, poollock, pool, conn, count, lost>>

\* mysql_real_connect succeeds, or the server refuses.
CreateOneConnect(t) ==
    /\ stage[t] = "create"
    /\ \E i \in Conns \ Made :
          /\ conn' = [conn EXCEPT ![i] = "open"]
          /\ hold' = [hold EXCEPT ![t] = i]
    /\ count' = count + 1
    /\ Goto(t, "leave")
    /\ UNCHANGED <<callVars, poollock, pool, lost>>

Refused(t) ==
    /\ Refusing
    /\ stage[t] = "create"
    /\ Goto(t, "leave")
    /\ UNCHANGED <<callVars, hold, poollock, pool, conn, count, lost>>

\* With no connection executeSql(sql) gives up, and getContinueConnect, which
\* the other functions call, begins again.
Leave(t) ==
    /\ stage[t] = "leave"
    /\ poollock' = FALSE
    /\ Goto(t, IF hold[t] # 0 THEN "query"
               ELSE IF kind[t] = "none" THEN "close"
               ELSE "get")
    /\ UNCHANGED <<callVars, hold, pool, conn, count, lost>>

-----------------------------------------------------------------------------
(* The query and what the functions do with the connection afterwards. *)

Answered(t) == conn[hold[t]] = "open"

\* executeSql_Vector(sql, QVector&) returns true without close.
Succeed(t) ==
    /\ stage[t] = "query"
    /\ Answered(t)
    /\ IF kind[t] = "vector"
       THEN /\ lost' = lost \cup {hold[t]}
            /\ hold' = [hold EXCEPT ![t] = 0]
            /\ Goto(t, "func")
       ELSE /\ Goto(t, "close")
            /\ UNCHANGED <<hold, lost>>
    /\ UNCHANGED <<callVars, poollock, pool, conn, count>>

\* An error path that returns before close.
Fail_NoClose(t) ==
    /\ stage[t] = "query"
    /\ hold' = [hold EXCEPT ![t] = 0]
    /\ Goto(t, "func")
    /\ UNCHANGED <<callVars, poollock, pool, conn, count, lost>>

\* The server reports an error, or the connection is dead.
Fail(t) ==
    /\ stage[t] = "query"
    /\ Goto(t, "close")
    /\ UNCHANGED <<callVars, hold, poollock, pool, conn, count, lost>>

\* close, of a null pointer or not.
Closable(t) == stage[t] = "close" /\ hold[t] # 0

CloseLock(t) ==
    /\ Closable(t)
    /\ ~poollock
    /\ poollock' = TRUE
    /\ Goto(t, "push")
    /\ UNCHANGED <<callVars, hold, pool, conn, count, lost>>

CloseNull(t) ==
    /\ stage[t] = "close"
    /\ ~Closable(t)
    /\ Goto(t, "func")
    /\ UNCHANGED <<callVars, hold, poollock, pool, conn, count, lost>>

Push(t) ==
    /\ stage[t] = "push"
    /\ pool' = Append(pool, hold[t])
    /\ hold' = [hold EXCEPT ![t] = 0]
    /\ Goto(t, "unlock")
    /\ UNCHANGED <<callVars, poollock, conn, count, lost>>

CloseUnlock(t) ==
    /\ stage[t] = "unlock"
    /\ poollock' = FALSE
    /\ Goto(t, "func")
    /\ UNCHANGED <<callVars, hold, pool, conn, count, lost>>

\* The callback has been called with the result, or the result is returned.
Func(t) ==
    /\ stage[t] = "func"
    /\ Goto(t, "ended")
    /\ UNCHANGED <<callVars, hold, poollock, pool, conn, count, lost>>

\* The destructor of the dropped future lets the caller go on.
Return(t) ==
    /\ stage[t] = "ended"
    /\ Goto(t, "idle")
    /\ kind' = [kind EXCEPT ![t] = "none"]
    /\ UNCHANGED <<start, hold, poollock, pool, conn, count, lost>>

\* The server closes a connection that has been idle for too long, or any.
Drop(i) ==
    /\ Dropping
    /\ conn[i] = "open"
    /\ conn' = [conn EXCEPT ![i] = "dead"]
    /\ UNCHANGED <<stage, callVars, hold, poollock, pool, count, lost>>

-----------------------------------------------------------------------------
Init ==
    /\ stage = [t \in Callers |-> "idle"]
    /\ kind = [t \in Callers |-> "none"]
    /\ hold = [t \in Callers |-> 0]
    /\ poollock = FALSE
    /\ pool = <<>>
    /\ conn = [i \in Conns |-> "none"]
    /\ start \in Garbage
    /\ count = start
    /\ lost = {}

Locked(t) == \/ Discard(t) \/ PoolFront(t) \/ PoolPop(t) \/ Limit(t)
             \/ CreateOneConnect(t) \/ Refused(t) \/ Leave(t) \/ Push(t)
             \/ CloseUnlock(t)

Unlocked(t) == Succeed(t) \/ Fail(t) \/ CloseNull(t) \/ Func(t) \/ Return(t)

Next ==
    \/ \E t \in Callers :
          \/ \E k \in Kinds : Call(t, k)
          \/ Enter(t) \/ CloseLock(t) \/ Locked(t) \/ Unlocked(t)
    \/ \E i \in Conns : Drop(i)

Spec == Init /\ [][Next]_vars

\* A thread that can go on does, the mutex is not withheld from one of them
\* for ever, and the server does not refuse a thread for ever.  Nothing obliges
\* anybody to call.
Fairness ==
    \A t \in Callers : /\ SF_vars(Enter(t)) /\ SF_vars(CloseLock(t))
                       /\ SF_vars(CreateOneConnect(t))
                       /\ WF_vars(Locked(t)) /\ WF_vars(Unlocked(t))

FairSpec == Spec /\ Fairness

-----------------------------------------------------------------------------
Stages == {"idle", "get", "ping", "pop", "create", "leave", "query", "close",
           "push", "unlock", "func", "ended"}

TypeOK ==
    /\ stage \in [Callers -> Stages]
    /\ kind \in [Callers -> {"vector", "one", "none"}]
    /\ hold \in [Callers -> Conns \cup {0}]
    /\ poollock \in BOOLEAN
    /\ pool \in Seq(Conns)
    /\ conn \in [Conns -> {"none", "open", "dead"}]
    /\ start \in Int
    /\ count \in Int
    /\ lost \in SUBSET Conns

\* Who has a connection: a thread, until it has taken the front of the pool it
\* is the pool; a place in the pool; or a thread that has left it behind.
Owners(i) ==
    {<<"thread", t>> : t \in {u \in Callers : hold[u] = i /\ stage[u] # "pop"}}
        \cup {<<"pool", n>> : n \in {m \in 1 .. Len(pool) : pool[m] = i}}
        \cup {<<"lost", j>> : j \in lost \cap {i}}

\* A connection is used by one thread, or idle in the pool once, or lost to a
\* successful executeSql_Vector, and never two of these: two threads never
\* talk on one MYSQL object, and no other path loses one.
OneOwner == \A i \in Made : \E o \in Owners(i) : Owners(i) = {o}

\* connect_count is off by what it began with and by nothing else, and no
\* connection is made beyond MAX_CONNECT by that count.
CountAccounts == /\ count = start + Cardinality(Made)
                 /\ Made # {} => count <= MaxConnect

\* The callback of a call is called, when it is an asynchronous one
\* (MysqlManager.h:9).
CallbackComes ==
    \A t \in Callers : stage[t] = "get" ~> stage[t] = "ended"

\* A call is answered, as long as there is a connection for every thread: the
\* count began low enough and not too many are lost.
EveryCallEnds ==
    \A t \in Callers :
        stage[t] = "get" ~>
            \/ stage[t] = "ended"
            \/ start + Cardinality(lost) + Cardinality(Callers) > MaxConnect
=============================================================================
