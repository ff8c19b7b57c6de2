-------------------------- MODULE MysqlPoolProofs ---------------------------
(***************************************************************************)
(* Proofs about MysqlPool, for any callers, limit and initial count: types, *)
(* one owner for each connection, and the count.  All follow from IInv.    *)
(***************************************************************************)
EXTENDS MysqlPool, FiniteSetTheorems, TLAPS

InLock(t) == stage[t] \in {"ping", "pop", "create", "leave", "push", "unlock"}

\* At most one thread is between lock and unlock, and poollock is locked
\* meanwhile.
Locking ==
    /\ \A t \in Callers : InLock(t) => poollock
    /\ \A t, u \in Callers : InLock(t) /\ InLock(u) => t = u

\* Where a thread may have a connection, and where it must.
Holding ==
    \A t \in Callers :
        /\ stage[t] \in {"idle", "get", "ping", "create", "unlock", "func",
                         "ended"} => hold[t] = 0
        /\ stage[t] \in {"query", "push"} => hold[t] # 0
        /\ stage[t] = "pop" => pool # <<>> /\ hold[t] = pool[1]

InPool(i) == \E n \in 1 .. Len(pool) : pool[n] = i

\* Whoever has a connection has one that was made, and nobody else has it.
Apart ==
    /\ \A m, n \in 1 .. Len(pool) : pool[m] = pool[n] => m = n
    /\ \A n \in 1 .. Len(pool) : pool[n] \in Made /\ pool[n] \notin lost
    /\ \A t \in Callers :
          hold[t] # 0 => /\ hold[t] \in Made /\ hold[t] \notin lost
                         /\ stage[t] # "pop" => ~InPool(hold[t])
    /\ \A t, u \in Callers : hold[t] # 0 /\ hold[t] = hold[u] => t = u
    /\ lost \subseteq Made

\* Somebody has it.
Kept == \A i \in Made : InPool(i) \/ i \in lost \/ \E t \in Callers : hold[t] = i

\* The decision to create one is still right when it is created.
Creating == \A t \in Callers : stage[t] = "create" => MayCreate

Control == Locking /\ Holding /\ Creating

IInv == TypeOK /\ Control /\ Apart /\ Kept /\ CountAccounts

-----------------------------------------------------------------------------
(* The pool as a list. *)

LEMMA TailOfPool ==
    ASSUME NEW s \in Seq(Conns), s # <<>>
    PROVE  /\ Tail(s) \in Seq(Conns)
           /\ Len(s) \in Nat \ {0}
           /\ Len(Tail(s)) = Len(s) - 1
           /\ \A n \in 1 .. Len(s) - 1 : Tail(s)[n] = s[n + 1]
           /\ Head(s) = s[1]
           /\ s[1] \in Conns
OBVIOUS

LEMMA AppendToPool ==
    ASSUME NEW s \in Seq(Conns), NEW i \in Conns
    PROVE  /\ Append(s, i) \in Seq(Conns)
           /\ Len(Append(s, i)) = Len(s) + 1
           /\ \A n \in 1 .. Len(s) : Append(s, i)[n] = s[n]
           /\ Append(s, i)[Len(s) + 1] = i
           /\ Len(s) \in Nat
OBVIOUS

LEMMA TypeStep == IInv /\ [Next]_vars => TypeOK'
<1> SUFFICES ASSUME IInv, [Next]_vars PROVE TypeOK'
  OBVIOUS
<1> USE MysqlPoolAssumption
<1>0. TypeOK /\ Holding
  BY DEF IInv, Control
<1>1. ASSUME UNCHANGED vars PROVE TypeOK'
  BY <1>0, <1>1 DEF TypeOK, vars
<1>2. ASSUME NEW t \in Callers, NEW k \in Kinds, Call(t, k) PROVE TypeOK'
  BY <1>0, <1>2 DEF Call, TypeOK, Goto, Stages, callVars
<1>3. ASSUME NEW t \in Callers, Enter(t) PROVE TypeOK'
  BY <1>0, <1>3 DEF Enter, TypeOK, Goto, Stages, callVars
<1>4. ASSUME NEW t \in Callers, CloseLock(t) PROVE TypeOK'
  BY <1>0, <1>4 DEF TypeOK, CloseLock, Goto, Stages, callVars, Closable
<1>5. ASSUME NEW t \in Callers, Discard(t) PROVE TypeOK'
  BY <1>0, <1>5, TailOfPool DEF TypeOK, Discard, Goto, Stages, callVars
<1>6. ASSUME NEW t \in Callers, PoolFront(t) PROVE TypeOK'
  BY <1>0, <1>6, TailOfPool DEF TypeOK, PoolFront, Goto, Stages, callVars
<1>7. ASSUME NEW t \in Callers, PoolPop(t) PROVE TypeOK'
  BY <1>0, <1>7, TailOfPool DEF TypeOK, PoolPop, Goto, Stages, callVars
<1>8. ASSUME NEW t \in Callers, Limit(t) PROVE TypeOK'
  BY <1>0, <1>8 DEF Limit, TypeOK, Goto, Stages, callVars
<1>9. ASSUME NEW t \in Callers, CreateOneConnect(t) PROVE TypeOK'
  BY <1>0, <1>9 DEF TypeOK, CreateOneConnect, Goto, Stages, callVars, Made
<1>10. ASSUME NEW t \in Callers, Refused(t) PROVE TypeOK'
  BY <1>0, <1>10 DEF Refused, TypeOK, Goto, Stages, callVars
<1>11. ASSUME NEW t \in Callers, Leave(t) PROVE TypeOK'
  BY <1>0, <1>11 DEF Leave, TypeOK, Goto, Stages, callVars
<1>12. ASSUME NEW t \in Callers, Push(t) PROVE TypeOK'
  BY <1>0, <1>12, AppendToPool
     DEF TypeOK, Push, Goto, Stages, callVars, Holding
<1>13. ASSUME NEW t \in Callers, CloseUnlock(t) PROVE TypeOK'
  BY <1>0, <1>13 DEF CloseUnlock, TypeOK, Goto, Stages, callVars
<1>14. ASSUME NEW t \in Callers, Succeed(t) PROVE TypeOK'
  <2>1. hold[t] \in Conns
    BY <1>0, <1>14 DEF TypeOK, Succeed, Holding
  <2>2. lost' \in SUBSET Conns /\ hold' \in [Callers -> Conns \cup {0}]
    BY <1>0, <1>14, <2>1 DEF TypeOK, Succeed
  <2>3. stage' \in [Callers -> Stages]
    BY <1>0, <1>14 DEF TypeOK, Succeed, Goto, Stages
  <2> QED
    BY <1>0, <1>14, <2>2, <2>3 DEF TypeOK, Succeed, callVars
<1>15. ASSUME NEW t \in Callers, Fail(t) PROVE TypeOK'
  BY <1>0, <1>15 DEF Fail, TypeOK, Goto, Stages, callVars
<1>16. ASSUME NEW t \in Callers, CloseNull(t) PROVE TypeOK'
  BY <1>0, <1>16 DEF TypeOK, CloseNull, Goto, Stages, callVars, Closable
<1>17. ASSUME NEW t \in Callers, Func(t) PROVE TypeOK'
  BY <1>0, <1>17 DEF Func, TypeOK, Goto, Stages, callVars
<1>18. ASSUME NEW t \in Callers, Return(t) PROVE TypeOK'
  BY <1>0, <1>18 DEF Return, TypeOK, Goto, Stages, callVars
<1>19. ASSUME NEW i \in Conns, Drop(i) PROVE TypeOK'
  BY <1>0, <1>19 DEF Drop, TypeOK, Goto, Stages, callVars
<1>20. ASSUME NEW t \in Callers, Locked(t) PROVE TypeOK'
  BY <1>5, <1>6, <1>7, <1>8, <1>9, <1>10, <1>11, <1>12, <1>13, <1>20 DEF Locked
<1>21. ASSUME NEW t \in Callers, Unlocked(t) PROVE TypeOK'
  BY <1>14, <1>15, <1>16, <1>17, <1>18, <1>21 DEF Unlocked
<1> QED
  BY <1>1, <1>2, <1>3, <1>4, <1>19, <1>20, <1>21 DEF Next


LEMMA ControlStep == IInv /\ [Next]_vars => Control'
<1> SUFFICES ASSUME IInv, [Next]_vars PROVE Control'
  OBVIOUS
<1> USE MysqlPoolAssumption
<1>0. TypeOK /\ Control
  BY DEF IInv
<1>1. ASSUME UNCHANGED vars PROVE Control'
  BY <1>0, <1>1 DEF Control, Locking, Holding, Creating, InLock,
     MayCreate, vars
<1>2. ASSUME NEW t \in Callers, NEW k \in Kinds, Call(t, k) PROVE Control'
  BY <1>0, <1>2 DEF TypeOK, Control, Locking, Holding, Creating,
     InLock, MayCreate, Call, Goto, Stages, callVars
<1>3. ASSUME NEW t \in Callers, Enter(t) PROVE Control'
  BY <1>0, <1>3 DEF TypeOK, Control, Locking, Holding, Creating,
     InLock, MayCreate, Enter, Goto, Stages, callVars
<1>4. ASSUME NEW t \in Callers, CloseLock(t) PROVE Control'
  BY <1>0, <1>4 DEF TypeOK, Control, Locking, Holding, Creating,
     InLock, MayCreate, CloseLock, Goto, Stages, callVars, Closable
<1>5. ASSUME NEW t \in Callers, Discard(t) PROVE Control'
  BY <1>0, <1>5, TailOfPool DEF TypeOK, Control, Locking, Holding, Creating,
     InLock, MayCreate, Discard, Goto, Stages, callVars
<1>6. ASSUME NEW t \in Callers, PoolFront(t) PROVE Control'
  BY <1>0, <1>6, TailOfPool DEF TypeOK, Control, Locking, Holding, Creating,
     InLock, MayCreate, PoolFront, Goto, Stages, callVars
<1>7. ASSUME NEW t \in Callers, PoolPop(t) PROVE Control'
  BY <1>0, <1>7, TailOfPool DEF TypeOK, Control, Locking, Holding, Creating,
     InLock, MayCreate, PoolPop, Goto, Stages, callVars
<1>8. ASSUME NEW t \in Callers, Limit(t) PROVE Control'
  BY <1>0, <1>8 DEF TypeOK, Control, Locking, Holding, Creating,
     InLock, MayCreate, Limit, Goto, Stages, callVars
<1>9. ASSUME NEW t \in Callers, CreateOneConnect(t) PROVE Control'
  BY <1>0, <1>9 DEF TypeOK, Control, Locking, Holding, Creating,
     InLock, MayCreate, CreateOneConnect, Goto, Stages, callVars
<1>10. ASSUME NEW t \in Callers, Refused(t) PROVE Control'
  BY <1>0, <1>10 DEF TypeOK, Control, Locking, Holding, Creating,
     InLock, MayCreate, Refused, Goto, Stages, callVars
<1>11. ASSUME NEW t \in Callers, Leave(t) PROVE Control'
  BY <1>0, <1>11 DEF TypeOK, Control, Locking, Holding, Creating,
     InLock, MayCreate, Leave, Goto, Stages, callVars
<1>12. ASSUME NEW t \in Callers, Push(t) PROVE Control'
  BY <1>0, <1>12, AppendToPool DEF TypeOK, Control, Locking, Holding, Creating,
     InLock, MayCreate, Push, Goto, Stages, callVars
<1>13. ASSUME NEW t \in Callers, CloseUnlock(t) PROVE Control'
  BY <1>0, <1>13 DEF TypeOK, Control, Locking, Holding, Creating,
     InLock, MayCreate, CloseUnlock, Goto, Stages, callVars
<1>14. ASSUME NEW t \in Callers, Succeed(t) PROVE Control'
  BY <1>0, <1>14 DEF TypeOK, Control, Locking, Holding, Creating,
     InLock, MayCreate, Succeed, Goto, Stages, callVars
<1>15. ASSUME NEW t \in Callers, Fail(t) PROVE Control'
  BY <1>0, <1>15 DEF TypeOK, Control, Locking, Holding, Creating,
     InLock, MayCreate, Fail, Goto, Stages, callVars
<1>16. ASSUME NEW t \in Callers, CloseNull(t) PROVE Control'
  BY <1>0, <1>16 DEF TypeOK, Control, Locking, Holding, Creating,
     InLock, MayCreate, CloseNull, Goto, Stages, callVars, Closable
<1>17. ASSUME NEW t \in Callers, Func(t) PROVE Control'
  BY <1>0, <1>17 DEF TypeOK, Control, Locking, Holding, Creating,
     InLock, MayCreate, Func, Goto, Stages, callVars
<1>18. ASSUME NEW t \in Callers, Return(t) PROVE Control'
  BY <1>0, <1>18 DEF TypeOK, Control, Locking, Holding, Creating,
     InLock, MayCreate, Return, Goto, Stages, callVars
<1>19. ASSUME NEW i \in Conns, Drop(i) PROVE Control'
  BY <1>0, <1>19 DEF TypeOK, Control, Locking, Holding, Creating,
     InLock, MayCreate, Drop, Goto, Stages, callVars
<1>20. ASSUME NEW t \in Callers, Locked(t) PROVE Control'
  BY <1>5, <1>6, <1>7, <1>8, <1>9, <1>10, <1>11, <1>12, <1>13, <1>20 DEF Locked
<1>21. ASSUME NEW t \in Callers, Unlocked(t) PROVE Control'
  BY <1>14, <1>15, <1>16, <1>17, <1>18, <1>21 DEF Unlocked
<1> QED
  BY <1>1, <1>2, <1>3, <1>4, <1>19, <1>20, <1>21 DEF Next

LEMMA ApartStep == IInv /\ [Next]_vars => Apart'
<1> SUFFICES ASSUME IInv, [Next]_vars PROVE Apart'
  OBVIOUS
<1> USE MysqlPoolAssumption
<1>0. TypeOK /\ Control /\ Apart
  BY DEF IInv
<1>1. ASSUME UNCHANGED vars PROVE Apart'
  BY <1>0, <1>1 DEF Apart, InPool, Made, vars
<1>2. ASSUME NEW t \in Callers, NEW k \in Kinds, Call(t, k) PROVE Apart'
  BY <1>0, <1>2 DEF TypeOK, Apart, InPool, Made, Call, Goto,
     callVars
<1>3. ASSUME NEW t \in Callers, Enter(t) PROVE Apart'
  BY <1>0, <1>3 DEF TypeOK, Apart, InPool, Made, Enter, Goto,
     callVars
<1>4. ASSUME NEW t \in Callers, CloseLock(t) PROVE Apart'
  BY <1>0, <1>4 DEF TypeOK, Apart, InPool, Made, CloseLock, Goto,
     callVars, Closable
<1>5. ASSUME NEW t \in Callers, Discard(t) PROVE Apart'
  BY <1>0, <1>5, TailOfPool
     DEF TypeOK, Control, Apart, InPool, Made, Locking, Holding, InLock,
     Discard, Goto, Stages, callVars
<1>6. ASSUME NEW t \in Callers, PoolFront(t) PROVE Apart'
  BY <1>0, <1>6, TailOfPool
     DEF TypeOK, Control, Apart, InPool, Made, Locking, Holding, InLock,
     PoolFront, Goto, Stages, callVars
<1>7. ASSUME NEW t \in Callers, PoolPop(t) PROVE Apart'
  <2>1. /\ pool \in Seq(Conns) /\ pool # <<>> /\ pool' = Tail(pool)
        /\ UNCHANGED <<hold, conn, lost>>
    BY <1>0, <1>7 DEF TypeOK, PoolPop
  <2>2. /\ Len(pool) \in Nat \ {0} /\ Len(pool') = Len(pool) - 1
        /\ \A n \in 1 .. Len(pool') : /\ n + 1 \in 1 .. Len(pool)
                                      /\ pool'[n] = pool[n + 1]
    BY <2>1, TailOfPool
  <2>3. Made' = Made
    BY <2>1 DEF Made
  <2>4. \A m, n \in 1 .. Len(pool') : pool'[m] = pool'[n] => m = n
    BY <1>0, <2>2 DEF Apart
  <2>5. \A n \in 1 .. Len(pool') : pool'[n] \in Made /\ pool'[n] \notin lost
    BY <1>0, <2>2 DEF Apart
  <2>6. hold[t] = pool[1] /\ stage[t] = "pop"
    BY <1>0, <1>7 DEF Control, Holding, PoolPop
  <2>7. ~InPool(hold[t])'
    <3>1. \A n \in 1 .. Len(pool') : pool'[n] # pool[1]
      BY <1>0, <2>2 DEF Apart
    <3> QED
      BY <3>1, <2>1, <2>6 DEF InPool
  <2>8. ASSUME NEW u \in Callers, hold[u] # 0, u # t
        PROVE  ~InPool(hold[u])'
    <3>1. stage[u] # "pop"
      BY <1>0, <2>6, <2>8 DEF Control, Locking, InLock
    <3> QED
      BY <1>0, <3>1, <2>1, <2>2, <2>8 DEF Apart, InPool
  <2> QED
    BY <1>0, <2>1, <2>3, <2>4, <2>5, <2>7, <2>8 DEF Apart
<1>8. ASSUME NEW t \in Callers, Limit(t) PROVE Apart'
  BY <1>0, <1>8 DEF TypeOK, Apart, InPool, Made, Limit, Goto,
     callVars
<1>9. ASSUME NEW t \in Callers, CreateOneConnect(t) PROVE Apart'
  BY <1>0, <1>9
     DEF TypeOK, Control, Apart, InPool, Made, Locking, Holding, InLock,
     CreateOneConnect, Goto, Stages, callVars
<1>10. ASSUME NEW t \in Callers, Refused(t) PROVE Apart'
  BY <1>0, <1>10 DEF TypeOK, Apart, InPool, Made, Refused, Goto,
     callVars
<1>11. ASSUME NEW t \in Callers, Leave(t) PROVE Apart'
  BY <1>0, <1>11 DEF TypeOK, Apart, InPool, Made, Leave, Goto,
     callVars
<1>12. ASSUME NEW t \in Callers, Push(t) PROVE Apart'
  BY <1>0, <1>12, AppendToPool
     DEF TypeOK, Control, Apart, InPool, Made, Locking, Holding, InLock,
     Push, Goto, Stages, callVars
<1>13. ASSUME NEW t \in Callers, CloseUnlock(t) PROVE Apart'
  BY <1>0, <1>13 DEF TypeOK, Apart, InPool, Made, CloseUnlock, Goto,
     callVars
<1>14. ASSUME NEW t \in Callers, Succeed(t) PROVE Apart'
  <2>1. UNCHANGED <<pool, conn>> /\ Made' = Made
    BY <1>14 DEF Succeed, Made
  <2>2. stage[t] = "query" /\ hold[t] # 0 /\ ~InPool(hold[t])
    BY <1>0, <1>14 DEF Control, Holding, Apart, Succeed
  <2>3. CASE kind[t] = "vector"
    <3>1. lost' = lost \cup {hold[t]} /\ hold' = [hold EXCEPT ![t] = 0]
      BY <1>14, <2>3 DEF Succeed
    <3>2. /\ hold'[t] = 0
          /\ \A u \in Callers : u # t => hold'[u] = hold[u] /\ stage'[u] = stage[u]
      BY <1>0, <1>14, <3>1 DEF TypeOK, Succeed, Goto
    <3>3. \A n \in 1 .. Len(pool) : pool[n] # hold[t]
      BY <2>2 DEF InPool
    <3>4. lost' \subseteq Made
      BY <1>0, <2>2, <3>1 DEF Apart
    <3>5. \A u \in Callers :
             hold'[u] # 0 => /\ hold'[u] \in Made /\ hold'[u] \notin lost'
                             /\ stage'[u] # "pop" => ~InPool(hold[u])'
      BY <1>0, <2>1, <2>2, <3>1, <3>2 DEF Apart, InPool
    <3> QED
      BY <1>0, <2>1, <3>1, <3>2, <3>3, <3>4, <3>5 DEF Apart
  <2>4. CASE kind[t] # "vector"
    <3>1. UNCHANGED <<lost, hold>> /\ stage' = [stage EXCEPT ![t] = "close"]
      BY <1>14, <2>4 DEF Succeed, Goto
    <3> QED
      BY <1>0, <2>1, <2>2, <3>1 DEF TypeOK, Apart, InPool
  <2> QED
    BY <2>3, <2>4
<1>15. ASSUME NEW t \in Callers, Fail(t) PROVE Apart'
  BY <1>0, <1>15 DEF TypeOK, Apart, InPool, Made, Fail, Goto,
     callVars
<1>16. ASSUME NEW t \in Callers, CloseNull(t) PROVE Apart'
  BY <1>0, <1>16 DEF TypeOK, Apart, InPool, Made, CloseNull, Goto,
     callVars, Closable
<1>17. ASSUME NEW t \in Callers, Func(t) PROVE Apart'
  BY <1>0, <1>17 DEF TypeOK, Apart, InPool, Made, Func, Goto,
     callVars
<1>18. ASSUME NEW t \in Callers, Return(t) PROVE Apart'
  BY <1>0, <1>18 DEF TypeOK, Apart, InPool, Made, Return, Goto,
     callVars
<1>19. ASSUME NEW i \in Conns, Drop(i) PROVE Apart'
  BY <1>0, <1>19 DEF TypeOK, Apart, InPool, Made, Drop, Goto,
     callVars
<1>20. ASSUME NEW t \in Callers, Locked(t) PROVE Apart'
  BY <1>5, <1>6, <1>7, <1>8, <1>9, <1>10, <1>11, <1>12, <1>13, <1>20 DEF Locked
<1>21. ASSUME NEW t \in Callers, Unlocked(t) PROVE Apart'
  BY <1>14, <1>15, <1>16, <1>17, <1>18, <1>21 DEF Unlocked
<1> QED
  BY <1>1, <1>2, <1>3, <1>4, <1>19, <1>20, <1>21 DEF Next


LEMMA KeptStep == IInv /\ [Next]_vars => Kept'
<1> SUFFICES ASSUME IInv, [Next]_vars PROVE Kept'
  OBVIOUS
<1> USE MysqlPoolAssumption
<1>0. TypeOK /\ Control /\ Apart /\ Kept
  BY DEF IInv
<1>1. ASSUME UNCHANGED vars PROVE Kept'
  BY <1>0, <1>1 DEF Kept, InPool, Made, vars
<1>2. ASSUME NEW t \in Callers, NEW k \in Kinds, Call(t, k) PROVE Kept'
  BY <1>0, <1>2 DEF TypeOK, Kept, InPool, Made, Call, Goto,
     callVars
<1>3. ASSUME NEW t \in Callers, Enter(t) PROVE Kept'
  BY <1>0, <1>3 DEF TypeOK, Kept, InPool, Made, Enter, Goto,
     callVars
<1>4. ASSUME NEW t \in Callers, CloseLock(t) PROVE Kept'
  BY <1>0, <1>4 DEF TypeOK, Kept, InPool, Made, CloseLock, Goto,
     callVars, Closable
<1>5. ASSUME NEW t \in Callers, Discard(t) PROVE Kept'
  <2>1. /\ pool \in Seq(Conns) /\ pool # <<>> /\ pool' = Tail(pool)
        /\ UNCHANGED <<hold, lost>>
    BY <1>0, <1>5 DEF TypeOK, Discard
  <2>2. /\ Len(pool) \in Nat \ {0} /\ Len(pool') = Len(pool) - 1
        /\ \A n \in 1 .. Len(pool') : /\ n + 1 \in 1 .. Len(pool)
                                      /\ pool'[n] = pool[n + 1]
    BY <2>1, TailOfPool
  <2>3. Made' = Made \ {pool[1]}
    BY <1>0, <1>5, TailOfPool DEF TypeOK, Made, Discard
  <2>4. \A i : InPool(i) /\ i # pool[1] => InPool(i)'
    <3> SUFFICES ASSUME NEW i, InPool(i), i # pool[1] PROVE InPool(i)'
      OBVIOUS
    <3>1. PICK n \in 1 .. Len(pool) : pool[n] = i
      BY DEF InPool
    <3>2. n - 1 \in 1 .. Len(pool')
      BY <2>2, <3>1
    <3>3. pool'[n - 1] = i
      BY <2>2, <3>1, <3>2
    <3> QED
      BY <3>2, <3>3 DEF InPool
  <2> QED
    BY <1>0, <2>1, <2>3, <2>4 DEF Kept
<1>6. ASSUME NEW t \in Callers, PoolFront(t) PROVE Kept'
  BY <1>0, <1>6, TailOfPool
     DEF TypeOK, Control, Kept, Apart, InPool, Made, Locking, Holding, InLock,
     PoolFront, Goto, Stages, callVars
<1>7. ASSUME NEW t \in Callers, PoolPop(t) PROVE Kept'
  <2>1. /\ pool \in Seq(Conns) /\ pool # <<>> /\ pool' = Tail(pool)
        /\ UNCHANGED <<hold, conn, lost>>
    BY <1>0, <1>7 DEF TypeOK, PoolPop
  <2>2. /\ Len(pool) \in Nat \ {0} /\ Len(pool') = Len(pool) - 1
        /\ \A n \in 1 .. Len(pool') : /\ n + 1 \in 1 .. Len(pool)
                                      /\ pool'[n] = pool[n + 1]
    BY <2>1, TailOfPool
  <2>3. Made' = Made
    BY <2>1 DEF Made
  <2>4. hold[t] = pool[1]
    BY <1>0, <1>7 DEF Control, Holding, PoolPop
  <2>5. \A i : InPool(i) /\ i # pool[1] => InPool(i)'
    <3> SUFFICES ASSUME NEW i, InPool(i), i # pool[1] PROVE InPool(i)'
      OBVIOUS
    <3>1. PICK n \in 1 .. Len(pool) : pool[n] = i
      BY DEF InPool
    <3>2. n - 1 \in 1 .. Len(pool')
      BY <2>2, <3>1
    <3>3. pool'[n - 1] = i
      BY <2>2, <3>1, <3>2
    <3> QED
      BY <3>2, <3>3 DEF InPool
  <2> QED
    BY <1>0, <2>1, <2>3, <2>4, <2>5 DEF Kept
<1>8. ASSUME NEW t \in Callers, Limit(t) PROVE Kept'
  BY <1>0, <1>8 DEF TypeOK, Kept, InPool, Made, Limit, Goto,
     callVars
<1>9. ASSUME NEW t \in Callers, CreateOneConnect(t) PROVE Kept'
  <2>1. PICK i \in Conns \ Made : /\ conn' = [conn EXCEPT ![i] = "open"]
                                  /\ hold' = [hold EXCEPT ![t] = i]
    BY <1>9 DEF CreateOneConnect
  <2>2. Made' = Made \cup {i}
    BY <1>0, <2>1 DEF TypeOK, Made
  <2>3. hold[t] = 0 /\ hold'[t] = i
    BY <1>0, <1>9, <2>1 DEF TypeOK, Control, Holding, CreateOneConnect
  <2>4. \A u \in Callers : u # t => hold'[u] = hold[u]
    BY <1>0, <2>1 DEF TypeOK
  <2>5. UNCHANGED <<pool, lost>> /\ 0 \notin Made
    BY <1>9 DEF CreateOneConnect, Made
  <2> QED
    BY <1>0, <2>2, <2>3, <2>4, <2>5 DEF Kept, InPool
<1>10. ASSUME NEW t \in Callers, Refused(t) PROVE Kept'
  BY <1>0, <1>10 DEF TypeOK, Kept, InPool, Made, Refused, Goto,
     callVars
<1>11. ASSUME NEW t \in Callers, Leave(t) PROVE Kept'
  BY <1>0, <1>11 DEF TypeOK, Kept, InPool, Made, Leave, Goto,
     callVars
<1>12. ASSUME NEW t \in Callers, Push(t) PROVE Kept'
  <2>1. hold[t] \in Conns /\ pool \in Seq(Conns)
    BY <1>0, <1>12 DEF TypeOK, Control, Holding, Push
  <2>2. pool' = Append(pool, hold[t])
    BY <1>12 DEF Push
  <2>3. /\ Len(pool) \in Nat /\ Len(pool') = Len(pool) + 1
        /\ \A n \in 1 .. Len(pool) : pool'[n] = pool[n]
        /\ pool'[Len(pool) + 1] = hold[t]
    BY <2>1, <2>2, AppendToPool
  <2>4. \A i : InPool(i) => InPool(i)'
    BY <2>3 DEF InPool
  <2>5. PICK h \in Conns : h = hold[t]
    BY <2>1
  <2>6. \A u \in Callers : u # t => hold'[u] = hold[u]
    BY <1>0, <1>12 DEF TypeOK, Push
  <2>7. lost' = lost /\ Made' = Made
    BY <1>12 DEF Push, Made
  <2>8. InPool(h)'
    BY <2>3, <2>5 DEF InPool
  <2> QED
    BY <1>0, <2>4, <2>5, <2>6, <2>7, <2>8 DEF Kept
<1>13. ASSUME NEW t \in Callers, CloseUnlock(t) PROVE Kept'
  BY <1>0, <1>13 DEF TypeOK, Kept, InPool, Made, CloseUnlock, Goto,
     callVars
<1>14. ASSUME NEW t \in Callers, Succeed(t) PROVE Kept'
  BY <1>0, <1>14
     DEF TypeOK, Control, Kept, Apart, InPool, Made, Locking, Holding, InLock,
     Succeed, Goto, Stages, callVars
<1>15. ASSUME NEW t \in Callers, Fail(t) PROVE Kept'
  BY <1>0, <1>15 DEF TypeOK, Kept, InPool, Made, Fail, Goto,
     callVars
<1>16. ASSUME NEW t \in Callers, CloseNull(t) PROVE Kept'
  BY <1>0, <1>16 DEF TypeOK, Kept, InPool, Made, CloseNull, Goto,
     callVars, Closable
<1>17. ASSUME NEW t \in Callers, Func(t) PROVE Kept'
  BY <1>0, <1>17 DEF TypeOK, Kept, InPool, Made, Func, Goto,
     callVars
<1>18. ASSUME NEW t \in Callers, Return(t) PROVE Kept'
  BY <1>0, <1>18 DEF TypeOK, Kept, InPool, Made, Return, Goto,
     callVars
<1>19. ASSUME NEW i \in Conns, Drop(i) PROVE Kept'
  BY <1>0, <1>19 DEF TypeOK, Kept, InPool, Made, Drop, Goto,
     callVars
<1>20. ASSUME NEW t \in Callers, Locked(t) PROVE Kept'
  BY <1>5, <1>6, <1>7, <1>8, <1>9, <1>10, <1>11, <1>12, <1>13, <1>20 DEF Locked
<1>21. ASSUME NEW t \in Callers, Unlocked(t) PROVE Kept'
  BY <1>14, <1>15, <1>16, <1>17, <1>18, <1>21 DEF Unlocked
<1> QED
  BY <1>1, <1>2, <1>3, <1>4, <1>19, <1>20, <1>21 DEF Next


LEMMA SameCount ==
    ASSUME CountAccounts, UNCHANGED <<start, count, conn>>
    PROVE  CountAccounts'
<1>1. Made' = Made
  BY DEF Made
<1> QED
  BY <1>1 DEF CountAccounts

LEMMA CountStep == IInv /\ [Next]_vars => CountAccounts'
<1> SUFFICES ASSUME IInv, [Next]_vars PROVE CountAccounts'
  OBVIOUS
<1> USE MysqlPoolAssumption
<1>0. TypeOK /\ Control /\ Apart /\ CountAccounts
  BY DEF IInv
<1>00. IsFiniteSet(Made)
  BY FS_Subset DEF Made
<1>1. ASSUME UNCHANGED vars PROVE CountAccounts'
  BY <1>0, <1>1, SameCount DEF vars
<1>2. ASSUME NEW t \in Callers, NEW k \in Kinds, Call(t, k)
      PROVE  CountAccounts'
  BY <1>0, <1>2, SameCount DEF Call, callVars
<1>3. ASSUME NEW t \in Callers, Enter(t) PROVE CountAccounts'
  BY <1>0, <1>3, SameCount DEF Enter, callVars
<1>4. ASSUME NEW t \in Callers, CloseLock(t) PROVE CountAccounts'
  BY <1>0, <1>4, SameCount DEF CloseLock, callVars
<1>5. ASSUME NEW t \in Callers, Discard(t) PROVE CountAccounts'
  <2>1. pool[1] \in Made /\ Made' = Made \ {pool[1]}
    BY <1>0, <1>5, TailOfPool DEF TypeOK, Apart, Made, Discard
  <2>2. Cardinality(Made') = Cardinality(Made) - 1
    BY <1>00, <2>1, FS_RemoveElement
  <2>3. /\ count' = count - 1 /\ start' = start
        /\ count \in Int /\ start \in Int /\ Cardinality(Made) \in Nat
    BY <1>0, <1>5, <1>00, FS_CardinalityType DEF TypeOK, Discard, callVars
  <2>4. count <= MaxConnect
    BY <1>0, <2>1 DEF CountAccounts
  <2>5. count' = start' + Cardinality(Made')
    BY <1>0, <2>2, <2>3 DEF CountAccounts
  <2> QED
    BY <2>3, <2>4, <2>5 DEF CountAccounts
<1>6. ASSUME NEW t \in Callers, PoolFront(t) PROVE CountAccounts'
  BY <1>0, <1>6, SameCount DEF PoolFront, callVars
<1>7. ASSUME NEW t \in Callers, PoolPop(t) PROVE CountAccounts'
  BY <1>0, <1>7, SameCount DEF PoolPop, callVars
<1>8. ASSUME NEW t \in Callers, Limit(t) PROVE CountAccounts'
  BY <1>0, <1>8, SameCount DEF Limit, callVars
<1>9. ASSUME NEW t \in Callers, CreateOneConnect(t) PROVE CountAccounts'
  <2>1. PICK i \in Conns \ Made : conn' = [conn EXCEPT ![i] = "open"]
    BY <1>9 DEF CreateOneConnect
  <2>2. Made' = Made \cup {i} /\ i \notin Made
    BY <1>0, <2>1 DEF TypeOK, Made
  <2>3. Cardinality(Made') = Cardinality(Made) + 1
    BY <1>00, <2>2, FS_AddElement
  <2>4. count < MaxConnect
    BY <1>0, <1>9 DEF Control, Creating, MayCreate, CreateOneConnect
  <2> QED
    BY <1>0, <1>9, <2>2, <2>3, <2>4, <1>00, FS_CardinalityType
       DEF TypeOK, CountAccounts, CreateOneConnect, callVars
<1>10. ASSUME NEW t \in Callers, Refused(t) PROVE CountAccounts'
  BY <1>0, <1>10, SameCount DEF Refused, callVars
<1>11. ASSUME NEW t \in Callers, Leave(t) PROVE CountAccounts'
  BY <1>0, <1>11, SameCount DEF Leave, callVars
<1>12. ASSUME NEW t \in Callers, Push(t) PROVE CountAccounts'
  BY <1>0, <1>12, SameCount DEF Push, callVars
<1>13. ASSUME NEW t \in Callers, CloseUnlock(t) PROVE CountAccounts'
  BY <1>0, <1>13, SameCount DEF CloseUnlock, callVars
<1>14. ASSUME NEW t \in Callers, Succeed(t) PROVE CountAccounts'
  BY <1>0, <1>14, SameCount DEF Succeed, callVars
<1>15. ASSUME NEW t \in Callers, Fail(t) PROVE CountAccounts'
  BY <1>0, <1>15, SameCount DEF Fail, callVars
<1>16. ASSUME NEW t \in Callers, CloseNull(t) PROVE CountAccounts'
  BY <1>0, <1>16, SameCount DEF CloseNull, callVars
<1>17. ASSUME NEW t \in Callers, Func(t) PROVE CountAccounts'
  BY <1>0, <1>17, SameCount DEF Func, callVars
<1>18. ASSUME NEW t \in Callers, Return(t) PROVE CountAccounts'
  BY <1>0, <1>18, SameCount DEF Return, callVars
<1>19. ASSUME NEW i \in Conns, Drop(i) PROVE CountAccounts'
  <2>1. Made' = Made
    BY <1>0, <1>19 DEF TypeOK, Made, Drop
  <2> QED
    BY <1>0, <1>19, <2>1 DEF CountAccounts, Drop, callVars
<1>20. ASSUME NEW t \in Callers, Locked(t) PROVE CountAccounts'
  BY <1>5, <1>6, <1>7, <1>8, <1>9, <1>10, <1>11, <1>12, <1>13, <1>20 DEF Locked
<1>21. ASSUME NEW t \in Callers, Unlocked(t) PROVE CountAccounts'
  BY <1>14, <1>15, <1>16, <1>17, <1>18, <1>21 DEF Unlocked
<1> QED
  BY <1>1, <1>2, <1>3, <1>4, <1>19, <1>20, <1>21 DEF Next


-----------------------------------------------------------------------------
LEMMA InitIInv == Init => IInv
<1> SUFFICES ASSUME Init PROVE IInv
  OBVIOUS
<1> USE MysqlPoolAssumption
<1>0. TypeOK
  <2>1. start \in Int /\ count \in Int
    BY DEF Init
  <2>2. pool \in Seq(Conns) /\ lost \in SUBSET Conns
    BY DEF Init
  <2>3. /\ stage \in [Callers -> Stages]
        /\ kind \in [Callers -> {"vector", "one", "none"}]
        /\ hold \in [Callers -> Conns \cup {0}]
        /\ conn \in [Conns -> {"none", "open", "dead"}]
        /\ poollock \in BOOLEAN
    BY DEF Init, Stages
  <2> QED
    BY <2>1, <2>2, <2>3 DEF TypeOK
<1>1. Control
  BY DEF Init, Control, Locking, Holding, Creating, InLock
<1>2. Made = {}
  BY DEF Init, Made
<1>3. Apart /\ Kept
  BY <1>2 DEF Init, Apart, Kept
<1>4. CountAccounts
  BY <1>2, FS_EmptySet DEF Init, CountAccounts
<1> QED
  BY <1>0, <1>1, <1>3, <1>4 DEF IInv

LEMMA StepIInv == IInv /\ [Next]_vars => IInv'
<1> SUFFICES ASSUME IInv, [Next]_vars PROVE IInv'
  OBVIOUS
<1> QED
  BY TypeStep, ControlStep, ApartStep, KeptStep, CountStep DEF IInv

(* IInv holds in every state, whoever calls, fails and is refused.         *)
THEOREM PoolInvariance == Spec => []IInv
<1> QED
  BY InitIInv, StepIInv, PTL DEF Spec

(* Every variable keeps its type: the pool never holds the null pointer.   *)
THEOREM PoolTypeCorrect == Spec => []TypeOK
<1>1. IInv => TypeOK
  BY DEF IInv
<1> QED
  BY <1>1, PoolInvariance, PTL

LEMMA OwnerExists ==
    ASSUME TypeOK, Control, Apart, Kept, NEW i \in Made
    PROVE  \E o \in Owners(i) : Owners(i) = {o}
<1>0. i # 0
  BY MysqlPoolAssumption DEF Made
<1>1. CASE InPool(i)
  <2>1. PICK n \in 1 .. Len(pool) : pool[n] = i
    BY <1>1 DEF InPool
  <2>2. \A m \in 1 .. Len(pool) : pool[m] = i => m = n
    BY <2>1 DEF Apart
  <2>3. i \notin lost
    BY <2>1 DEF Apart
  <2>4. \A t \in Callers : hold[t] = i => stage[t] = "pop"
    BY <1>0, <1>1 DEF Apart
  <2>5. Owners(i) = {<<"pool", n>>}
    BY <2>1, <2>2, <2>3, <2>4 DEF Owners
  <2> QED
    BY <2>5
<1>2. CASE ~InPool(i) /\ i \in lost
  <2>1. \A n \in 1 .. Len(pool) : pool[n] # i
    BY <1>2 DEF InPool
  <2>2. \A t \in Callers : hold[t] # i
    BY <1>0, <1>2 DEF Apart
  <2>3. Owners(i) = {<<"lost", i>>}
    BY <1>2, <2>1, <2>2 DEF Owners
  <2> QED
    BY <2>3
<1>3. CASE ~InPool(i) /\ i \notin lost
  <2>1. PICK t \in Callers : hold[t] = i
    BY <1>3 DEF Kept
  <2>2. \A u \in Callers : hold[u] = i => u = t
    BY <1>0, <2>1 DEF Apart
  <2>3. \A n \in 1 .. Len(pool) : pool[n] # i
    BY <1>3 DEF InPool
  <2>4. stage[t] # "pop"
    <3>1. SUFFICES ASSUME stage[t] = "pop" PROVE FALSE
      OBVIOUS
    <3>2. pool # <<>> /\ pool[1] = i
      BY <2>1, <3>1 DEF Control, Holding
    <3>3. 1 \in 1 .. Len(pool)
      BY <3>2, TailOfPool DEF TypeOK
    <3> QED
      BY <2>3, <3>2, <3>3
  <2>5. Owners(i) = {<<"thread", t>>}
    BY <1>3, <2>1, <2>2, <2>3, <2>4 DEF Owners
  <2> QED
    BY <2>5
<1> QED
  BY <1>1, <1>2, <1>3

(* Two threads never talk on one connection, a connection in use is not in *)
(* the pool, none is in the pool twice, and none is lost but by a          *)
(* successful executeSql_Vector.                                           *)
THEOREM OneOwnerEach == Spec => []OneOwner
<1>1. IInv => OneOwner
  BY OwnerExists DEF IInv, OneOwner
<1> QED
  BY <1>1, PoolInvariance, PTL

(* connect_count counts the connections there are from where it began, and *)
(* none is made beyond the limit.                                          *)
THEOREM CountIsRight == Spec => []CountAccounts
<1>1. IInv => CountAccounts
  BY DEF IInv
<1> QED
  BY <1>1, PoolInvariance, PTL
=============================================================================
