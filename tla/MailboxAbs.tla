----------------------------- MODULE MailboxAbs -----------------------------
(***************************************************************************)
(* What a mailbox promises to the threads that call its Async_X functions, *)
(* with no lists, locks or copies: a request that was submitted is         *)
(* executed once, after the requests that the same thread submitted before *)
(* it for the same list or for an earlier one.  The abstraction that       *)
(* Membership makes of req_erase_list and req_Insert_list rests on it: an  *)
(* insert is never worked through before an erase that the same character  *)
(* asked for earlier.                                                      *)
(***************************************************************************)
EXTENDS Naturals

CONSTANTS Callers, Game, Lists, MaxCalls

Threads == Callers \cup {Game}
Requests == [by : Threads, n : 1 .. MaxCalls, kind : 1 .. Lists]

VARIABLES
    pending,    \* submitted and not executed
    executed

vars == <<pending, executed>>

Before(q, r) == q.by = r.by /\ q.n < r.n

\* A thread submits one request after another.
Submit(r) ==
    /\ \A q \in pending \cup executed : q.by = r.by => Before(q, r)
    /\ pending' = pending \cup {r}
    /\ UNCHANGED executed

Execute(r) ==
    /\ r \in pending
    /\ \A q \in pending : Before(q, r) => q.kind > r.kind
    /\ pending' = pending \ {r}
    /\ executed' = executed \cup {r}

Init == pending = {} /\ executed = {}

Next == \E r \in Requests : Submit(r) \/ Execute(r)

Spec == Init /\ [][Next]_vars
=============================================================================
