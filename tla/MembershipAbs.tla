--------------------------- MODULE MembershipAbs ---------------------------
(***************************************************************************)
(* What the server promises to clients that wait for the answer to a move, *)
(* with no handlers, mailboxes, tables or frames: who asks to move is      *)
(* placed in one channel and taken into it, which answers the request; who *)
(* has its answer stays inside until it asks again or its user goes.  Of   *)
(* the channel that it left a character may still be inside for a while.   *)
(* A channel lets out and takes in one character at a time (Membership) or *)
(* all that asked for it since its last turn (Dungeon, Moves).             *)
(***************************************************************************)
CONSTANTS
    Chars,
    Chans,
    None        \* no channel, none of Chans

VARIABLES
    there,      \* characters whose user is there
    home,       \* the channel a character was placed in, or None
    waits,      \* the client waits for an answer
    inside,     \* the characters inside a channel
    down        \* the process has died

vars == <<there, home, waits, inside, down>>

Ask(c) ==
    /\ ~down
    /\ c \in there
    /\ ~waits[c]
    /\ home' = [home EXCEPT ![c] = None]
    /\ waits' = [waits EXCEPT ![c] = TRUE]
    /\ UNCHANGED <<there, inside, down>>

Place(c, o) ==
    /\ ~down
    /\ c \in there
    /\ waits[c]
    /\ home[c] = None
    /\ home' = [home EXCEPT ![c] = o]
    /\ UNCHANGED <<there, waits, inside, down>>

\* The turn of o: out go characters that are inside, but none that has its answer
\* and its home here; then others come in, where they were placed and only once.
Drain(o, out, into) ==
    /\ ~down
    /\ out \subseteq inside[o]
    /\ \A c \in out : home[c] = o => waits[c]
    /\ into \cap (inside[o] \ out) = {}
    /\ \A c \in into : c \in there /\ waits[c] /\ home[c] = o
    /\ inside' = [inside EXCEPT ![o] = (@ \ out) \cup into]
    /\ waits' = [c \in Chars |-> waits[c] /\ c \notin into]
    /\ UNCHANGED <<there, home, down>>

\* The user goes.
Quit(c) ==
    /\ ~down
    /\ c \in there
    /\ there' = there \ {c}
    /\ home' = [home EXCEPT ![c] = None]
    /\ UNCHANGED <<waits, inside, down>>

\* The process dies, perhaps in the middle of taking a character in.
Fail ==
    /\ ~down
    /\ down' = TRUE
    /\ UNCHANGED <<there, home, waits>>

\* Some may have been placed already.
Init ==
    /\ there = Chars
    /\ home \in [Chars -> Chans \cup {None}]
    /\ waits = [c \in Chars |-> home[c] # None]
    /\ inside = [o \in Chans |-> {}]
    /\ down = FALSE

Next ==
    \/ \E c \in Chars : Ask(c) \/ Quit(c)
    \/ \E c \in Chars, o \in Chans : Place(c, o)
    \/ \E o \in Chans : \E out, into \in SUBSET Chars : Drain(o, out, into)
    \/ Fail

Spec == Init /\ [][Next]_vars

\* Who has its answer is inside its home.
AnsweredIsInside ==
    ~down => \A c \in there, o \in Chans :
                home[c] = o /\ ~waits[c] => c \in inside[o]
=============================================================================
