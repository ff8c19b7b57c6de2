------------------------------- MODULE MonsterAI ------------------------------
(***************************************************************************)
(* The behaviour tree that MonsterBuilder builds for monsters of code 1,   *)
(* and how it drives a monster of Dungeon.  A context is a monster with    *)
(* what it finds when it looks: the nearest character, the points of a     *)
(* path.                                                                   *)
(***************************************************************************)
EXTENDS Dungeon

\* The actors, with what they return.
Act(func, c) ==
    LET Leaves(x, ok) == [ok |-> ok, ctx |-> [c EXCEPT !.x = x]]
        x == c.x
    IN  CASE func = "UpdateState" -> Leaves(UpdateState(x, c.near, c.n), TRUE)
          [] func = "UpdateIdle" -> Leaves(UpdateIdle(x, c.n), TRUE)
          [] func = "Patrol" -> Leaves(Walk(x), TRUE)
          [] func = "Hold" -> Leaves(Hold(x), FALSE)
          [] func = "Chase" -> Leaves(Walk(x), Walk(x).points = 0)
          [] func = "Attack" -> Leaves(Attack(x), x.attacking)
          [] func = "Die" -> Leaves(Die(x), FALSE)

\* The variables that selectors point to.
Key(pointer, c) == IF pointer = "state" THEN c.x.state ELSE c.x.idle

BT == INSTANCE BehaviorTree

AI ==
    LET none == BT!NoKey
        b1 == BT!actor(BT!sequence(BT!Create, none), none, "UpdateState")
        b2 == BT!sequence(BT!selector(b1, none, "state"), "IDLE")
        b3 == BT!selector(BT!actor(b2, none, "UpdateIdle"), none, "idle")
        b4 == BT!actor(BT!actor(b3, "PATROL", "Patrol"), "HOLD", "Hold")
        b5 == BT!end(BT!end(b4))
        State(b, key, func) == BT!end(BT!actor(BT!sequence(b, key), none, func))
        b6 == State(State(State(b5, "CHASE", "Chase"), "ATTACK", "Attack"),
                    "DIE", "Die")
    IN  BT!Finish(BT!end(BT!end(b6)))

\* A frame of the tree as it is built and run, node by node with the results of
\* its actors, leaves of a monster what the actors of the state that UpdateState
\* decided on leave of it, whatever the monster has been through: no result of
\* an actor cuts a frame short, no state is without actors, none has those of
\* another.
TreeDecides ==
    game.at = "monsters" =>
        \A m \in game.todo, near \in Nearest(Den), n \in 0 .. MaxPoints :
            LET x == Pass(mon[m])
            IN  BT!Run(AI, 1, [x |-> x, near |-> near, n |-> n]).ctx.x
                    = Tree(x, near, n)
===============================================================================
