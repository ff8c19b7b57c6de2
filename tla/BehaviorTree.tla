----------------------------- MODULE BehaviorTree -----------------------------
(***************************************************************************)
(* Behaviour trees and how they are built.  A tree is a sequence of nodes; *)
(* the root is the first, children stand behind their parent, and links    *)
(* holds their edges in the order of Insert.  The builder keeps the stack  *)
(* of the nodes that are open.  Actors work on a context: what Run may     *)
(* read and change, and nothing is shared between two runs.                *)
(***************************************************************************)
EXTENDS Integers, Sequences, SequencesExt

CONSTANTS
    Act(_, _),  \* what an actor makes of a context: [ok, ctx]
    Key(_, _)   \* what a pointer to a key points to, in a context

NoKey == "no key"

-----------------------------------------------------------------------------
(* BehaviorTreeBuilder. *)

Node(type, what) == [type |-> type, what |-> what]

Create ==
    [nodes |-> <<Node("ROOT", "root")>>, links |-> <<>>, parents |-> <<1>>]

Top(b) == Last(b.parents)
TypeOf(b) == b.nodes[Top(b)].type

\* map::insert keeps the first of two with one key; the root keeps the last
\* child, and a node without Insert none.
Insert(b, key, n) ==
    IF TypeOf(b) = "SELECTOR" /\ \E i \in DOMAIN b.links :
            b.links[i].of = Top(b) /\ b.links[i].key = key
    THEN b.links
    ELSE LET old == IF TypeOf(b) = "ROOT"
                    THEN SelectSeq(b.links, LAMBDA l : l.of # Top(b))
                    ELSE b.links
         IN  Append(old, [of |-> Top(b), key |-> key, node |-> n])

\* With a key only below a selector, without one only below something else;
\* otherwise the node is made and not inserted.
Fits(b, key) == (TypeOf(b) = "SELECTOR") = (key # NoKey)

AddNode(b, key, node) ==
    LET n == Len(b.nodes) + 1
    IN  [b EXCEPT !.nodes = Append(@, node),
                  !.links = IF Fits(b, key) THEN Insert(b, key, n) ELSE @]

Open(b) == [b EXCEPT !.parents = Append(@, Len(b.nodes))]

sequence(b, key) == Open(AddNode(b, key, Node("SEQUENCE", "sequence")))
selector(b, key, pointer) == Open(AddNode(b, key, Node("SELECTOR", pointer)))
actor(b, key, func) == AddNode(b, key, Node("ACTOR", func))
end(b) == [b EXCEPT !.parents = Front(@)]

\* A tree with composites left open is none.
Finish(b) ==
    IF Len(b.parents) = 1 THEN [nodes |-> b.nodes, links |-> b.links] ELSE <<>>

-----------------------------------------------------------------------------
(* Run of the nodes: whether it succeeds, and what it leaves of a context. *)

Children(tree, n) == SelectSeq(tree.links, LAMBDA l : l.of = n)

\* A sequence goes on with the next child; after a failure.
GoesOn_Failed(result) == ~result.ok
GoesOn(result) == result.ok

\* Run of node n on the context c.
RECURSIVE Run(_, _, _)
Run(tree, n, c) ==
    LET node == tree.nodes[n]
        children == Children(tree, n)
        Next(r, l) == IF GoesOn(r) THEN Run(tree, l.node, r.ctx) ELSE r
        chosen == SelectSeq(children, LAMBDA l : l.key = Key(node.what, c))
    IN  CASE node.type = "ROOT" ->
                [Run(tree, Head(children).node, c) EXCEPT !.ok = TRUE]
          [] node.type = "SEQUENCE" ->
                FoldLeft(Next, [ok |-> TRUE, ctx |-> c], children)
          [] node.type = "SELECTOR" ->
                IF chosen = <<>> THEN [ok |-> FALSE, ctx |-> c]
                ELSE Run(tree, Head(chosen).node, c)
          [] node.type = "ACTOR" -> Act(node.what, c)
===============================================================================
