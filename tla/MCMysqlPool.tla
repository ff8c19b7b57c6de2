---------------------------- MODULE MCMysqlPool -----------------------------
(* Small instances of MysqlPool.                                            *)
EXTENDS MysqlPool

CONSTANTS t1, t2

TwoCallers == {t1, t2}

ThreeConns == 1 .. 3

AllKinds == {"vector", "one", "none"}

\* connect_count, unsigned, begins with what the heap holds: nothing, or too much.
AnyGarbage == {0, 1, 7}
NoGarbage == {0}
=============================================================================
