\* MysqlManager.h:9 against the path without close.
CONSTANTS
    t1 = t1
    t2 = t2
    Callers <- TwoCallers
    MaxConnect = 2
    Conns <- ThreeConns
    Garbage <- NoGarbage
    Kinds <- AllKinds
    Refusing = FALSE
    Dropping = FALSE
SPECIFICATION FairSpec
PROPERTIES
    CallbackComes
