\* Two threads and two connections, or one or none by a count above 0; all may fail.
CONSTANTS
    t1 = t1
    t2 = t2
    Callers <- TwoCallers
    MaxConnect = 2
    Conns <- ThreeConns
    Garbage <- AnyGarbage
    Kinds <- AllKinds
    Refusing = TRUE
    Dropping = TRUE
SPECIFICATION FairSpec
INVARIANTS
    OneOwner
    CountAccounts
PROPERTIES
    EveryCallEnds
