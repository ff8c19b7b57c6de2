\* Two IO threads open two channels while the game thread walks.
CONSTANTS
    IOThreads <- TwoIO
    MaxChan = 2
SPECIFICATION FairSpec
INVARIANTS
    IteratorsValid
    Registered
PROPERTIES
    RunsItsCourse
