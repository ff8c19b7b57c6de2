\* An IO thread, functions that post, two lists; fair threads.
CONSTANTS
    io1 = io1
    Callers = {io1}
    Game = game
    Lists = 2
    MaxCalls = 2
SPECIFICATION FairSpec
PROPERTIES
    ImplementsAbs
    EveryRequestIsExecuted
