\* One user, two io loops, three connections and room for two descriptors; the
\* server is started twice and stopped once.
CONSTANTS
    Users = {u1}
    NumThreads = 2
    MaxFds = 2
    MaxConns = 3
    MaxStarts = 2
    MaxStops = 1
SPECIFICATION FairSpec
INVARIANTS
    CallbacksPaired
    OpenConnectionsHaveALoop
    StoppedServerIsEmpty
    EveryLoopHasIdleTimer
PROPERTIES
    StopReturns
    BacklogDrains
CHECK_DEADLOCK FALSE
