\* One thread, fewer than MaxTotalConns, that waits for room.
CONSTANTS
    Users = {u1}
    Managers = {0}
    Objects = {r1, r2, r3}
    MaxTotalConns = 2
    MaxReqQueSize = 2
    Modes = {TRUE}
    MaxCalls = 3
    MaxRounds = 1
    ExitCalls = {}
    EarlyEnds = FALSE
SPECIFICATION FairSpec
PROPERTIES
    SenderReturns
CHECK_DEADLOCK FALSE
