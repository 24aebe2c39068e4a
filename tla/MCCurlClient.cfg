\* Three threads send four requests to two CurlManagers, so that three of them
\* pass the test of wait_rsp_ together and both I/O threads that of isFull; the
\* client may exit after one or two calls.
CONSTANTS
    Users = {u1, u2, u3}
    Managers = {0, 1}
    Objects = {r1, r2, r3, r4}
    MaxTotalConns = 1
    MaxReqQueSize = 1
    Modes = {TRUE}
    MaxCalls = 4
    MaxRounds = 2
    ExitCalls = {1, 2}
    EarlyEnds = TRUE
SPECIFICATION Spec
SYMMETRY Symmetry
INVARIANTS
    WaitRspExact
    LimitsHold
    OnePlace
    NoneStranded
CHECK_DEADLOCK FALSE
