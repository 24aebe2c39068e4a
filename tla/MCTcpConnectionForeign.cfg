\* Other threads race the loop thread in every operation, and the server stops.
CONSTANTS
    Msgs = {m1, m2}
    Threads = {t1}
    LoopOps = {"shutdown", "forceClose", "suspendRecv"}
    ForeignOps = {"shutdown", "forceClose", "forceCloseWithDelay",
               "suspendRecv", "resumeRecv", "startRead", "stopRead"}
    Timeouts = {TRUE, FALSE}
    WriteFails = TRUE
    ServerStops = TRUE
    MsgLen = 2
    MaxSendQue = 2
    MaxOps = 2
SPECIFICATION Spec
SYMMETRY Symmetry
INVARIANT OneOutcome
CHECK_DEADLOCK FALSE
