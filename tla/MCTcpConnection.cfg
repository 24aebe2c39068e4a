\* Messages and every way to close, in the loop thread; sends come from both
\* sides, time out and fail.  No symmetry, as liveness is checked.
CONSTANTS
    Msgs = {m1, m2, m3}
    Threads = {t1}
    LoopOps = {"shutdown", "forceClose", "forceCloseWithDelay"}
    ForeignOps = {}
    Timeouts = {TRUE, FALSE}
    WriteFails = TRUE
    ServerStops = FALSE
    MsgLen = 2
    MaxSendQue = 2
    MaxOps = 2
SPECIFICATION FairSpec
INVARIANTS
    UnsentDataIsWritten
    TimerIteratorValid
    OneOutcome
    WireInOrder
    ClosedOnce
PROPERTIES
    NothingAfterShutdown
    ShutdownCompletesUnlessTimeout
CHECK_DEADLOCK FALSE
