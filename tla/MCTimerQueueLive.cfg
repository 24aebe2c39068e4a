\* Every timer that is due leaves the queue, unless a callback has thrown.
CONSTANTS
    Threads = {t1}
    Addrs = {a1, a2}
    Intervals = {0, 1}
    MaxTime = 3
    MaxTimers = 2
    MaxPending = 1
    MaxThrows = 1
SPECIFICATION FairSpec
PROPERTY DueTimersLeaveUnlessThrow
CHECK_DEADLOCK FALSE
