\* Two addresses and three timers, so that an address is used again; one
\* other thread; one-shot and repeating timers.
CONSTANTS
    Threads = {t1}
    Addrs = {a1, a2}
    Intervals = {0, 1}
    MaxTime = 3
    MaxTimers = 3
    MaxPending = 1
    MaxThrows = 1
SPECIFICATION Spec
SYMMETRY Symmetry
INVARIANTS
    SetsAgree
    NoDanglingTimer
    ArmedForEarliest
    CancelSticks
PROPERTY NeverEarly
CHECK_DEADLOCK FALSE
