\* Two foreign threads, three functors, two exceptions: a functor of each
\* thread and one queued by a callback can meet in a batch that is cut short.
\* The fairness is that of the threads; no symmetry, as liveness is checked.
CONSTANTS
    Threads = {t1, t2}
    Functors = {f1, f2, f3}
    MaxThrows = 2
SPECIFICATION FairSpec
INVARIANT NoLostWakeup
PROPERTIES
    ImplementsFunctorQueue
    QueuedFunctorRuns
    QuitStopsRunningLoop
CHECK_DEADLOCK FALSE
