\* Three events from outside: connections (for one place or two), messages
\* received, and calls of a user; the clock is set back once at most.
SPECIFICATION Spec
CONSTANTS
    Conns = {c1, c2, c3}
    Loops = {l1}
    Users = {u1}
    Ops = {"close", "send"}
    Negative = {TRUE, FALSE}
    MaxConnNums = {1, 2}
    IdleTime = 1
    MaxSendQue = 1
    UseIds = TRUE
    JumpSize = 2
    MaxJumps = 1
    MaxReads = 2
    MaxCalls = 2
    MaxEvents = 3
SYMMETRY Symmetry
INVARIANTS BooksAgree IdleAreInFront WaitSendSettles
CHECK_DEADLOCK FALSE
