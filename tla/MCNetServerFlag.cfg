\* Two messages, the second with bKeepAlive = false, and no callback that returns < 0.
SPECIFICATION Spec
CONSTANTS
    Conns = {c1}
    Loops = {l1}
    Users = {u1}
    Ops = {"send"}
    Negative = {FALSE}
    MaxConnNums = {1}
    IdleTime = 0
    MaxSendQue = 2
    UseIds = TRUE
    JumpSize = 1
    MaxJumps = 0
    MaxReads = 2
    MaxCalls = 2
    MaxEvents = 5
PROPERTY FlaggedIsSent
CHECK_DEADLOCK FALSE
