\* One TcpClient that connects three times, each time after the last
\* connection has come to its end.
CONSTANTS
    Clients = {k1}
    Timeouts = {0, 1}
    MaxAttempts = 3
    Overlap = FALSE
SPECIFICATION FairSpec
INVARIANTS
    AnsweredOnce
    NoDescriptorLost
PROPERTIES
    ChannelIsFree
    TimeoutIsOwn
    AttemptEnds
CHECK_DEADLOCK FALSE
