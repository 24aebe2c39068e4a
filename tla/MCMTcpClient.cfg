\* One connection of a client, with and without a timeout, deleted up to twice,
\* and UnInitTcpClient at any time.  Connections meet in the main loop only.
CONSTANTS
    Clients = {k1}
    Timeouts = {0, 1}
    MaxAttempts = 1
    Overlap = FALSE
    MaxDels = 2
SPECIFICATION MSpec
INVARIANTS
    CallbackProtocol
PROPERTIES
    ClientOutlivesCallbacks
    AnsweredUnlessStopped
    DeletedCloses
CHECK_DEADLOCK FALSE
