CONSTANTS
    Threads = {t1, t2}
    kInitRetryDelayMs = 500
    kMaxRetryDelayMs = 30000
    MaxStarts = 1
    MaxQueue = 3
SPECIFICATION FairSpec
CHECK_DEADLOCK FALSE
INVARIANTS AttemptsOrdered SocketsAccounted StopStops
PROPERTY Connects
