CONSTANTS
    Threads = {t1}
    BaseIsIo = FALSE
    ThreadCalls = {"send"}
    ReadControl = FALSE
    ServerGoes = FALSE
    highWaterMark_ = 2
    MaxMessage = 2
    MaxBytes = 2
    MaxQueue = 2
SPECIFICATION FairSpec
CHECK_DEADLOCK FALSE
INVARIANT TeardownAsserts
PROPERTIES ClosedIsDestroyed ClosesWhenAsked PeerCloseNoticed
