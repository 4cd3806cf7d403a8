CONSTANTS
    Threads = {t1}
    BaseIsIo = FALSE
    ThreadCalls = {"forceClose"}
    ReadControl = FALSE
    ServerGoes = FALSE
    highWaterMark_ = 2
    MaxMessage = 2
    MaxBytes = 1
    MaxQueue = 1
SPECIFICATION Spec
CHECK_DEADLOCK FALSE
INVARIANT RemoveAsserts
