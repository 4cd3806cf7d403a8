CONSTANTS
    Threads = {t1}
    BaseIsIo = TRUE
    ThreadCalls = {"send", "shutdown", "forceClose"}
    ReadControl = TRUE
    ServerGoes = TRUE
    highWaterMark_ = 2
    MaxMessage = 2
    MaxBytes = 2
    MaxQueue = 1
SPECIFICATION Spec
CHECK_DEADLOCK FALSE
INVARIANTS DataDelivered WriteInterest CallbacksTold
