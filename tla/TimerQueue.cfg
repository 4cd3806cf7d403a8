CONSTANTS
    Threads = {t1}
    Addrs = {1, 2}
    Intervals = {0, 1}
    MaxTime = 2
    MaxSeq = 2
    ClockSteps = 1
    Null = null
SPECIFICATION FairSpec
CHECK_DEADLOCK FALSE
INVARIANTS TimersConsistent TimerfdArmed CancelIsFinal
PROPERTY DueTimerRuns
