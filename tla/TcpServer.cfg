CONSTANTS
    MaxThreads = 2
    MaxFd = 3
    MaxPeers = 4
SPECIFICATION FairSpec
CHECK_DEADLOCK FALSE
INVARIANTS DescriptorsAccounted TablesAgree RoundRobin
PROPERTIES BacklogDrains ClosedIsFreed
