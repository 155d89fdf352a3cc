SPECIFICATION FairSpec
CONSTANTS
    userCount = 5
    MaxParallel = 2
    BatchSize = 3
    BufferLines = 1
    Faults <- FaultKinds
INVARIANTS TypeOK NoSendOnClosed EveryTokenOnce SummaryAccounts NoCircularWait
PROPERTIES Ends StepsRunOut
CHECK_DEADLOCK FALSE
