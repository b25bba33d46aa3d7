SPECIFICATION FairSpec
CONSTANTS
    MaxThreads = 3
    UserQueues = {q}
    Calls <- AllCalls
INVARIANTS TypeOK NobodyLost StackLifetime NoOrphanWaiter WokenWaiterSawExit
PROPERTIES NeverOvertaken ReadyRuns
