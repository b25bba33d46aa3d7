SPECIFICATION LSpec
CONSTANTS
    MaxThreads = 3
    Locks = {lk}
    CVs = {cv}
    NoLock = nolock
    OwnQueue = own
    UserQueues <- LockQueues
    Calls <- LockCalls
INVARIANTS LockExclusive NobodySleepsOnFreeLock AcquireNeverSpins
