SPECIFICATION FairSpec
CONSTANTS
    Workers = {w1, w2, w3}
    Main = main
    None = none
    MaxRequests = 2
    MaxConns = 4
INVARIANTS TypeOK MutualExclusion NoLostWakeup FifoOrder NothingDropped
PROPERTIES FifoSpec QueuedIsTaken MainResumes WokenWorkersExit
