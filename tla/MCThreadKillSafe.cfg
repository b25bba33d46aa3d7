SPECIFICATION KSpec
CONSTANTS
    MaxThreads = 3
    UserQueues = {q}
    MaxKills = 2
    Calls <- KillCalls
INVARIANT SafeKillsDoNoHarm
