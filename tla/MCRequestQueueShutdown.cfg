SPECIFICATION FairSpec
CONSTANTS
    Workers = {w1, w2}
    Main = main
    None = none
    MaxRequests = 1
    MaxConns = 1
PROPERTY ShutdownCompletes
