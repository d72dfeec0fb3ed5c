SPECIFICATION FairSpec
CONSTANTS
    Clients = {c1, c2}
    Conns = {k1, k2}
    MinSize = 1
    MaxSize = 1
    MaxDbRestarts = 0
PROPERTIES CallReturns ShutdownReturns
CHECK_DEADLOCK FALSE
