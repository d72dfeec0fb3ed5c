SPECIFICATION Spec
CONSTANTS
    Clients = {c1}
    Conns = {k1, k2, k3}
    MinSize = 2
    MaxSize = 2
    MaxDbRestarts = 0
INVARIANT TotalBounded
CHECK_DEADLOCK FALSE
