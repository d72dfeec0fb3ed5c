SPECIFICATION Spec
CONSTANTS
    Clients = {c1, c2}
    Conns = {k1, k2, k3, k4}
    MinSize = 1
    MaxSize = 2
    MaxDbRestarts = 1
SYMMETRY Symmetry
INVARIANTS OneOwner NoLeak QueueBound ActiveExact CleanStop
 
CHECK_DEADLOCK FALSE
