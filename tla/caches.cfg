\* One key more than the LRU has room for; two names of a file in Redis.
SPECIFICATION CachesSpec
CONSTANTS
    k1 = k1
    k2 = k2
    k3 = k3
    k4 = k4
    v1 = v1
    v2 = v2
    n1 = n1
    n2 = n2
    n3 = n3
    n4 = n4
    None = None
    Keys = {k1, k2, k3, k4}
    Values = {v1, v2}
    Nodes = {n1, n2, n3, n4}
    Wanted = 3
    FileNames <- MCNames
    UserIds = {"1"}
    MaxRefusals = 1
    MaxLosses = 1
    MaxRestarts = 1
INVARIANTS AnswersRecord AnswersLatest
SYMMETRY Symmetry
PROPERTY IsRecencyStore
CHECK_DEADLOCK FALSE
