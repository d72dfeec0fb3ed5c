\* Two accounts with two tokens; eight instants, two addresses; two names.
SPECIFICATION AccountsSpec
CONSTANTS
    u1 = u1
    u2 = u2
    t1 = t1
    t2 = t2
    a1 = a1
    a2 = a2
    Clients = {a1, a2}
    MaxRequests = 2
    Window = 2
    MaxTime = 8
    Users = {u1, u2}
    Root = u1
    Tokens = {t1, t2}
    CacheTypes = {"lru", "redis"}
    MaxDbFaults = 1
    MaxCrashes = 1
    People = {u1, u2}
    EmailSizes = {1, 8}
SYMMETRY Symmetry
INVARIANTS SlidingLimit   LoginLasts
INVARIANTS RecordWhole 
 
CHECK_DEADLOCK FALSE
