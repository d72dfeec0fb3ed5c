SPECIFICATION Spec
CONSTANTS
    Users = {u1, u2}
    Hashes = {h1}
    Tokens = {t1}
    Configs <- MCPlain
    MaxId = 2
    MaxNames = 2
    MaxDbFaults = 0
    MaxBlobFaults = 0
    MaxCrashes = 0
    MaxFaults <- NoFaults
SYMMETRY Symmetry
INVARIANTS SavedIsOwned
CHECK_DEADLOCK FALSE
