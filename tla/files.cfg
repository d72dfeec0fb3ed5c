SPECIFICATION Spec
CONSTANTS
    Users = {u1, u2}
    Hashes = {h1, h2}
    Tokens = {t1}
    Configs <- MCConfigs
    MaxId = 2
    MaxNames = 2
    MaxDbFaults = 1
    MaxBlobFaults = 1
    MaxCrashes = 1
    MaxFaults <- MCMaxFaults
SYMMETRY Symmetry
INVARIANTS HashUnique   
 
CHECK_DEADLOCK FALSE
