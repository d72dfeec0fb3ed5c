SPECIFICATION FairSpec
CONSTANTS
    Users = {u1, u2}
    Uploads = {x1}
    Data = {d1}
    Spellings = {"plain", "padded"}
    MaxChunks = 2
    Faults = {"open", "cut", "store", "create", "crash"}
  
PROPERTIES SessionEnds StopReturns
CHECK_DEADLOCK FALSE
