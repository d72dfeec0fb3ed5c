\* Four contents, two ids; texts of up to ten bytes; answers of up to four pieces.
SPECIFICATION KnowledgeSpec
CONSTANTS
    plainText = plainText
    wideText = wideText
    cutText = cutText
    image = image
    Contents = {plainText, wideText, cutText, image}
    Chunks <- MCChunks
    MaxLimit = 2
    MaxId = 2
    MaxDbFaults = 2
    MaxLlmFaults = 1
    MaxCrashes = 1
    MaxText = 10
    Sizes = {0, 1, 2, 5, 8}
    Overlaps = {0, 1, 2}
    Entries = {"paragraph", "size"}
    Default = 4
    Word = 64
    MaxPieces = 4
    PipeSize = 1
    Limit = 2
INVARIANTS  ChunkIdUnique 
INVARIANTS NothingLost ReleasedOnce 
PROPERTY Advances
CHECK_DEADLOCK FALSE
