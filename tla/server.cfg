\* Two clients; a path parameter may bear the name of another route.
SPECIFICATION ServerSpec
CONSTANTS
    c1 = c1
    c2 = c2
    Clients = {c1, c2}
    Values = {"x", "complete"}
    Backlog = 1
    MaxContent = 3
    MaxUploads = 2
    MaxRow = 4
    Limits <- MCLimits
    Offered <- MCOffered
    MaxListFaults = 1
INVARIANTS ParamsFound RoutesApart
INVARIANTS ServesWhole Delivered PagesComplete
PROPERTY EveryoneAnswered
CHECK_DEADLOCK FALSE
