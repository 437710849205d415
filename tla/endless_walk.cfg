CONSTANTS
    TopByte = 65536
    RequestIds = {1}
    Community <- Public
    LengthForms = {0}
    Rows <- SomeRows
    WalkLimit = 2
    Octets = {0}
    NameSize <- Sizes
    Uptime = 360000
    MaxChanges = 0
    Orderly = FALSE
SPECIFICATION FairWalkSpec
PROPERTIES
    PollEnds
