CONSTANTS
    TopByte = 65536
    RequestIds <- SomeIds
    Community <- Public
    LengthForms = {0, 1, 2, 3}
    Rows <- SomeRows
    WalkLimit = 2
    Octets <- SomeOctets
    NameSize <- Sizes
    Uptime = 360000
    MaxChanges = 2
    Orderly = TRUE
SPECIFICATION FairWalkSpec
INVARIANTS
    WalkTypeOK
    LastingAreShown
    NoneInvented
    AnswersAreRead
PROPERTIES
    PollEnds
