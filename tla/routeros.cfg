CONSTANTS
    MaxRows = 2
    Polls = 3
    MaxStrays = 1
SPECIFICATION FairSessionSpec
INVARIANTS
    SessionTypeOK
    SnapshotUntilStray
    RowsOfOneAnswer
    LagIsStrays
PROPERTIES
    ReplyEnds
CHECK_DEADLOCK FALSE
