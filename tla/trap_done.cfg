CONSTANTS
    MaxRows = 2
    Polls = 3
    MaxStrays = 1
SPECIFICATION SessionSpec
INVARIANTS
    SnapshotIsOfThisPoll
CHECK_DEADLOCK FALSE
