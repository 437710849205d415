CONSTANTS
    router = router
    firewall = firewall
    Devices <- MCDevices
    NotifierCount = 1
    Emails <- MCNone
    NotifyThreshold = 2
    MaxStreak = 3
    Horizon = 1
    HistorySize = 2
    SessionDevices <- MCSessions
    Stamps = 3
    PageKinds <- MCPages
    Restarts = TRUE
SPECIFICATION ServeSpec
INVARIANTS
    ServeTypeOK
    HistoryHoldsNewest
    NoUnknownShown
    OnlyUnansweredMissing
    PageIsComplete
    RecoveryFollowsDown
