CONSTANTS
    router = router
    firewall = firewall
    Devices <- MCDevices
    NotifierCount = 1
    Emails <- MCNone
    NotifyThreshold = 2
    MaxStreak = 3
    Horizon = 1
    HistorySize = 1
    SessionDevices <- MCSessions
    Stamps = 2
    PageKinds <- MCNone
    Restarts = FALSE
SPECIFICATION FairServeSpec
PROPERTIES
    RecoveryIsAlerted
