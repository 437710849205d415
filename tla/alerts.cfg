CONSTANTS
    router = router
    firewall = firewall
    Devices <- MCDevices
    NotifierCount = 3
    Emails <- NoMail
    NotifyThreshold = 2
    MaxStreak = 4
    Horizon = 3
SPECIFICATION FairSpec
INVARIANTS
    TypeOK
    DownExactlyAfterStreak
    ToldTheTransitions
PROPERTIES
    DownSinceIsKept
    ImplementsContract
