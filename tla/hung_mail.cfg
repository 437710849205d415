CONSTANTS
    router = router
    firewall = firewall
    Devices <- MCDevices
    NotifierCount = 3
    Emails <- MailFirst
    NotifyThreshold = 2
    MaxStreak = 4
    Horizon = 3
SPECIFICATION FairSpec
PROPERTIES
    OthersGetTheAlert
