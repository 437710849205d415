CONSTANTS
    r1 = r1
    r2 = r2
    t1 = t1
    t2 = t2
    Requests <- MCRequests
    Tokens <- MCTokens
    Passwords <- MCPasswords
    DefaultAdminPassword = "admin"
    Short <- MCShort
    Logins <- MCLogins
    Changes <- MCChanges
    Strangers <- MCStrangers
    TTL = 1
    Horizon = 3
SPECIFICATION PanelSpec
SYMMETRY MCSymmetry
INVARIANTS
    PanelTypeOK
    NoEntryAfterEnd
    SessionsBelongToUsers
    DefaultStaysGone
