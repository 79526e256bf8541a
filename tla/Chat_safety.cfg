SPECIFICATION MCSpec
CONSTANTS
    ada = ada
    bob = bob
    a1 = a1
    a2 = a2
    b1 = b1
    NoTab = NoTab
    Away = Away
    NoOne = NoOne
    Users <- MCUsers
    Tabs <- MCTabs
    Owner <- MCOwner
    Readers <- MCReaders
    MaxCalls = 1
    PageSize = 1
    Week = 2
    Durations <- MCDurations
    MaxSessions = 3
    MaxDay = 2
INVARIANTS
    PresenceIsKept
    LogIsKept
    BlockHolds
    OneAnswer
    PagesMatchMessages
CHECK_DEADLOCK FALSE
