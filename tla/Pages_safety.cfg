SPECIFICATION PagesSpec
CONSTANTS
    u1 = u1
    u2 = u2
    a1 = a1
    a2 = a2
    b1 = b1
    tab = tab
    NoTab = NoTab
    NoLink = NoLink
    NoTournament = NoTournament
    Users <- MCUsers
    Sessions <- MCSessions
    UserOf <- MCUserOf
    Tabs <- MCTabs
    TabOf <- MCTabOf
    t1 = t1
    t2 = t2
    Tournaments <- MCTournaments
    FirstPages = {"list", "bracket"}
    Slots = 2
    MaxClicks = 3
SYMMETRY Alike
INVARIANTS
    LobbyIsKept
    PageFitsPlayer
PROPERTIES
    FieldIsFixed
CHECK_DEADLOCK FALSE
