SPECIFICATION HistorySpec
CONSTANTS
    u1 = u1
    u2 = u2
    u3 = u3
    a1 = a1
    a2 = a2
    b1 = b1
    c1 = c1
    Nobody = Nobody
    NoUser = NoUser
    TournamentPrize = 2
    MaxWork = 2
    Users <- MCUsers
    Sessions <- MCSessions
    UserOf <- MCUserOf
    MaxMatches = 2
    WinGoals = 1
INVARIANTS
    CardsTellTheWinner
    ProfileAddsUp
PROPERTIES
    KeepsMatchLife
CHECK_DEADLOCK FALSE
SYMMETRY MCSymmetry
CONSTRAINT MCBound
