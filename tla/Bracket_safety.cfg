SPECIFICATION FairSpec
CONSTANTS
    p1 = p1
    p2 = p2
    p3 = p3
    p4 = p4
    Null = Null
    Players <- MCPlayers
    Seeds <- MCSeeds
    Quitters = {{}, {p1, p2, p3, p4}}
INVARIANTS
    GivenOnce
    PageTellsBracket
PROPERTIES
    FinalFollowsSemifinals
    ChampionIsPaid
CHECK_DEADLOCK FALSE
