SPECIFICATION LocalSpec
CONSTANTS
    Width = 13
    Height = 9
    Column = 2
    Spin = 2
    Default <- MCDefault
    Speeds = {1, 2}
    BallSizes = {1, 2}
    PaddleSizes = {4}
    Limits = {1, 2}
    Times = {1}
    CountFrom = 2
    MaxScore = 2
    MaxPages = 4
INVARIANTS
    LocalTypeOK
    VerdictMatchesScore
    FreshStart
PROPERTIES
    GoalWasReachable
    TimedGameEnds
CHECK_DEADLOCK FALSE
