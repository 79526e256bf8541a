SPECIFICATION Spec
CONSTANTS
    ann = ann
    bob = bob
    Tabs <- MCTabs
    Typists <- MCTypists
    Width = 6
    Height = 6
    Radius = 1
    Column = 1
    Tall = 1
    Spin = 2
    Speed = 1
    Step = 1
    WinGoals = 2
    MaxMatches = 2
    MaxInbox = 2
    MaxClicks = 3
INVARIANTS
    PageTellsMatch
    HeldKeysArrive
PROPERTIES
    GoalWasReachable
CHECK_DEADLOCK FALSE
