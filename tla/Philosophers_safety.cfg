SPECIFICATION Spec
CONSTANTS
    N = 2
    TimeToDie = 2
    TimeToEat = 1
    TimeToSleep = 1
    MealLimit = 2
INVARIANTS
    VictimHasStarved
    NeighboursNeverEatTogether
PROPERTIES
    DeathLineIsLast
CHECK_DEADLOCK FALSE
