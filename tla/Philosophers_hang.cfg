SPECIFICATION FairSpec
CONSTANTS
    N = 2
    TimeToDie = 1
    TimeToEat = 1
    TimeToSleep = 1
    MealLimit <- NoLimit
PROPERTY DeathEndsProcess
CHECK_DEADLOCK FALSE
