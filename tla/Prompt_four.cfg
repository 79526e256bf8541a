SPECIFICATION PromptSpec
CONSTANTS
    N = 4
    TimeToDie = 5
    TimeToEat = 2
    TimeToSleep = 2
    MealLimit = 2
PROPERTIES
    MealsEndProcess
CHECK_DEADLOCK FALSE
