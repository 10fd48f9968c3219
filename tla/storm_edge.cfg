CONSTANTS
    Client = {q1}
    Policy = {"edge"}
    ATTEMPTS = 3
    Unit = 10
    Floor = 3
SPECIFICATION StormSpec
INVARIANT EdgeOnlyMakesItThree
CHECK_DEADLOCK FALSE
