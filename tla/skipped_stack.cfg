SPECIFICATION Spec
CONSTANTS
    Moved = TRUE
    Repo <- MCRepo
    HeadsOf <- MCHeadsOf
    Asks <- MCAsks
    MaxFaults = 1
INVARIANT SuccessIsTried
