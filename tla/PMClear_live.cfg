\* One Stop after another, new work, a new session and a crash.
CONSTANTS
    Stop = {h1}
    MaxAttempts = 1
    MaxRequest = 1
    MaxGen = 2
    MaxBoot = 2
    MaxCrash = 1
\* The bounds stop it.
CHECK_DEADLOCK FALSE
SPECIFICATION FairSpec
PROPERTY AttemptEnds
