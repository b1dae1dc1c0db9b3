\* Two Stop hooks handled at once, two requests, new work or a new session.
CONSTANTS
    Stop = {h1, h2}
    MaxAttempts = 1
    MaxRequest = 2
    MaxGen = 1
    MaxBoot = 2
    MaxCrash = 0
\* The bounds stop it.
CHECK_DEADLOCK FALSE
SPECIFICATION Spec
INVARIANT PastedOnce
INVARIANT RetryIsUntried
INVARIANT NoStaleEffect
INVARIANT CreatedIsKnown
