SPECIFICATION FairSpec
CONSTANTS
    Letters = {l1, l2}
    Sweeps = {s1, s2}
    MaxAttempts = 3
    Backoff <- MCBackoff
    Take = 1
    MaxFaults = 1
INVARIANTS
    TypeOK
    VerdictsAreTrue
    NoMailDropped
PROPERTIES
    EveryLetterIsDecided
CHECK_DEADLOCK FALSE
