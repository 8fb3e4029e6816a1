SPECIFICATION Spec
CONSTANTS
    Letters = {l1}
    Sweeps = {s1}
    MaxAttempts = 6
    Backoff <- MCBackoff
    Take = 50
    MaxFaults = 0
INVARIANTS
    WaitsFollowTheTable
CHECK_DEADLOCK FALSE
