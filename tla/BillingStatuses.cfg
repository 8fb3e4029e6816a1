SPECIFICATION Spec
CONSTANTS
    Workspaces = {w1}
    Handlers = {h1, h2}
    Plans = {starter}
    YearlyPlans = {}
    StarterPlan = starter
    None = None
    Ops = {"otp", "checkout", "webhook", "set", "retry", "dunning", "guard", "reconcile", "expiry", "activate"}
    MaxPayments = 1
    MaxDay = 2
    MaxFaults = 0
    SweepLimit = 1
    MonthDays = 1
    YearDays = 2
    GraceDays = 0
    OverdueDays = 1
    SuspendDays = 1
SYMMETRY Symmetry
INVARIANTS
    TypeOK
    StatusesPaired
    ActiveWasPaidFor
    PaidAccessEnds
CHECK_DEADLOCK FALSE
