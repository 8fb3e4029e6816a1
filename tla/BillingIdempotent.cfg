SPECIFICATION Spec
CONSTANTS
    Workspaces = {w1}
    Handlers = {h1, h2}
    Plans = {starter}
    YearlyPlans = {}
    StarterPlan = starter
    None = None
    Ops = {"otp", "checkout", "webhook", "verify"}
    MaxPayments = 1
    MaxDay = 2
    MaxFaults = 0
    SweepLimit = 2
    MonthDays = 3
    YearDays = 5
    GraceDays = 0
    OverdueDays = 1
    SuspendDays = 2
SYMMETRY Symmetry
PROPERTY SettlementIsIdempotent
CHECK_DEADLOCK FALSE
