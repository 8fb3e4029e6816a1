SPECIFICATION Spec
CONSTANTS
    Workspaces = {w1}
    Handlers = {h1, h2}
    Plans = {starter}
    YearlyPlans = {}
    StarterPlan = starter
    None = None
    Ops = {"otp", "checkout", "webhook", "dunning"}
    MaxPayments = 2
    MaxDay = 2
    MaxFaults = 0
    SweepLimit = 2
    MonthDays = 3
    YearDays = 5
    GraceDays = 0
    OverdueDays = 1
    SuspendDays = 2
SYMMETRY Symmetry
INVARIANT SuspendedCanPay
CHECK_DEADLOCK FALSE
