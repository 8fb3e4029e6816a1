SPECIFICATION Spec
CONSTANTS
    Workspaces = {w1}
    Handlers = {h1, h2}
    Plans = {starter, growth}
    YearlyPlans = {}
    StarterPlan = starter
    None = None
    Ops = {"otp", "mockInit", "mockConfirm", "reconcile", "fix", "suspend", "entitlements", "cancel"}
    MaxPayments = 2
    MaxDay = 0
    MaxFaults = 0
    SweepLimit = 1
    MonthDays = 1
    YearDays = 2
    GraceDays = 0
    OverdueDays = 1
    SuspendDays = 1
SYMMETRY Symmetry
INVARIANTS
    PlanWasPaidFor
CHECK_DEADLOCK FALSE
