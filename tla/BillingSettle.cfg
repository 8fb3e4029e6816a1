SPECIFICATION FairSpec
CONSTANTS
    Workspaces = {w1}
    Handlers = {h1, h2}
    Plans = {starter}
    YearlyPlans = {}
    StarterPlan = starter
    None = None
    Ops = {"otp", "checkout", "webhook", "replay", "verify", "retry", "mockConfirm"}
    MaxPayments = 1
    MaxDay = 1
    MaxFaults = 1
    SweepLimit = 2
    MonthDays = 3
    YearDays = 5
    GraceDays = 1
    OverdueDays = 1
    SuspendDays = 2
INVARIANTS
    SettledWasCharged
    ProcessedWasSettled
PROPERTIES
    ImplementsLedger
CHECK_DEADLOCK FALSE
