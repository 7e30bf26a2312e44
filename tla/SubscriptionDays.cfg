SPECIFICATION SubscriptionSpec
CONSTANTS
    basic = basic
    pro = pro
    NoPlan = NoPlan
    Plans <- MCPlans
    Price <- MCPrice
    Duration <- MCDuration
    Requests = {r1, r2}
    TicksPerDay = 2
    MaxDuration = 1
    MaxPerCycle = 1
    CycleDays = 1
    Balance = 0
    MaxTime = 2
    MaxBuys = 2
    MaxPauses = 1
    MaxOffSale = 1
SYMMETRY RequestSymmetry
INVARIANTS SubscriptionTypeOK DaysNotLost DaysNotGained PaidPlanServed
