SPECIFICATION Spec
CONSTANTS
    Users = {alice}
    MaxBalance = 2
    NumOrders = 2
    Orders <- MCOrders
    basic = basic
    pro = pro
    Plans = {pro}
    Payments = {pay1}
    Requests = {req1}
    Scheduler = scheduler
    Price <- MCPrice
    Duration <- MCDuration
    OrderExpiration = 0
    RetryLimit = 2
    PlanStates = {}
    Adjustments <- TopUpAndCorrection
    MaxTime = 1
INVARIANTS BalanceExplained PaidTimeKept
CHECK_DEADLOCK FALSE
