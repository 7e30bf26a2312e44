SPECIFICATION FairSpec
CONSTANTS
    Users = {alice}
    MaxBalance = 1
    NumOrders = 2
    Orders <- MCOrders
    basic = basic
    pro = pro
    Plans = {basic}
    Payments = {pay1}
    Requests = {req1}
    Scheduler = scheduler
    Price <- MCPrice
    Duration <- MCDuration
    OrderExpiration = 0
    RetryLimit = 1
    PlanStates = {}
    Adjustments <- NoAdjustment
    MaxTime = 0
PROPERTIES EventuallySynced
CHECK_DEADLOCK FALSE
