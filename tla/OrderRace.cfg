SPECIFICATION Spec
CONSTANTS
    Users = {alice}
    MaxBalance = 3
    NumOrders = 1
    Orders <- MCOrders
    basic = basic
    pro = pro
    Plans = {pro}
    Payments = {pay1, pay2}
    Requests = {req1, req2}
    Scheduler = scheduler
    Price <- MCPrice
    Duration <- MCDuration
    OrderExpiration = 1
    RetryLimit = 1
    PlanStates = {"inactive", "deleted"}
    Adjustments <- TopUp
    MaxTime = 2
INVARIANTS TypeOK PaidOnce RefundedOnce SyncedMeansProvisioned
PROPERTIES PaymentKept KeepsPromise
CHECK_DEADLOCK FALSE
