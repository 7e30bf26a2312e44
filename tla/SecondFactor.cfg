SPECIFICATION Spec
CONSTANTS
    Users = {a}
    NoUser = nobody
    Clients = {a}
    Admins = {a}
    Requests = {r1}
    Operations = {"login", "portalLogin", "verify2FA", "enable2FA", "disable2FA"}
    MaxHash = 1
    MaxSessions = 3
INVARIANTS SecondFactorAnswerable
CHECK_DEADLOCK FALSE
