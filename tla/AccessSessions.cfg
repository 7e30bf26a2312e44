SPECIFICATION Spec
CONSTANTS
    Users = {a, b}
    NoUser = nobody
    Clients = {a}
    Admins = {a, b}
    Requests = {r1, r2}
    Operations = {"login", "refresh", "logout", "verify2FA", "enable2FA", "disable2FA", "changePassword", "delete"}
    MaxHash = 2
    MaxSessions = 3
SYMMETRY RequestSymmetry
INVARIANTS AccessTypeOK OneSuccessor SessionProvesPassword
CHECK_DEADLOCK FALSE
