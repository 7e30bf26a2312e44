SPECIFICATION FairNodeHealthSpec
CONSTANTS
    NumProxies = 2
    SampleSize = 1
    UnhealthyThreshold = 2
    HealthyThreshold = 2
    Worlds <- MCWorlds
    MaxWorlds = 1
INVARIANTS NodeHealthTypeOK StoppedOnlyWithoutToken
PROPERTIES DeadProxyNoticed RecoveredNodeReturns
