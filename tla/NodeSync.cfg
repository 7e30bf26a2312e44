SPECIFICATION FairNodeSyncSpec
CONSTANTS
    MaxEvents = 2
    MaxIds = 8
    MaxChanges = 2
    MaxFaults = 1
INVARIANTS NodeSyncTypeOK  SyncedMeansWritten
PROPERTIES NodeCatchesUp
