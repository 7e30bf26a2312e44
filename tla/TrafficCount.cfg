SPECIFICATION Spec
CONSTANTS
    Requests = {r1, r2}
    TrafficLimit = 2
    MaxTraffic = 3
    MaxRecorded = 4
    MaxSlips = 1
SYMMETRY RequestSymmetry
INVARIANTS TypeOK RecordedOnce NeverOvercounted NothingLost
