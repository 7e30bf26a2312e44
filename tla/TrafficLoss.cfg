SPECIFICATION FairSpec
CONSTANTS
    Requests = {r1}
    TrafficLimit = 0
    MaxTraffic = 2
    MaxRecorded = 4
    MaxSlips = 3
PROPERTIES EventuallyReported
