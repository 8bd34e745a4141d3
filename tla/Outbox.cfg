SPECIFICATION FairSpec
CONSTANTS
    Dispatchers = {p1, p2}
    NoOne = NoOne
    Messages = {1, 2}
    BatchLimit = 2
    MaxFaults = 1
    MaxStops = 1
    MaxLapses = 1
INVARIANTS
    PublicationsHaveCauses
PROPERTIES
    DispatchersDeliverAndStop
