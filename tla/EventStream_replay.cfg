SPECIFICATION FairSpec
CONSTANTS
    Writers = {w1, w2}
    NoWriter = NoWriter
    PageLimit = 2
    MaxEvents = 4
    MaxDrops = 2
INVARIANTS
    DeliveredIsReplay
PROPERTIES
    EveryEventArrives
