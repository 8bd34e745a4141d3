SPECIFICATION StreamSpec
CONSTANTS
    Writers = {w1}
    NoWriter = NoWriter
    PageLimit = 2
    MaxEvents = 3
    MaxDrops = 1
PROPERTIES
    EveryEventArrives
