SPECIFICATION FairSpec
CONSTANTS
    Jobs = {j1, j2, j3}
    NoOne = NoOne
    MaxKills = 1
    MaxFailures = 1
    MaxDecays = 2
CHECK_DEADLOCK FALSE
INVARIANTS
    PacksAreSound
PROPERTIES
    EveryJobEnds
