SPECIFICATION Spec
CONSTANTS
    Jobs = {j1, j2}
    NoOne = NoOne
    MaxKills = 0
    MaxFailures = 0
    MaxDecays = 0
CHECK_DEADLOCK FALSE
INVARIANTS
    OnlyInvalidFails
