CONSTANTS
    Jobs = {j1}
    Workers = {w1, w2}
    NoJob = NoJob
    NoWorker = NoWorker
    AttemptLimits = {1, 2}
    MaxCrashes = 0
    MaxCancels = 0
SPECIFICATION Spec
CHECK_DEADLOCK FALSE
INVARIANTS
    OnlyCrashesStopWorkers
