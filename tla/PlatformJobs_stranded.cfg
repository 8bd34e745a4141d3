CONSTANTS
    Jobs = {j1}
    Workers = {w1, w2}
    NoJob = NoJob
    NoWorker = NoWorker
    AttemptLimits = {1, 2}
    MaxCrashes = 1
    MaxCancels = 0
SPECIFICATION SupervisedSpec
CHECK_DEADLOCK FALSE
PROPERTIES
    JobsSettle
