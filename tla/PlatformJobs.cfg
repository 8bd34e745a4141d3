CONSTANTS
    Jobs = {j1}
    Workers = {w1, w2}
    NoJob = NoJob
    NoWorker = NoWorker
    AttemptLimits = {1, 3}
    MaxCrashes = 1
    MaxCancels = 1
SPECIFICATION SupervisedSpec
CHECK_DEADLOCK FALSE
INVARIANTS
    JobsAreSound
    LogReplaysRow
PROPERTIES
    WritesAreMoves
    ImplementsLifecycle
    JobsSettleOrStrand
