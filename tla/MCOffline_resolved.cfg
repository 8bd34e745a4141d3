\* Four runs for one symbol whose evidence is corrected to another part, or to another maker
\* of it, between them.  Each of the invariants is violated; TLC stops at the first.
SPECIFICATION Spec
CONSTANTS
  LocalCalls = {}
  RemoteCalls = {}
  Keys = {k1}
  Rebuilders = {}
  Droppers = {}
  Fetchers = {}
  OfflineFetchers = {}
  Acquirers = {}
  People = {}
  Appliers = {}
  Documents = {d1}
  HeldOut = {d1}
  Commands = {c1}
  MaxObjectDamage = 1
  PackBatches = 2
  MaxCallerStarts = 2
  MaxAttempts = 2
  ModelFiles = {config, weights}
  Facets <- MCFacets
  TrainingBatches <- MCBatches
  MaxSteps = 2
  MaxTrainingStarts = 2
  Agent = agent
  MaxVersion = 2
  MaxPackets = 1
  MaxReviews = 1
  PlanFamilies <- MCFamilies
  Registered = {"f0"}
  Answers <- MCAnswers
  MaxFileDamage = 1
  Evidence <- MCEvidence
  Readings <- MCReadings
  MaxRevisions = 2
  MaxRuns = 4
  absent = absent
INVARIANT ResolvedSymbolsMatch
INVARIANT ProvenanceMakersMatch
CHECK_DEADLOCK FALSE
