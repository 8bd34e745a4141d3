\* A few callers of each component, as many as its races need: two writers of one
\* object key per backend, two rebuilds and a drop, three downloads of one artifact and
\* two of one model, two applications of reviews, three runs for one symbol.
SPECIFICATION Spec
CONSTANTS
  LocalCalls = {l1, l2}
  RemoteCalls = {s1, s2}
  Keys = {k1}
  Rebuilders = {a, b}
  Droppers = {d}
  Fetchers = {f1, f2}
  OfflineFetchers = {f2}
  Acquirers = {m1, m2}
  People = {p, q}
  Appliers = {w1, w2}
  Documents = {d1, d2}
  HeldOut = {d1}
  Commands = {c1, c2}
  MaxObjectDamage = 1
  PackBatches = 2
  MaxCallerStarts = 2
  MaxAttempts = 2
  ModelFiles = {config, weights}
  Facets <- MCFacets
  TrainingBatches <- MCBatches
  MaxSteps = 2
  MaxTrainingStarts = 2
  Agent = agent
  MaxVersion = 2
  MaxPackets = 1
  MaxReviews = 1
  PlanFamilies <- MCFamilies
  Registered = {"f0"}
  Answers <- MCAnswers
  MaxFileDamage = 1
  Evidence <- MCEvidence
  Readings <- MCReadings
  MaxRevisions = 2
  MaxRuns = 3
  absent = absent
INVARIANTS
  ReturnedReferencesResolve
  RebuildRestoresTheIndex
  CheckpointsAreUntainted
  LatestNamesACheckpoint
  SourcesServeOnce
  VerifiedSlicesAgree
PROPERTIES
  OnlyPinnedBytesAreAccepted
  OneModelIsInstalled
  ReviewsAreAttested
  SealedBytesAreWhole
\* Commands end, and people stop editing.
CHECK_DEADLOCK FALSE
