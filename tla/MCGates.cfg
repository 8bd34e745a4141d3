\* Four calibration cases with four scores; two documents; six ranked cases, one more
\* than the cut-off; four regions in every pair of rankings.
SPECIFICATION GatesSpec
CONSTANTS
  Inputs <- MCInputs
  Unit = 6
  CaseOrder <- Placed
  AllowedRegionTypes <- PackTypes
  MaxRegions <- Regions
  MaxPatches = 2
  MaxVectorValues <- VectorValues
  Parts <- Words
  Lettered <- LetteredWords
  Digited <- DigitedWords
  PackageWords <- Packages
  Lengthy <- LengthyWords
  Bytes <- RunBytes
  Begins <- RunBegins
  Subjects = {"registry", "artifacts", "ledger", "judgments", "policy", "ranking", "cascade",
              "pack", "datasheet", "listing", "benchmark",
              "stream", "regions", "symbol"}
  Scores = {0, 2, 4, 6}
  Regions = 4
  RankedTotal = 6
INVARIANTS
  RegistriesServe
  EvaluationIsHeldOut
  JudgedCasesAreRanked
  PoliciesJudgeTheirDecisions
  ClosedPoolFlatters
  TheBestAreServed
  OffersAreProved
  OnlyListedPartsProve
  ImagesAreFound
  EveryFigureHasARegion
  SymbolsShowTheirTable
