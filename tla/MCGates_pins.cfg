\* Tables of four and five lines.
SPECIFICATION GatesSpec
CONSTANTS
  Inputs <- MCInputs
  Unit = 6
  CaseOrder <- Placed
  AllowedRegionTypes <- PackTypes
  MaxRegions <- Regions
  MaxPatches = 2
  MaxVectorValues <- VectorValues
  Parts <- Words
  Lettered <- LetteredWords
  Digited <- DigitedWords
  PackageWords <- Packages
  Lengthy <- LengthyWords
  Bytes <- RunBytes
  Begins <- RunBegins
  Subjects = {"symbol"}
  Scores = {0}
  Regions = 1
  RankedTotal = 1
INVARIANT EveryPinIsRead
