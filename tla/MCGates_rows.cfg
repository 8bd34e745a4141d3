\* Listings of up to three rows whose rows begin with their number or the manufacturer.
SPECIFICATION GatesSpec
CONSTANTS
  Inputs <- MCInputs
  Unit = 6
  CaseOrder <- Placed
  AllowedRegionTypes <- PackTypes
  MaxRegions <- Regions
  MaxPatches = 2
  MaxVectorValues <- VectorValues
  Parts <- Words
  Lettered <- LetteredWords
  Digited <- DigitedWords
  PackageWords <- Packages
  Lengthy <- LengthyWords
  Bytes <- RunBytes
  Begins <- RunBegins
  Subjects = {"listing"}
  Scores = {0}
  Regions = 1
  RankedTotal = 1
INVARIANT AdjacentRowsAreNotCombined
