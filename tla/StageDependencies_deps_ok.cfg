SPECIFICATION Spec
CONSTANTS
  NumStages = 3
  MaxNumeral = 3
  Words <- AllWords
  NoWord <- NotGiven
  Files <- PlainFiles
  Contexts <- TwoContexts
  FromOverrides <- Overrides
  LayersOptions = {TRUE, FALSE}
  SkipUnusedStages = TRUE
INVARIANTS
  ReferencesDenote
  UnusedStagesSkipped
  NeedsMarked
PROPERTY BuildEnds
