SPECIFICATION Spec
CONSTANTS
  NumStages = 3
  Jobs = 2
  Layers = FALSE
  RemoveIntermediateCtrs = FALSE
  ForceRmIntermediateCtrs = FALSE
  SkipUnusedStages = TRUE
  Containerfiles <- AllContainerfiles
  MayFail = {0}
  TailMayFail = FALSE
  MayCancel = FALSE
  MaxRebase = 0
INVARIANT NoUseAfterCleanup
