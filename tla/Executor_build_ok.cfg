SPECIFICATION Spec
CONSTANTS
  NumStages = 3
  Jobs = 2
  Layers = FALSE
  RemoveIntermediateCtrs = FALSE
  ForceRmIntermediateCtrs = TRUE
  SkipUnusedStages = FALSE
  Containerfiles <- AllContainerfiles
  MayFail = {}
  TailMayFail = TRUE
  MayCancel = FALSE
  MaxRebase = 0
INVARIANT NoUseAfterCleanup
INVARIANT JobsBound
INVARIANT FinalImageKept
