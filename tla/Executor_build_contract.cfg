SPECIFICATION Spec
CONSTANTS
  NumStages = 3
  Jobs = 3
  Layers = FALSE
  RemoveIntermediateCtrs = FALSE
  ForceRmIntermediateCtrs = FALSE
  SkipUnusedStages = TRUE
  Containerfiles <- ContractBuilds
  MayFail = {0}
  TailMayFail = FALSE
  MayCancel = FALSE
  MaxRebase = 0
INVARIANT TypeOK
INVARIANT BaseIsStageImage
INVARIANT ContainersRemoved
PROPERTY ImplementsContract
