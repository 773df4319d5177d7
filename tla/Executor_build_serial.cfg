SPECIFICATION Spec
CONSTANTS
  NumStages = 3
  Jobs = 1
  Layers = TRUE
  RemoveIntermediateCtrs = TRUE
  ForceRmIntermediateCtrs = FALSE
  SkipUnusedStages = TRUE
  Containerfiles <- MiddleMayBeEmpty
  MayFail = {0}
  TailMayFail = FALSE
  MayCancel = TRUE
  MaxRebase = 1
INVARIANT ContainersRemoved
INVARIANT SerialSharing
INVARIANT SuccessIsComplete
INVARIANT TokensLostToCancel
PROPERTY Termination
