CONSTANTS
  MaxOut = 2
  PipeSize = 1
  MayFail = {"sync", "network", "create", "start", "state", "exec"}
  MaySignal = TRUE
  Requests <- MCRequests
  Protected <- MCProtected
SPECIFICATION Spec
INVARIANTS
  
  ContainerBounded
  CommandEnvironment
PROPERTY
  Returns
