SPECIFICATION Spec
CONSTANTS
  Builders <- TwoBuilders
  Machines <- TwoMachines
  ArgValues = {"1", "2"}
  Worlds <- MCWorlds
  b1 = b1
  b2 = b2
  m1 = m1
  m2 = m2
SYMMETRY BuilderSymmetry
INVARIANT CacheTransparent
INVARIANT OneImagePerStep
CHECK_DEADLOCK FALSE
