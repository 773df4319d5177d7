CONSTANTS
  NameOrder <- MCNameOrder
  MaxLoopsFollowed = 3
  MaxFollowedLinks = 2
  PipeSize = 2
  RunWrites <- MCRunWrites
  Scenarios <- MCScenarios
  MayFail = TRUE
  MayCrash = TRUE
  MayVanish = TRUE
SPECIFICATION Spec
INVARIANTS
  
  NothingLeft
PROPERTIES
  RunKeepsVolumes
  
