CONSTANTS
  NameOrder <- MCNameOrder
  MaxLoopsFollowed = 3
  MaxFollowedLinks = 2
  PipeSize = 2
  RunWrites <- MCRunWrites
  Scenarios <- VolumeCopies
  MayFail = FALSE
  MayCrash = FALSE
  MayVanish = FALSE
SPECIFICATION Spec
PROPERTIES
  RunKeepsVolumes
