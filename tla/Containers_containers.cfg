SPECIFICATION Spec
CONSTANTS
  Procs <- MCProcs
  Images <- MCImages
  Names <- MCNames
  Scenarios <- MCScenarios
  MayFail = TRUE
  MayCrash = {"p", "q"}
INVARIANTS
  StateKept
  
  
  EntriesKept
  BuildPopulates
PROPERTIES
  CommandsEnd
