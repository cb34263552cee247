CONSTANTS
  MaxTasks = 3
  MaxSteals = 2
  Threshold = 1
  ReturnObservations = 2
  Contended = {}
  MayCancel = FALSE
  Stops = {}
  MayFail = FALSE
  Overlaps = FALSE
SPECIFICATION FairSpec
PROPERTIES EverySettles 
