CONSTANTS
  MaxTasks = 3
  MaxSteals = 2
  Threshold = 1
  ReturnObservations = 2
  Contended = {"target"}
  MayCancel = TRUE
  Stops = {}
  MayFail = FALSE
  Overlaps = FALSE
SPECIFICATION Spec
INVARIANTS NothingStranded 
PROPERTIES ImplementsLane
