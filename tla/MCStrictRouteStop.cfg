CONSTANTS
  MaxTasks = 2
  MaxSteals = 1
  Threshold = 1
  ReturnObservations = 1
  Contended = {"source"}
  MayCancel = TRUE
  Stops = {"graceful", "force"}
  MayFail = TRUE
  Overlaps = FALSE
SPECIFICATION Spec
PROPERTIES ImplementsLane
CHECK_DEADLOCK FALSE
