SPECIFICATION Spec
CONSTANTS
  Callers = {c1}
  Delayed = FALSE
  MayExpire = TRUE
  MayForce = FALSE
INVARIANTS SettledOnce TerminalIsClean AlwaysCounted QuietMeansBalanced
PROPERTIES AcceptedNeverRuns
