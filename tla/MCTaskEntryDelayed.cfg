SPECIFICATION FairSpec
CONSTANTS
  Callers = {c1}
  Delayed = TRUE
  MayExpire = FALSE
  MayForce = TRUE
INVARIANT GateNotEarly
 
