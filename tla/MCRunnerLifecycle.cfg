CONSTANTS
    s1 = s1
    s2 = s2
    Slots <- TwoSlots
    Home <- OneBusy
    MaxTasks = 2
    Controllers = {"stop", "failure"}
    StopInStart = FALSE
SPECIFICATION FairSpec
CHECK_DEADLOCK FALSE
INVARIANTS
    ExitIsFinal
    
PROPERTIES
    EveryTaskEnds
    ForceConverges
