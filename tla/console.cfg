SPECIFICATION FairSpec
CONSTANTS
    MaxRuns = 2
    MaxTorn = 1
    MaxRemoved = 1
    Browsers = {"technician"}
    MaxDrops = 1
    MaxKept = 1
    MaxEvents = 2
INVARIANTS
    LessonsAreKept
    
    DrawnOnce
PROPERTIES
    RemovedReturns
    
CHECK_DEADLOCK FALSE
