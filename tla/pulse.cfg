SPECIFICATION FairSpec
CONSTANTS
    Fleets <- SmallFleets
    HistoryLimit = 1
    Callers = {"console", "portal"}
    MaxRuns = 2
    MaxStarts = 2
INVARIANTS
    OneMachineAtATime
    ReportIsWhole
    
PROPERTIES
    StoppedIsQuiet
    CheckIsAnswered
CHECK_DEADLOCK FALSE
