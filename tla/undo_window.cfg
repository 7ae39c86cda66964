SPECIFICATION FairSpec
CONSTANTS
    MaxCommands = 4
    MaxRelays = 3
    MaxFaults = 2
    Changes = {1, 2}
    Guarded = {2}
    MaxUndos = 2
INVARIANTS
    ResultIsItsOwn
    RunsInOrder
    UndoIsOnTheRecord
PROPERTIES
    UndoIsAnswered
CHECK_DEADLOCK FALSE
