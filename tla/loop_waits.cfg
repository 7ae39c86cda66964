SPECIFICATION FairSpec
CONSTANTS
    Steps <- QuestionSteps
    Tickets <- WaitTickets
    Intakes <- SomeIntakes
    Diagnoses <- SomeDiagnoses
    StepBudget = 2
    MaxBatch = 2
    MaxProposals = 3
INVARIANTS
    NoRunEndsWaiting
PROPERTIES
    NoIsFinal
    StopIsFinal
    UnfrozenRunEnds
