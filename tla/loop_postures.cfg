SPECIFICATION Spec
CONSTANTS
    Steps <- AllSteps
    Tickets <- PostureTickets
    Intakes <- InScopeOnly
    Diagnoses <- SureOnly
    StepBudget = 2
    MaxBatch = 1
    MaxProposals = 3
INVARIANTS
    UnattendedWorkIsReversible
