SPECIFICATION Spec
CONSTANTS
    Steps <- FreezeSteps
    Tickets <- FreezeTickets
    Intakes <- InScopeOnly
    Diagnoses <- SureOnly
    StepBudget = 3
    MaxBatch = 2
    MaxProposals = 3
INVARIANTS
    EveryActionIsReported
    BudgetPacesProposals
    ResolvedIsClean
    FrozenRunIsHandedOver
PROPERTIES
    DeviceIsGoverned
