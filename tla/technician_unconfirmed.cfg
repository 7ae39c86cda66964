SPECIFICATION Spec
CONSTANTS
    Tickets <- DesktopTickets
    StepBudget = 12
    MaxMishaps = 2
INVARIANT
    ResolvedIsConfirmed
CHECK_DEADLOCK FALSE
