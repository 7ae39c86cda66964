SPECIFICATION Spec
CONSTANTS
    Tickets <- TechnicianTickets
    StepBudget = 7
    MaxMishaps = 1
INVARIANTS
    FixFollowsItsFault
    FixIsRechecked
    LettersOwnUp
CHECK_DEADLOCK FALSE
