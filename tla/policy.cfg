SPECIFICATION Spec
CONSTANTS
    Categories = {"destructive", "finance"}
    Rules = {"approve.service-restart", "approve.secret-search"}
INVARIANTS
    AllowIsNarrow
PROPERTIES
    HazardNeverRelaxes
CHECK_DEADLOCK FALSE
