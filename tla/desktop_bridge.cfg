SPECIFICATION Spec
CONSTANTS
    Setups <- Deployments
    Instructions = {"wifi on", "wifi off", "unsupported", "gibberish"}
    MaxSteps = 2
    MaxFaults = 1
INVARIANTS
    ActedOnce
    ReceiptIsTrue
    ActsUnderItsGrant
    FixShowsInTerminal

    
CHECK_DEADLOCK FALSE
