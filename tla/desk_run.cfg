SPECIFICATION FairSpec
CONSTANT
    MaxRequests = 3
INVARIANTS
    PendingIsTimed
    ApprovalsAreAnnounced
    HandoverStands
    
    StrayAnswerWasOvertaken

    
