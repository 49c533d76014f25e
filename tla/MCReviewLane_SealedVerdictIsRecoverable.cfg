SPECIFICATION LaneSpec
CONSTANTS
    DispatchExpires = 2
    LeaseDuration = 1
    ReviewBudgets <- RetriedReview
    none = none
INVARIANT SealedVerdictIsRecoverable
CHECK_DEADLOCK FALSE
