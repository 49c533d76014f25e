SPECIFICATION LaneSpec
CONSTANTS
    DispatchExpires = 2
    LeaseDuration = 1
    ReviewBudgets <- BrokeredReview
    none = none
INVARIANT ResolvedReviewReachesPreflight
CHECK_DEADLOCK FALSE
