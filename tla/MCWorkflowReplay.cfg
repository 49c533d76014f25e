CONSTANTS
    none = none
    MaxEvents = 27
    MaxRows = 3
    Scenarios <- MCScenarios
SPECIFICATION RunsSpec
CHECK_DEADLOCK FALSE
INVARIANTS
    PromotionIsEarned
    ReviewsAreIndependent
    EvidenceAddsUp
    EndsAreClean
    DispatchIsEarned
    PendingWorkIsComplete
    CompletionIsProved
PROPERTIES
    ClosedStaysClosed
    RecoveryAnswersStand
    CacheTellsTheTape
