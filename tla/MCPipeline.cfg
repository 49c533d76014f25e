SPECIFICATION PipelineSpec
CONSTANTS
    Contract <- MCContract
    DispatchExpires = 2
    LeaseDuration = 1
    Budgets <- MCBudgets
    ReviewBudgets <- MCReviewBudgets
    none = none
INVARIANTS EffectEnteredOnce CandidateIsTheExecutedTree AcceptanceIsGrounded SuccessIsProved ReviewIsEarned
    HostsStayOpen AnswersAreOwn
PROPERTIES EveryRequestEnds EveryExchangeEnds
CHECK_DEADLOCK FALSE
