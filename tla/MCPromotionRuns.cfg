CONSTANTS
    Candidates = {"c1"}
    DecisionHosts = {"d1"}
    ExecutionHosts = {"x1", "x2"}
    ReconcileHosts = {"r1"}
    RunOf <- OneRun
    Base = "base"
    Foreign = "foreign"
    DispatchExpires = 2
    LeaseDuration = 1
    MaxTime = 2
    MaxPushes = 1
    MaxAppends = 1
    MaxCrashes = 2
SPECIFICATION RunsSpec
INVARIANTS GitEnteredOnce AdvanceIsAuthorised ResultIsTruthful TerminalFollowsSealedResult
    RaceMovesTheBaseOnce
PROPERTIES ImplementsContract RacersSettle
CHECK_DEADLOCK FALSE
