CONSTANTS
    Candidates = {"c1"}
    DecisionHosts = {"d1"}
    ExecutionHosts = {"x1"}
    ReconcileHosts = {}
    RunOf <- OneRun
    Base = "base"
    Foreign = "foreign"
    DispatchExpires = 1
    LeaseDuration = 1
    MaxTime = 1
    MaxPushes = 0
    MaxAppends = 0
    MaxCrashes = 1
SPECIFICATION FairSpec
PROPERTY DecisionIsSealed
CHECK_DEADLOCK FALSE
