CONSTANTS
    Candidates = {"c1"}
    DecisionHosts = {"d1"}
    ExecutionHosts = {"x1"}
    ReconcileHosts = {}
    RunOf <- OneRun
    Base = "base"
    Foreign = "foreign"
    DispatchExpires = 1
    LeaseDuration = 1
    MaxTime = 1
    MaxPushes = 0
    MaxAppends = 1
    MaxCrashes = 0
SPECIFICATION Spec
INVARIANT CheckpointsAdvance
CHECK_DEADLOCK FALSE
