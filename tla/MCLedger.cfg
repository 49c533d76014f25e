CONSTANTS
    Writers = {"w1", "w2"}
    Deployments <- MCDeployments
    Cadence = 2
    MaxId = 6
    MaxCrashes = 2
    Ops = {"emit", "control", "flush", "close"}
    HighWatermark = 1
    PipeCapacity = 1
    MaxCalls = 3
SPECIFICATION LedgerSpec
CHECK_DEADLOCK FALSE
INVARIANTS  LostAnswerEndsSession
PROPERTIES ChainIntact CadenceHeals ImplementsLog EveryWaitSettles
