\* The clock ticks in half milliseconds.
CONSTANTS
    ActionRequests <- MCActionRequests
    Keys = {"k1", "k2"}
    Activities = {"a1", "a2"}
    Durations = {2, 4}
    HeartbeatIds = {"h1", "h2"}
    Evidence = {"e1"}
    TicksPerMs = 2
    MaxTime = 8
SPECIFICATION Spec
INVARIANTS
    ResultsReplay
CHECK_DEADLOCK FALSE
