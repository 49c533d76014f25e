CONSTANTS
    ActionRequests <- MCActionRequests
    Keys = {"k1", "k2"}
    Activities = {"a1", "a2"}
    Durations = {2, 4}
    HeartbeatIds = {"h1", "h2"}
    Evidence = {"e1"}
    TicksPerMs = 2
    MaxTime = 8
    Sessions = {"s1", "s2"}
    Governed = {"s1"}
    Runs = {"r1", "r2"}
    BoundRun = "r1"
    MaxStarts = 2
    MaxAnswers = 3
SPECIFICATION ActivitySpec
INVARIANTS
    OneLeasePerActivity
    TapeIsTheRecord
    AnswersAreSealed
PROPERTIES
    ImplementsEffectLease
    DispositionsStand
CHECK_DEADLOCK FALSE
