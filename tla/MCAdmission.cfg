SPECIFICATION FairSpec
CONSTANTS
    h1 = h1
    h2 = h2
    d1 = d1
    d2 = d2
    d3 = d3
    Hosts = {h1, h2}
    Digests = {d1, d2, d3}
    Witnessed = {d1, d2}
    BatchLimit = 2
    MaxCrashes = 1
    MaxCkpts = 1
    Scenarios <- MCScenarios
    LegacyTapes <- MCLegacyTapes
INVARIANT OneAdmission
PROPERTIES AdmissionIsExact RecordedIsSealed
CHECK_DEADLOCK FALSE
