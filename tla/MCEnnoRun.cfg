SPECIFICATION Spec
CONSTANTS
    u1 = u1
    u2 = u2
    u3 = u3
    s1 = s1
    s2 = s2
    Units = {u1, u2, u3}
    Plans <- ForkAndClash
    Sessions = {s1, s2}
    Provisional = Provisional
    Bindings = {Provisional, s1}
    Procs = {p1, p2}
    None = None
    Good = {0, 1}
    Outcomes = {}
    MaxParallel = 3
    ClaimLimits = {1, 3}
    MaxAttempts = 1
    MaxRevision = 3
    MaxEdits = 0
    MaxSerial = 2
    MaxEpoch = 1
INVARIANTS WorkAdvances LeasesFollowThePlan
PROPERTIES SupersededNeverReports
SYMMETRY Symmetry
CHECK_DEADLOCK FALSE
