SPECIFICATION ReviewSpec
CONSTANTS
    u1 = u1
    u2 = u2
    u3 = u3
    s1 = s1
    s2 = s2
    Units = {u1, u2, u3}
    Plans <- OnlyClash
    Sessions = {s1}
    Provisional = Provisional
    Bindings = {Provisional, s1}
    Procs = {p1}
    None = None
    Good = {1}
    Outcomes = {"completed", "failed", "cancelled"}
    MaxParallel = 3
    ClaimLimits = {1, 3}
    MaxAttempts = 1
    MaxRevision = 3
    MaxEdits = 2
    MaxSerial = 2
    MaxEpoch = 1
    MaxTurns = 1
    MaxBinding = 1
    MaxInputs = 1
    MaxFaults = 1
INVARIANTS AcceptedIsGood PromptedOnce
PROPERTIES GokiEnds OutboxSettles
CHECK_DEADLOCK FALSE
