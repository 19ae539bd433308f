CONSTANTS
    ann = ann
    bob = bob
    h1 = h1
    h2 = h2
    Emails = {ann, bob}
    Ips = {"ip"}
    NoIp = "unknown"
    Handlers = {h1, h2}
    Window = 1
    VerifyTtl = 1
    SessionTtl = 1
    MaxFailedPerEmail = 1
    MaxFailedPerIp = 2
    MaxClock = 1
    MaxAttempts = 2
SPECIFICATION Spec
INVARIANTS TypeOK BudgetHolds VerifiedOnce SessionsRecorded
SYMMETRY Symmetry
CHECK_DEADLOCK FALSE
