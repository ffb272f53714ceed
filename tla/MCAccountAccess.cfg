\* Two administrative calls and two requests at a time; one idempotency key.
SPECIFICATION Spec
CONSTANTS
    c1 = c1
    c2 = c2
    q1 = q1
    q2 = q2
    Calls = {c1, c2}
    Callers = {q1, q2}
    Keys = {"k1"}
    Terms = {"t1", "t2"}
    Scopes <- MCScopes
    Expiry <- MCExpiry
    RecoveryTtl = 1
    Workloads <- MCWorkloads
    Buckets = {"request", "request-burst", "payment:create", "rail"}
    Window <- MCWindow
    Limit <- MCLimit
    Retention = 3
    MaxStall = 1
    MaxTime = 4
    Routes <- MCRoutes
    Dependencies = {"rail"}
SYMMETRY Symmetric
INVARIANTS
    OneSuccessor
    SecretsAccountedFor
    RecoveredOnce
    WithinLimit
    BarredIsNotServed
CHECK_DEADLOCK FALSE
