SPECIFICATION Spec
CONSTANTS
    JobId = {j1, j2, j3}
    Principal = {alice, bob}
    Nobody = Nobody
    MaxConcurrent = 2
    Durable = TRUE
    Faults = {"shutdown", "crash", "store"}
SYMMETRY Interchangeable
INVARIANT TypeOK
INVARIANT TenantIsolation
INVARIANT ResultMatchesStatus
INVARIANT ActiveWithinCap
INVARIANT UndeletedTasksWithinCap
PROPERTY TerminalIsFinal
PROPERTY NoResurrection
PROPERTY ImplementsLifecycle
