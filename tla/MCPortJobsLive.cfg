SPECIFICATION FairSpec
CONSTANTS
    JobId = {j1, j2, j3}
    Principal = {alice}
    Nobody = Nobody
    MaxConcurrent = 2
    Durable = FALSE
    Faults = {"shutdown", "crash"}
PROPERTY JobsSettle
INVARIANT ActiveRowsAreServed
