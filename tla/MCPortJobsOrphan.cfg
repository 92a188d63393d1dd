SPECIFICATION FairSpec
CONSTANTS
    JobId = {j1, j2}
    Principal = {alice}
    Nobody = Nobody
    MaxConcurrent = 2
    Durable = TRUE
    Faults = {"shutdown"}
PROPERTY JobsSettle
