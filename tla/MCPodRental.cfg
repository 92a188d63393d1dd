SPECIFICATION FairSpec
CONSTANTS
    Scripts = {"one_pod", "two_pods"}
    Faults = {"create", "delete", "list"}
    MaxInterrupts = 2
CHECK_DEADLOCK FALSE
INVARIANT LeakIsAnnounced
PROPERTY PodsReturned
