SPECIFICATION Spec
CONSTANTS
    Processes = {"api"}
    Calls <- MCCalls
    Host <- OneHost
    TTL = 2
    MaxTime = 4
    MaxRev = 2
    Flaky = TRUE
INVARIANTS BoundedStaleness UpdateSeesOwnWrite
CHECK_DEADLOCK FALSE
