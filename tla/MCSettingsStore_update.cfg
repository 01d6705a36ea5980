SPECIFICATION Spec
CONSTANTS
    Processes = {"api"}
    Calls <- MCCalls
    Host <- OneHost
    TTL = 2
    MaxTime = 2
    MaxRev = 2
    Flaky = TRUE
INVARIANT UpdateReturnsNew
CHECK_DEADLOCK FALSE
