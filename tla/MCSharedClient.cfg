SPECIFICATION Spec
CONSTANTS
    Threads = {"ann", "bob"}
    MaxWait = 2
    MaxAttempts = 2
    RateLimitRetries = 1
INVARIANTS
    BudgetIsTheLongestWait RefreshesOnce DeniedAfterRefresh DecodedByOwnOrJoined
PROPERTIES
    LimitIsWaitedOut DispatchesEnd
CHECK_DEADLOCK FALSE
