\* Two attempts, one 429 retry, two redirects: every budget runs out.
SPECIFICATION FairSpec
CONSTANTS
    home = home
    page = page
    other = other
    Urls = {home, page, other}
    Home = home
    Origin <- MCOrigin
    MaxAttempts = 2
    RateLimitRetries = 1
    MaxRedirects = 2
    AllowMethodChange = FALSE
    SessionCookie = TRUE
    Credentials = {"cookie", "x-csrf-token"}
    MaxRotations = 1
INVARIANTS
    NonIdempotentOnce
    StrippedStayHome
    DeniedOnlyAfterRefresh
    RefreshedTokenIsSent
PROPERTIES
    DispatchEnds
    ImplementsCall
