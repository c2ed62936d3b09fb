\* The artifact permits method-changing redirects: 303 turns POST into GET.
SPECIFICATION Spec
CONSTANTS
    home = home
    page = page
    other = other
    Urls = {home, page, other}
    Home = home
    Origin <- MCOrigin
    MaxAttempts = 2
    RateLimitRetries = 1
    MaxRedirects = 2
    AllowMethodChange = TRUE
    SessionCookie = FALSE
    Credentials = {"authorization"}
    MaxRotations = 0
INVARIANT NonIdempotentOnce
