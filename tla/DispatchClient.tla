----------------------------- MODULE DispatchClient -----------------------------
(***************************************************************************)
(* DispatchClient (dispatch/client.py): one thread dispatches operations   *)
(* one after the other through one client, against a provider that may     *)
(* answer anything at any time.                                            *)
(*                                                                         *)
(* One dispatch is the loop of _with_retry around the loop of              *)
(* _send_with_redirects.  The model keeps every branch of the two loops:   *)
(* transient failures and their attempt budget, 429 and its own budget,    *)
(* redirects with their limit, loop check, method rule and dropped headers,*)
(* and the one CSRF refresh of a session_cookie connection.                *)
(*                                                                         *)
(* Statuses are classes, methods are classes ("GET" for GET and HEAD,      *)
(* "PUT" for PUT, DELETE and OPTIONS, "POST" for POST and PATCH; a body    *)
(* travels with its method), CSRF tokens are generations (0: the captured  *)
(* cookie's).  Delays, header values, body formats and messages are left   *)
(* out; waiting for the rate budget changes nothing when one thread        *)
(* dispatches.                                                             *)
(***************************************************************************)
EXTENDS Naturals

CONSTANTS
    Urls,              \* wire URLs a redirect chain can name
    Home,              \* the URL built from the operation
    Origin,            \* Origin[u]: host and port of u
    MaxAttempts,       \* op.retry.max_attempts (DEFAULT_MAX_ATTEMPTS)
    RateLimitRetries,  \* DEFAULT_RATE_LIMIT_RETRIES
    MaxRedirects,      \* MAX_REDIRECTS
    AllowMethodChange, \* dispatch.allow_method_changing_redirects
    SessionCookie,     \* session_cookie with a csrf_token.refresh_url
    Credentials,       \* names, in lower case, of the headers the method sets
    MaxRotations       \* bound: how often the provider rotates the CSRF token

ASSUME UrlsAssumption == Home \in Urls
ASSUME BudgetsAssumption ==
    /\ MaxAttempts \in Nat \ {0}
    /\ RateLimitRetries \in Nat
    /\ MaxRedirects \in Nat
    /\ MaxRotations \in Nat
ASSUME FlagsAssumption == AllowMethodChange \in BOOLEAN /\ SessionCookie \in BOOLEAN

VARIABLES
    pc,         \* "idle", "sending", "answered" or "refreshing"
    op,         \* the operation: [method, idempotent]
    attempt,    \* iterations of the retry loop so far
    rateLeft,   \* rate_limit_retries_remaining
    walk,       \* _send_with_redirects: [method, url, headers, seen, hops]
    token,      \* generation of the CSRF token in the request's headers
    csrf,       \* _csrf_state
    refreshed,  \* _csrf_refreshed_this_call
    reply,      \* what came back for the last request
    result,     \* how the last dispatch ended
    live,       \* the provider's current CSRF token
    applied,    \* how often the operation took effect: 0, 1, 2 for more
    followed,   \* history: redirects followed
    refreshes,  \* history: CSRF refreshes that succeeded
    refreshFailed \* history: a CSRF refresh failed

providerVars == <<live, applied>>
historyVars == <<followed, refreshes, refreshFailed>>
vars == <<pc, op, attempt, rateLeft, walk, token, csrf, refreshed, reply, result,
          providerVars, historyVars>>

--------------------------------------------------------------------------------

Methods == {"GET", "PUT", "POST"}
Operations == [method : Methods, idempotent : BOOLEAN]

\* _idempotent_method
Retryable(o) == o.method \in {"GET", "PUT"} \/ o.idempotent

Redirects == {"moved", "see_other", "same_method"}

Replies ==
    {"none",
     "ok",            \* 2xx that decodes
     "undecodable",   \* 2xx whose body, or 3xx whose Location, raises
     "logical",       \* 2xx that matches the failure_predicate
     "limited",       \* 429, Retry-After absent or within the cap
     "limited_long",  \* 429, Retry-After above the cap
     "server",        \* 5xx
     "lost",          \* httpx.HTTPError: timeout, transport, unusable redirect
     "denied",        \* 401, 403, 419
     "client",        \* other 4xx
     "other"}         \* 1xx, 304 and the like
    \cup Redirects    \* 301 and 302, 303, 307 and 308

Results == {"none", "success", "logical", "rate_limited", "upstream_error",
            "denied", "rejected", "raised"}

\* The credential headers that a change of origin takes off the request.
Stripped == {"authorization", "x-api-key", "cookie"}

\* Of the headers, walk has those that carry a credential.
FirstRequest(o) ==
    [method |-> o.method, url |-> Home, headers |-> Credentials, seen |-> {}, hops |-> 0]

WalkType == [method : Methods, url : Urls, headers : SUBSET Credentials,
             seen : SUBSET Urls, hops : 0..MaxRedirects]

\* May the chain go on from this redirect? Every "no" is an HTTPError.
MayFollow ==
    /\ walk.url \notin walk.seen
    /\ walk.hops < MaxRedirects
    /\ walk.method = "GET" \/ AllowMethodChange \/ reply = "same_method"

\* The two except clauses and the 5xx branch treat these alike.
TransientFailure ==
    \/ reply \in {"server", "lost"}
    \/ reply \in Redirects /\ ~MayFollow

--------------------------------------------------------------------------------

TypeOK ==
    /\ pc \in {"idle", "sending", "answered", "refreshing"}
    /\ op \in Operations
    /\ attempt \in Nat
    /\ rateLeft \in 0..RateLimitRetries
    /\ walk \in WalkType
    /\ token \in 0..MaxRotations
    /\ csrf \in 0..MaxRotations
    /\ refreshed \in BOOLEAN
    /\ reply \in Replies
    /\ result \in Results
    /\ live \in 0..MaxRotations
    /\ applied \in 0..2
    /\ followed \in Nat
    /\ refreshes \in Nat
    /\ refreshFailed \in BOOLEAN

Init ==
    /\ pc = "idle"
    /\ op \in Operations
    /\ attempt = 0
    /\ rateLeft = RateLimitRetries
    /\ walk = FirstRequest(op)
    /\ token = 0
    /\ csrf = 0
    /\ refreshed = FALSE
    /\ reply = "none"
    /\ result = "none"
    /\ live = 0
    /\ applied = 0
    /\ followed = 0
    /\ refreshes = 0
    /\ refreshFailed = FALSE

--------------------------------------------------------------------------------
(* The provider *)

\* Whether a reply tells that the request took effect.
Effects(r) ==
    CASE r \in {"ok", "see_other"} -> {TRUE}
      [] r \in {"undecodable", "server", "lost"} -> BOOLEAN
      [] OTHER -> {FALSE}

\* The provider (or the network) answers the request in flight. Only a
\* request with the operation's own method and body carries its effect.
Answer ==
    /\ pc = "sending"
    /\ \E r \in Replies \ {"none"} : \E effect \in Effects(r) :
        /\ reply' = r
        /\ applied' = IF effect /\ walk.method = op.method
                        THEN (IF applied = 0 THEN 1 ELSE 2) ELSE applied
    /\ pc' = "answered"
    /\ UNCHANGED <<op, attempt, rateLeft, walk, token, csrf, refreshed, result,
                   live, historyVars>>

RotateToken ==
    /\ SessionCookie
    /\ live < MaxRotations
    /\ live' = live + 1
    /\ UNCHANGED <<pc, op, attempt, rateLeft, walk, token, csrf, refreshed, reply,
                   result, applied, historyVars>>

--------------------------------------------------------------------------------
(* The client *)

\* Mutant: the once-per-dispatch flag is not reset.
Start_KeepsFlag(o) ==
    /\ pc = "idle"
    /\ pc' = "sending"
    /\ op' = o
    /\ attempt' = 1
    /\ rateLeft' = RateLimitRetries
    /\ walk' = FirstRequest(o)
    /\ token' = csrf
    /\ reply' = "none"
    /\ result' = "none"
    /\ applied' = 0
    /\ followed' = 0 /\ refreshes' = 0 /\ refreshFailed' = FALSE
    /\ UNCHANGED <<csrf, refreshed, live>>

\* dispatch and _dispatch_one: per-dispatch state is reset, auth applied.
Start(o) ==
    /\ pc = "idle"
    /\ pc' = "sending"
    /\ op' = o
    /\ attempt' = 1
    /\ rateLeft' = RateLimitRetries
    /\ walk' = FirstRequest(o)
    /\ token' = csrf
    /\ refreshed' = FALSE
    /\ reply' = "none"
    /\ result' = "none"
    /\ applied' = 0
    /\ followed' = 0 /\ refreshes' = 0 /\ refreshFailed' = FALSE
    /\ UNCHANGED <<csrf, live>>

\* An exception before the first request: a URL that is not HTTPS, a missing
\* parameter, a credential that does not resolve.
StartRaises(o) ==
    /\ pc = "idle"
    /\ op' = o
    /\ refreshed' = FALSE
    /\ result' = "raised"
    /\ applied' = 0
    /\ followed' = 0 /\ refreshes' = 0 /\ refreshFailed' = FALSE
    /\ UNCHANGED <<pc, attempt, rateLeft, walk, token, csrf, reply, live>>

\* Mutant: a chain that comes home gets its credentials back.
NextRequest_Restores(to) ==
    [method  |-> IF reply = "see_other" THEN "GET" ELSE walk.method,
     url     |-> to,
     headers |-> IF Origin[to] = Origin[Home] THEN Credentials
                 ELSE walk.headers \ Stripped,
     seen    |-> walk.seen \cup {walk.url},
     hops    |-> walk.hops + 1]

\* Where 303 leads, and which headers survive a change of origin: all but three,
\* so that a CSRF header, an api_key_header of another name or a signature stays.
NextRequest(to) ==
    [method  |-> IF reply = "see_other" THEN "GET" ELSE walk.method,
     url     |-> to,
     headers |-> IF Origin[to] = Origin[walk.url] THEN walk.headers
                 ELSE walk.headers \ Stripped,
     seen    |-> walk.seen \cup {walk.url},
     hops    |-> walk.hops + 1]

Follow ==
    /\ pc = "answered"
    /\ reply \in Redirects
    /\ MayFollow
    /\ \E to \in Urls : walk' = NextRequest(to)
    /\ followed' = followed + 1
    /\ pc' = "sending"
    /\ UNCHANGED <<op, attempt, rateLeft, token, csrf, refreshed, reply, result,
                   providerVars, refreshes, refreshFailed>>

\* "continue": the next iteration walks the chain from its start again.
Again ==
    /\ attempt' = attempt + 1
    /\ walk' = FirstRequest(op)
    /\ pc' = "sending"

\* Mutant: the operation's idempotency is forgotten.
RetryTransient_Always ==
    /\ pc = "answered"
    /\ TransientFailure
    /\ attempt < MaxAttempts
    /\ Again
    /\ UNCHANGED <<op, rateLeft, token, csrf, refreshed, reply, result,
                   providerVars, followed, refreshes, refreshFailed>>
RetryTransient ==
    /\ pc = "answered"
    /\ TransientFailure
    /\ Retryable(op)
    /\ attempt < MaxAttempts
    /\ Again
    /\ UNCHANGED <<op, rateLeft, token, csrf, refreshed, reply, result,
                   providerVars, followed, refreshes, refreshFailed>>

\* 429 within the cap is retried whatever the method, on its own budget.
RetryLimited ==
    /\ pc = "answered"
    /\ reply = "limited"
    /\ rateLeft > 0
    /\ rateLeft' = rateLeft - 1
    /\ Again
    /\ UNCHANGED <<op, token, csrf, refreshed, reply, result, providerVars, historyVars>>

\* _session_cookie_csrf_refresh_attempt gets past its early returns.
MayRefresh == SessionCookie /\ ~refreshed

BeginRefresh ==
    /\ pc = "answered"
    /\ reply = "denied"
    /\ MayRefresh
    /\ pc' = "refreshing"
    /\ UNCHANGED <<op, attempt, rateLeft, walk, token, csrf, refreshed, reply, result,
                   providerVars, historyVars>>

\* Mutant: the retry goes out with the old headers.
RefreshToken_OldHeaders ==
    /\ pc = "refreshing"
    /\ csrf' = live
    /\ refreshed' = TRUE
    /\ refreshes' = refreshes + 1
    /\ Again
    /\ UNCHANGED <<op, rateLeft, token, reply, result, providerVars, followed,
                   refreshFailed>>

\* The fresh token reaches the headers through a second _apply_auth.
RefreshToken ==
    /\ pc = "refreshing"
    /\ csrf' = live
    /\ refreshed' = TRUE
    /\ token' = live
    /\ refreshes' = refreshes + 1
    /\ Again
    /\ UNCHANGED <<op, rateLeft, reply, result, providerVars, followed,
                   refreshFailed>>

Return(r) ==
    /\ result' = r
    /\ pc' = "idle"
    /\ UNCHANGED <<op, attempt, rateLeft, walk, token, csrf, refreshed, reply,
                   providerVars, followed, refreshes>>

\* Mutant: a failed refresh does not end the dispatch.
RefreshFails_TriesAgain ==
    /\ pc = "refreshing"
    /\ refreshFailed' = TRUE
    /\ pc' = "answered"
    /\ UNCHANGED <<op, attempt, rateLeft, walk, token, csrf, refreshed, reply, result,
                   providerVars, followed, refreshes>>
RefreshFails ==
    /\ pc = "refreshing"
    /\ refreshFailed' = TRUE
    /\ Return("denied")

\* The second _apply_auth raises after the refresh succeeded.
ReapplyRaises ==
    /\ pc = "refreshing"
    /\ csrf' = live
    /\ refreshed' = TRUE
    /\ refreshes' = refreshes + 1
    /\ result' = "raised"
    /\ pc' = "idle"
    /\ UNCHANGED <<op, attempt, rateLeft, walk, token, reply, providerVars,
                   followed, refreshFailed>>

\* Every path on which _with_retry returns or lets an exception out.
Verdict ==
    [ok |-> "success", undecodable |-> "raised", logical |-> "logical",
     limited |-> "rate_limited", limited_long |-> "rate_limited",
     denied |-> "denied", client |-> "rejected", other |-> "upstream_error"]

Surface ==
    /\ pc = "answered"
    /\ reply \in DOMAIN Verdict
    /\ reply = "limited" => rateLeft = 0
    /\ reply = "denied" => ~MayRefresh
    /\ Return(Verdict[reply])
    /\ UNCHANGED refreshFailed

GiveUp ==
    /\ pc = "answered"
    /\ TransientFailure
    /\ ~Retryable(op) \/ attempt >= MaxAttempts
    /\ Return("upstream_error")
    /\ UNCHANGED refreshFailed

Client ==
    \/ Follow
    \/ RetryTransient
    \/ RetryLimited
    \/ BeginRefresh
    \/ Surface
    \/ GiveUp

\* What follows the request to the refresh URL.
RefreshAnswer == RefreshToken \/ RefreshFails \/ ReapplyRaises

Next ==
    \/ \E o \in Operations : Start(o) \/ StartRaises(o)
    \/ Answer
    \/ Client
    \/ RefreshAnswer
    \/ RotateToken

Spec == Init /\ [][Next]_vars

\* The client's thread runs, and each request of _send_with_redirects is given
\* a timeout, which is an answer ("lost").  httpx bounds each wait by it and not
\* their sum: a body that trickles in for ever is excluded here.  The request to
\* the refresh URL is given none (client.py:264, transport.py:108): nobody owes
\* RefreshAnswer.
Fairness == WF_vars(Client) /\ WF_vars(Answer)

FairSpec == Spec /\ Fairness

--------------------------------------------------------------------------------
(* Properties *)

\* An operation that is not retryable takes effect at most once, through
\* every mix of transport failures, 5xx, 429, CSRF retries and redirects
\* (client.py:497, 529, 549, 585-600). The negation of this is a doubled
\* payment.
NonIdempotentOnce == ~Retryable(op) => applied <= 1

\* The caller of such an operation can trust a rejection: a 4xx verdict says
\* that nothing took effect, even after 429 and CSRF retries (client.py:564,
\* 603-614).
RejectionMeansUntouched ==
    ~Retryable(op) /\ result \in {"rate_limited", "denied", "rejected", "logical"}
        => applied = 0

\* The retry loop is bounded by the three budgets together, although one
\* counter serves all of them (client.py:500-504, 562-584, 603-613).
AttemptsBounded == attempt <= MaxAttempts + RateLimitRetries + 1

\* No mix of retries makes the wire traffic of one dispatch unbounded: a
\* walk follows at most MaxRedirects redirects (client.py:635, 692-694).
RedirectsBounded == followed <= MaxRedirects * attempt

\* Authorization, X-API-Key and Cookie travel only while the chain has never left
\* its first origin; coming home does not restore them (client.py:664-674).  Other
\* credential headers are not covered, because the code does not strip them.
StrippedStayHome ==
    (\E u \in walk.seen \cup {walk.url} : Origin[u] # Origin[Home])
        => walk.headers \cap Stripped = {}

\* A session is given up only after its one CSRF refresh was tried in this
\* very dispatch, whatever earlier dispatches on the client did
\* (client.py:392-394, 757-758).
DeniedOnlyAfterRefresh ==
    SessionCookie /\ result = "denied" => refreshes = 1 \/ refreshFailed

\* There is one CSRF refresh in a dispatch, and the request that follows it
\* carries the refreshed token, through 429 and transient retries too
\* (client.py:609-613).
RefreshedTokenIsSent == refreshes <= 1 /\ (pc = "sending" /\ refreshes = 1 => token = csrf)

\* Whatever the provider does, a dispatch comes to an end, or it waits for ever
\* for one answer of the refresh URL: it never goes on and on (client.py:496-614).
DispatchEnds == pc # "idle" ~> (pc = "idle" \/ [](pc = "refreshing"))

CallVerdict ==
    [none |-> "none", success |-> "done", rate_limited |-> "refused",
     denied |-> "refused", rejected |-> "refused", logical |-> "refused",
     upstream_error |-> "unsure", raised |-> "unsure"]

Call == INSTANCE OperationCall WITH
    open <- pc # "idle", once <- ~Retryable(op), verdict <- CallVerdict[result]

\* The envelope keeps the promise of OperationCall about side effects.
ImplementsCall == Call!CallSpec
================================================================================
