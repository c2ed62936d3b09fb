------------------------------ MODULE SharedClient ------------------------------
(***************************************************************************)
(* Several threads dispatch through one DispatchClient                     *)
(* (dispatch/client.py).  The client has no lock: next_call_after, the     *)
(* operation in flight and the once-per-dispatch flag of the CSRF refresh  *)
(* are attributes that every dispatch reads and writes.                    *)
(*                                                                         *)
(* What one dispatch does alone is the module DispatchClient; here the     *)
(* method is session_cookie with a refresh URL, redirects are part of an   *)
(* answer, and the transport, the failure predicate, headers and           *)
(* dispatches that raise before their first request are left out.  Times   *)
(* are what is left of a wait; a tick takes one from all of them.  The two *)
(* assignments that open a dispatch are one step: the reads they race with *)
(* are far behind them.                                                    *)
(***************************************************************************)
EXTENDS Naturals

CONSTANTS
    Threads,          \* threads that share the client
    MaxWait,          \* bound: the longest Retry-After within the cap
    MaxAttempts,      \* op.retry.max_attempts
    RateLimitRetries  \* DEFAULT_RATE_LIMIT_RETRIES

ASSUME SharedAssumption ==
    MaxWait \in Nat /\ MaxAttempts \in Nat \ {0} /\ RateLimitRetries \in Nat

VARIABLES
    pc,        \* thread -> what its dispatch does
    left,      \* thread -> what is left of its sleep, or the Retry-After it got
    read,      \* thread -> next_call_after as max() read it
    attempt,   \* thread -> iterations of its retry loop
    rateLeft,  \* thread -> rate_limit_retries_remaining
    decodedBy, \* thread -> whose operation its response was decoded by
    budget,    \* _rate_state.next_call_after, from now
    current,   \* _current_operation: the thread whose operation it is
    flag,      \* _csrf_refreshed_this_call
    limit,     \* history: what is left of the longest wait a 429 asked for
    stale,     \* history: threads whose value of read was overwritten
    lost,      \* history: such a thread has shortened the budget
    excused,   \* history: threads whose check could not know the limit
    granted,   \* history: threads that have not refreshed since a dispatch began
    helped,    \* history: threads during whose dispatch a refresh succeeded
    unlucky,   \* history: threads whose refresh failed in their dispatch
    joined     \* history: thread -> who began a dispatch during its dispatch

budgetVars == <<budget, limit, stale, lost, excused>>
csrfVars == <<flag, granted, helped, unlucky>>
decodeVars == <<decodedBy, current, joined>>
vars == <<pc, left, read, attempt, rateLeft, budgetVars, csrfVars, decodeVars>>

Steps == {"idle", "checking", "waiting", "ready", "inflight", "storing",
          "pausing", "answered", "refreshing", "decoding", "denied", "done", "error"}
Ended == {"idle", "denied", "done", "error"}

MaxOf(a, b) == IF a >= b THEN a ELSE b
Less(a) == IF a = 0 THEN 0 ELSE a - 1
NextAttempt(a) == IF a < MaxAttempts THEN a + 1 ELSE a \* bound: only a limit is read

TypeOK ==
    /\ pc \in [Threads -> Steps]
    /\ left \in [Threads -> 0..MaxWait]
    /\ read \in [Threads -> 0..MaxWait]
    /\ attempt \in [Threads -> 0..MaxAttempts]
    /\ rateLeft \in [Threads -> 0..RateLimitRetries]
    /\ decodedBy \in [Threads -> Threads]
    /\ budget \in 0..MaxWait
    /\ current \in Threads
    /\ flag \in BOOLEAN
    /\ limit \in 0..MaxWait
    /\ stale \subseteq Threads
    /\ lost \in BOOLEAN
    /\ excused \subseteq Threads
    /\ granted \subseteq Threads
    /\ helped \subseteq Threads
    /\ unlucky \subseteq Threads
    /\ joined \in [Threads -> SUBSET Threads]

Init ==
    /\ pc = [t \in Threads |-> "idle"]
    /\ left = [t \in Threads |-> 0]
    /\ read = [t \in Threads |-> 0]
    /\ attempt = [t \in Threads |-> 0]
    /\ rateLeft = [t \in Threads |-> RateLimitRetries]
    /\ decodedBy = [t \in Threads |-> t]
    /\ budget = 0
    /\ current \in Threads
    /\ flag = FALSE
    /\ limit = 0
    /\ stale = {}
    /\ lost = FALSE
    /\ excused = {}
    /\ granted = Threads
    /\ helped = {}
    /\ unlucky = {}
    /\ joined = [t \in Threads |-> {}]

Goes(t, from, to) == pc[t] = from /\ pc' = [pc EXCEPT ![t] = to]

--------------------------------------------------------------------------------
(* A dispatch *)

\* Mutants: the flag is not reset; the operation is not stashed.
Begin_KeepsFlag(t) ==
    /\ pc[t] \in Ended
    /\ pc' = [pc EXCEPT ![t] = "checking"]
    /\ attempt' = [attempt EXCEPT ![t] = 1]
    /\ rateLeft' = [rateLeft EXCEPT ![t] = RateLimitRetries]
    /\ current' = t
    /\ granted' = Threads
    /\ helped' = helped \ {t}
    /\ unlucky' = unlucky \ {t}
    /\ joined' = [s \in Threads |-> IF s = t THEN {} ELSE joined[s] \cup {t}]
    /\ decodedBy' = [decodedBy EXCEPT ![t] = t]
    /\ UNCHANGED <<left, read, flag, budgetVars>>
Begin_NotStashed(t) ==
    /\ pc[t] \in Ended
    /\ pc' = [pc EXCEPT ![t] = "checking"]
    /\ attempt' = [attempt EXCEPT ![t] = 1]
    /\ rateLeft' = [rateLeft EXCEPT ![t] = RateLimitRetries]
    /\ flag' = FALSE
    /\ granted' = Threads
    /\ helped' = helped \ {t}
    /\ unlucky' = unlucky \ {t}
    /\ joined' = [s \in Threads |-> IF s = t THEN {} ELSE joined[s] \cup {t}]
    /\ decodedBy' = [decodedBy EXCEPT ![t] = t]
    /\ UNCHANGED <<left, read, current, budgetVars>>

\* _dispatch_one: the operation is stashed, the flag is reset for everybody.
Begin(t) ==
    /\ pc[t] \in Ended
    /\ pc' = [pc EXCEPT ![t] = "checking"]
    /\ attempt' = [attempt EXCEPT ![t] = 1]
    /\ rateLeft' = [rateLeft EXCEPT ![t] = RateLimitRetries]
    /\ current' = t
    /\ flag' = FALSE
    /\ granted' = Threads
    /\ helped' = helped \ {t}
    /\ unlucky' = unlucky \ {t}
    /\ joined' = [s \in Threads |-> IF s = t THEN {} ELSE joined[s] \cup {t}]
    /\ decodedBy' = [decodedBy EXCEPT ![t] = t]
    /\ UNCHANGED <<left, read, budgetVars>>

\* Mutant: the budget is not honoured.
CheckBudget_Skips(t) ==
    /\ Goes(t, "checking", "ready")
    /\ left' = [left EXCEPT ![t] = 0]
    /\ excused' = IF lost THEN excused \cup {t} ELSE excused \ {t}
    /\ UNCHANGED <<read, attempt, rateLeft, budget, limit, stale, lost, csrfVars,
                   decodeVars>>

\* The budget is read once; the thread sleeps what is left of it.
CheckBudget(t) ==
    /\ Goes(t, "checking", IF budget > 0 THEN "waiting" ELSE "ready")
    /\ left' = [left EXCEPT ![t] = budget]
    /\ excused' = IF lost THEN excused \cup {t} ELSE excused \ {t}
    /\ UNCHANGED <<read, attempt, rateLeft, budget, limit, stale, lost, csrfVars,
                   decodeVars>>

\* The sleep ends; the budget is not looked at again.
WakeUp(t) ==
    /\ left[t] = 0
    /\ Goes(t, "waiting", "ready")
    /\ UNCHANGED <<left, read, attempt, rateLeft, budgetVars, csrfVars, decodeVars>>

Send(t) ==
    /\ Goes(t, "ready", "inflight")
    /\ UNCHANGED <<left, read, attempt, rateLeft, budgetVars, csrfVars, decodeVars>>

--------------------------------------------------------------------------------
(* What comes back *)

\* 2xx, 401/403/419, or what ends the dispatch at once.
Answer(t) ==
    /\ \E to \in {"decoding", "answered", "error"} : Goes(t, "inflight", to)
    /\ UNCHANGED <<left, read, attempt, rateLeft, budgetVars, csrfVars, decodeVars>>

\* Mutant: without the attempt budget.
RetryTransient_Forever(t) ==
    /\ Goes(t, "inflight", "pausing")
    /\ \E delay \in 0..MaxWait : left' = [left EXCEPT ![t] = delay]
    /\ UNCHANGED <<read, attempt, rateLeft, budgetVars, csrfVars, decodeVars>>

\* A timeout or 5xx of an idempotent operation: back off and try again.
RetryTransient(t) ==
    /\ attempt[t] < MaxAttempts
    /\ Goes(t, "inflight", "pausing")
    /\ \E delay \in 0..MaxWait : left' = [left EXCEPT ![t] = delay]
    /\ UNCHANGED <<read, attempt, rateLeft, budgetVars, csrfVars, decodeVars>>

\* 429 within the cap, while retries are left: max() reads the budget ...
Limited(t) ==
    /\ rateLeft[t] > 0
    /\ Goes(t, "inflight", "storing")
    /\ \E wait \in 0..MaxWait : left' = [left EXCEPT ![t] = wait]
    /\ read' = [read EXCEPT ![t] = budget]
    /\ stale' = stale \ {t}
    /\ UNCHANGED <<attempt, rateLeft, budget, limit, lost, excused, csrfVars,
                   decodeVars>>

\* Mutant: the wait is assigned, without max().
StoreBudget_Own(t) ==
    /\ Goes(t, "storing", "pausing")
    /\ budget' = left[t]
    /\ limit' = MaxOf(limit, left[t])
    /\ stale' = stale \cup (Threads \ {t})
    /\ lost' = (budget' < limit' /\ (lost \/ t \in stale))
    /\ excused' = IF left[t] > limit THEN Threads ELSE excused
    /\ rateLeft' = [rateLeft EXCEPT ![t] = @ - 1]
    /\ UNCHANGED <<left, read, attempt, csrfVars, decodeVars>>

\* ... and the larger of the two is assigned, whatever was assigned meanwhile.
StoreBudget(t) ==
    /\ Goes(t, "storing", "pausing")
    /\ budget' = MaxOf(read[t], left[t])
    /\ limit' = MaxOf(limit, left[t])
    /\ stale' = stale \cup (Threads \ {t})
    /\ lost' = (budget' < limit' /\ (lost \/ t \in stale))
    /\ excused' = IF left[t] > limit THEN Threads ELSE excused
    /\ rateLeft' = [rateLeft EXCEPT ![t] = @ - 1]
    /\ UNCHANGED <<left, read, attempt, csrfVars, decodeVars>>

\* The sleep after a 429 or a transient failure ends: the next iteration.
Again(t) ==
    /\ left[t] = 0
    /\ Goes(t, "pausing", "checking")
    /\ attempt' = [attempt EXCEPT ![t] = NextAttempt(@)]
    /\ UNCHANGED <<left, read, rateLeft, budgetVars, csrfVars, decodeVars>>

--------------------------------------------------------------------------------
(* The CSRF refresh, and the result *)

\* The flag is set: no refresh, the denial is the result.
NoRefresh(t) ==
    /\ flag
    /\ Goes(t, "answered", "denied")
    /\ UNCHANGED <<left, read, attempt, rateLeft, budgetVars, csrfVars, decodeVars>>

BeginRefresh(t) ==
    /\ ~flag
    /\ Goes(t, "answered", "refreshing")
    /\ UNCHANGED <<left, read, attempt, rateLeft, budgetVars, csrfVars, decodeVars>>

\* Mutant: the flag is not set.
Refresh_Unmarked(t) ==
    /\ Goes(t, "refreshing", "checking")
    /\ attempt' = [attempt EXCEPT ![t] = NextAttempt(@)]
    /\ granted' = granted \ {t}
    /\ helped' = {s \in Threads : pc[s] \notin Ended} \cup helped
    /\ UNCHANGED <<left, read, rateLeft, flag, budgetVars, unlucky, decodeVars>>

\* The new token is stored and the flag is set, for every thread.
Refresh(t) ==
    /\ Goes(t, "refreshing", "checking")
    /\ flag' = TRUE
    /\ attempt' = [attempt EXCEPT ![t] = NextAttempt(@)]
    /\ granted' = granted \ {t}
    /\ helped' = {s \in Threads : pc[s] \notin Ended} \cup helped
    /\ UNCHANGED <<left, read, rateLeft, budgetVars, unlucky, decodeVars>>

RefreshFails(t) ==
    /\ Goes(t, "refreshing", "denied")
    /\ unlucky' = unlucky \cup {t}
    /\ UNCHANGED <<left, read, attempt, rateLeft, budgetVars, flag, granted, helped,
                   decodeVars>>

\* _build_success decodes by _current_operation, not by its own operation.
Decode(t) ==
    /\ Goes(t, "decoding", "done")
    /\ decodedBy' = [decodedBy EXCEPT ![t] = current]
    /\ UNCHANGED <<left, read, attempt, rateLeft, budgetVars, csrfVars, current, joined>>

\* Time passes for every sleeper and for the budget, not within the assignment.
Tick ==
    /\ \A t \in Threads : pc[t] # "storing"
    /\ \E t \in Threads : left[t] > 0 \/ budget > 0 \/ limit > 0
    /\ left' = [t \in Threads |->
                   IF pc[t] \in {"waiting", "pausing"} THEN Less(left[t]) ELSE left[t]]
    /\ budget' = Less(budget)
    /\ limit' = Less(limit)
    /\ lost' = (lost /\ budget' < limit')
    /\ UNCHANGED <<pc, read, attempt, rateLeft, stale, excused, csrfVars, decodeVars>>

\* What follows the request to the refresh URL.
RefreshAnswer(t) == Refresh(t) \/ RefreshFails(t)

\* What a thread does by itself, or a request with a timeout allows it to do.
OwnStep(t) ==
    \/ CheckBudget(t) \/ WakeUp(t) \/ Send(t)
    \/ Answer(t) \/ RetryTransient(t) \/ Limited(t) \/ StoreBudget(t) \/ Again(t)
    \/ NoRefresh(t) \/ BeginRefresh(t) \/ Decode(t)

Step(t) == OwnStep(t) \/ RefreshAnswer(t)

Next == Tick \/ \E t \in Threads : Begin(t) \/ Step(t)

\* Threads run, the requests of an operation time out (none trickles in for ever),
\* and the clock goes on.  The request to the refresh URL has no timeout
\* (client.py:264, transport.py:108): nobody owes its answer.
Fairness == WF_vars(Tick) /\ \A t \in Threads : WF_vars(OwnStep(t))

Spec == Init /\ [][Next]_vars /\ Fairness

--------------------------------------------------------------------------------
(* Properties *)

\* An attempt begins during the wait a 429 asked for only if its thread had read
\* the budget before that 429 was stored, or two stores had overlapped.  (Hops of
\* a redirect and the request for a new token never look at the budget.)
LimitIsWaitedOut ==
    [][\A t \in Threads :
           pc[t] = "ready" /\ pc'[t] = "inflight" /\ limit > 0 => t \in excused]_vars

\* The budget is shorter than the longest wait only after two overlapping stores.
BudgetIsTheLongestWait == budget < limit => lost

\* "only one CSRF refresh-and-retry per dispatch call": a second one happens only
\* if another dispatch began after the first.
RefreshesOnce == \A t \in Threads : pc[t] = "refreshing" => t \in granted

\* A denial is returned only after a refresh during the dispatch, the thread's
\* own or another's, or after its own refresh failed.
DeniedAfterRefresh ==
    \A t \in Threads : pc[t] = "denied" => t \in helped \cup unlucky

\* A response is decoded by the formats of its own operation, or of one whose
\* dispatch began in between.
DecodedByOwnOrJoined ==
    \A t \in Threads : pc[t] = "done" => decodedBy[t] \in {t} \cup joined[t]

\* Once no dispatch begins any more, each one ends or waits for ever for one answer
\* of the refresh URL, and whoever waits there holds up nobody else: no thread waits
\* for a budget that others push on, and a refresh is not repeated for ever.
NoneBegins == [][\A t \in Threads : pc[t] \in Ended => pc'[t] = pc[t]]_vars
DispatchesEnd ==
    <>NoneBegins => <>[](\A t \in Threads : pc[t] \in Ended \cup {"refreshing"})
================================================================================
