------------------------- MODULE DispatchClientProofs -------------------------
(***************************************************************************)
(* Theorems about DispatchClient for every set of URLs, every assignment   *)
(* of origins and every budget.  The inductive invariant ties the three    *)
(* budgets to the attempt counter, the chain of redirects to the headers   *)
(* it still carries, and what the provider did to what it answered.        *)
(***************************************************************************)
EXTENDS DispatchClient, TLAPS

\* Attempts are paid for by the retry budget, 429 retries or the refresh.
BudgetInv ==
    pc # "idle" =>
        /\ attempt >= 1
        /\ attempt <= MaxAttempts + (RateLimitRetries - rateLeft) + refreshes

\* The refresh flag counts this dispatch's refreshes.
RefreshInv ==
    /\ refreshes \in {0, 1}
    /\ refreshed <=> refreshes = 1
    /\ pc = "refreshing" => refreshes = 0
    /\ pc \in {"sending", "answered"} /\ refreshes = 1 => token = csrf

\* Redirects followed: full walks for the finished attempts, and this one.
WalkInv == pc # "idle" => followed <= MaxRedirects * (attempt - 1) + walk.hops

\* Replies to a request that certainly had no effect.
Harmless == Replies \ {"ok", "see_other", "undecodable", "server", "lost"}

\* A call under way has no verdict yet.
VerdictInv == pc # "idle" => result = "none" /\ ~refreshFailed

IInv ==
    /\ TypeOK
    /\ BudgetInv
    /\ RefreshInv
    /\ WalkInv
    /\ VerdictInv
    /\ AttemptsBounded
    /\ RedirectsBounded
    /\ StrippedStayHome
    /\ DeniedOnlyAfterRefresh

\* Without method changes every request carries the operation, so that an
\* answer tells whether it took effect; and an operation that may not be
\* repeated was not applied before the request in flight.
EffectInv ==
    /\ pc # "idle" => walk.method = op.method
    /\ pc = "answered" /\ reply = "ok" => applied >= 1
    /\ ~Retryable(op) =>
         /\ applied <= 1
         /\ pc \in {"sending", "refreshing"} => applied = 0
         /\ pc = "answered" /\ reply \in Harmless => applied = 0

EInv ==
    /\ EffectInv
    /\ RejectionMeansUntouched

--------------------------------------------------------------------------------
USE UrlsAssumption, BudgetsAssumption, FlagsAssumption
USE DEF TypeOK, providerVars, historyVars

\* A walk starts with the operation's own request.
LEMMA FirstRequestLemma ==
    ASSUME NEW o \in Operations
    PROVE  FirstRequest(o) \in WalkType
BY DEF FirstRequest, WalkType, Operations

\* The redirects of one walk fit into what one more attempt allows.
LEMMA OneWalk ==
    ASSUME NEW n \in Nat, n >= 1, NEW h \in 0..MaxRedirects, NEW f \in Nat,
           f <= MaxRedirects * (n - 1) + h
    PROVE  f <= MaxRedirects * n
<1>1. MaxRedirects * (n - 1) + MaxRedirects = MaxRedirects * n
  OBVIOUS
<1>2. MaxRedirects * (n - 1) \in Nat
  OBVIOUS
<1>3. QED
  BY <1>1, <1>2

\* The initial state satisfies both invariants.
LEMMA InitInv == Init => IInv /\ EInv
<1> SUFFICES ASSUME Init PROVE IInv /\ EInv
  OBVIOUS
<1>1. TypeOK
  <2>1. walk \in WalkType
    BY FirstRequestLemma DEF Init
  <2>2. reply \in Replies /\ result \in Results
    BY DEF Init, Replies, Results
  <2>3. rateLeft \in 0..RateLimitRetries /\ applied \in 0..2
    BY DEF Init
  <2>4. token \in 0..MaxRotations /\ csrf \in 0..MaxRotations /\ live \in 0..MaxRotations
    BY DEF Init
  <2>5. QED
    BY <2>1, <2>2, <2>3, <2>4 DEF Init
<1>2. StrippedStayHome
  BY DEF Init, StrippedStayHome, FirstRequest
<1>3. RedirectsBounded
  BY DEF Init, RedirectsBounded
<1>4. QED
  BY <1>1, <1>2, <1>3
     DEF Init, IInv, BudgetInv, RefreshInv, WalkInv, VerdictInv, AttemptsBounded,
         DeniedOnlyAfterRefresh, EInv, EffectInv, RejectionMeansUntouched, Retryable, Operations

\* Every "continue" of the retry loop starts a fresh walk within the bounds.
LEMMA AgainLemma ==
    ASSUME IInv, pc # "idle", Again, followed' = followed, op' = op
    PROVE  /\ walk' \in WalkType
           /\ attempt' \in Nat
           /\ WalkInv'
           /\ RedirectsBounded'
           /\ StrippedStayHome'
<1>1. walk' = FirstRequest(op) /\ attempt' = attempt + 1 /\ attempt \in Nat /\ attempt >= 1
  BY DEF Again, IInv, BudgetInv
<1>2. walk' \in WalkType
  BY <1>1, FirstRequestLemma DEF IInv
<1>3. followed <= MaxRedirects * attempt
  BY <1>1, OneWalk DEF IInv, WalkInv, WalkType
<1>4. WalkInv'
  <2>1. attempt' - 1 = attempt /\ walk'.hops = 0
    BY <1>1 DEF FirstRequest
  <2>2. QED
    BY <1>3, <2>1 DEF WalkInv, IInv
<1>5. RedirectsBounded'
  <2>1. followed' <= MaxRedirects * (attempt' - 1) + 0
    BY <1>1, <1>3 DEF IInv
  <2>2. QED
    BY <1>1, <2>1, OneWalk DEF RedirectsBounded, IInv
<1>6. StrippedStayHome'
  BY <1>1 DEF StrippedStayHome, FirstRequest
<1>7. QED
  BY <1>1, <1>2, <1>4, <1>5, <1>6

\* Steps that start a dispatch, the provider's steps and stuttering.
LEMMA OuterStep ==
    ASSUME IInv,
           \/ \E o \in Operations : Start(o) \/ StartRaises(o)
           \/ Answer
           \/ RotateToken
           \/ UNCHANGED vars
    PROVE  IInv'
<1> USE DEF IInv, BudgetInv, RefreshInv, WalkInv, VerdictInv, AttemptsBounded,
            RedirectsBounded, StrippedStayHome, DeniedOnlyAfterRefresh
<1>1. ASSUME NEW o \in Operations, Start(o) PROVE IInv'
  <2>1. walk' \in WalkType
    BY <1>1, FirstRequestLemma DEF Start
  <2>2. walk' = FirstRequest(o) /\ attempt' = 1 /\ followed' = 0
    BY <1>1 DEF Start
  <2>3. WalkInv' /\ RedirectsBounded' /\ StrippedStayHome'
    BY <2>2 DEF FirstRequest
  <2>4. TypeOK'
    <3>1. reply' \in Replies /\ result' \in Results
      BY <1>1 DEF Start, Replies, Results
    <3>2. rateLeft' \in 0..RateLimitRetries /\ token' \in 0..MaxRotations /\ applied' \in 0..2
      BY <1>1 DEF Start
    <3>3. QED
      BY <1>1, <2>1, <3>1, <3>2 DEF Start
  <2>5. QED
    BY <1>1, <2>3, <2>4 DEF Start
<1>2. ASSUME NEW o \in Operations, StartRaises(o) PROVE IInv'
  <2>1. pc = "idle" /\ followed' = 0 /\ attempt' = attempt /\ result' = "raised"
    BY <1>2 DEF StartRaises
  <2>2. TypeOK'
    <3>1. op' \in Operations /\ result' \in Results /\ applied' \in 0..2
      BY <1>2 DEF StartRaises, Results
    <3>2. followed' \in Nat /\ refreshes' \in Nat
      BY <1>2 DEF StartRaises
    <3>3. QED
      BY <1>2, <3>1, <3>2 DEF StartRaises
  <2>3. RedirectsBounded'
    <3>1. MaxRedirects * attempt \in Nat
      OBVIOUS
    <3>2. QED
      BY <2>1, <3>1
  <2>4. BudgetInv' /\ WalkInv' /\ VerdictInv' /\ AttemptsBounded' /\ DeniedOnlyAfterRefresh'
    BY <1>2, <2>1 DEF StartRaises
  <2>5. RefreshInv' /\ StrippedStayHome'
    BY <1>2, <2>1 DEF StartRaises
  <2>6. QED
    BY <2>2, <2>3, <2>4, <2>5
<1>3. CASE Answer
  <2>1. PICK r \in Replies \ {"none"}, effect \in BOOLEAN :
            /\ reply' = r
            /\ applied' = IF effect /\ walk.method = op.method
                            THEN (IF applied = 0 THEN 1 ELSE 2) ELSE applied
    BY <1>3 DEF Answer, Effects
  <2>2. reply' \in Replies /\ applied' \in 0..2
    BY <2>1
  <2>3. QED
    BY <1>3, <2>2 DEF Answer
<1>4. CASE RotateToken
  BY <1>4 DEF RotateToken
<1>5. CASE UNCHANGED vars
  BY <1>5 DEF vars
<1>6. QED
  BY <1>1, <1>2, <1>3, <1>4, <1>5

\* The client's own steps.
LEMMA ClientStep == ASSUME IInv, Client \/ RefreshAnswer PROVE IInv'
<1> USE DEF IInv, VerdictInv, AttemptsBounded, DeniedOnlyAfterRefresh
<1>1. CASE Follow
  <2>1. PICK to \in Urls : walk' = NextRequest(to)
    BY <1>1 DEF Follow
  <2>2. walk' \in WalkType /\ walk'.hops = walk.hops + 1
    BY <1>1, <2>1 DEF Follow, MayFollow, NextRequest, WalkType, Methods
  <2>3. TypeOK'
    BY <1>1, <2>2 DEF Follow
  <2>4. WalkInv'
    <3> DEFINE limit == MaxRedirects * (attempt - 1)
    <3>1. limit \in Nat /\ followed <= limit + walk.hops /\ walk.hops \in Nat
      BY <1>1 DEF Follow, WalkInv, BudgetInv, WalkType
    <3>2. followed' <= limit + walk'.hops
      <4> HIDE DEF limit
      <4> QED
        BY <1>1, <2>2, <3>1 DEF Follow
    <3>3. QED
      BY <1>1, <3>2 DEF Follow, WalkInv
  <2>5. RedirectsBounded'
    BY <1>1, <2>2, <2>3, <2>4, OneWalk DEF Follow, WalkInv, RedirectsBounded, BudgetInv, WalkType
  <2>6. StrippedStayHome'
    <3>1. SUFFICES ASSUME NEW u \in walk'.seen \cup {walk'.url}, Origin[u] # Origin[Home]
                   PROVE  walk'.headers \cap Stripped = {}
      BY DEF StrippedStayHome
    <3>2. walk'.headers \subseteq walk.headers /\ u \in walk.seen \cup {walk.url, to}
      BY <2>1, <3>1 DEF NextRequest
    <3>3. CASE Origin[to] # Origin[walk.url]
      BY <2>1, <3>3 DEF NextRequest
    <3>4. CASE Origin[to] = Origin[walk.url]
      BY <3>1, <3>2, <3>4 DEF StrippedStayHome
    <3>5. QED
      BY <3>3, <3>4
  <2>7. QED
    BY <1>1, <2>3, <2>4, <2>5, <2>6 DEF Follow, BudgetInv, RefreshInv
<1>2. CASE RetryTransient
  <2>1. pc # "idle" /\ Again /\ followed' = followed /\ op' = op
    BY <1>2 DEF RetryTransient
  <2>2. TypeOK'
    BY <1>2, <2>1, AgainLemma DEF RetryTransient, Again
  <2>3. BudgetInv' /\ AttemptsBounded'
    BY <1>2 DEF RetryTransient, Again, BudgetInv, RefreshInv
  <2>4. QED
    BY <1>2, <2>1, <2>2, <2>3, AgainLemma DEF RetryTransient, Again, RefreshInv
<1>3. CASE RetryLimited
  <2>1. pc # "idle" /\ Again /\ followed' = followed /\ op' = op
    BY <1>3 DEF RetryLimited
  <2>2. TypeOK'
    BY <1>3, <2>1, AgainLemma DEF RetryLimited, Again
  <2>3. BudgetInv' /\ AttemptsBounded'
    BY <1>3 DEF RetryLimited, Again, BudgetInv, RefreshInv
  <2>4. QED
    BY <1>3, <2>1, <2>2, <2>3, AgainLemma DEF RetryLimited, Again, RefreshInv
<1>4. CASE BeginRefresh
  BY <1>4 DEF BeginRefresh, MayRefresh, BudgetInv, RefreshInv, WalkInv, RedirectsBounded,
              StrippedStayHome
<1>5. CASE RefreshToken
  <2>1. pc # "idle" /\ Again /\ followed' = followed /\ op' = op
    BY <1>5 DEF RefreshToken
  <2>2. TypeOK'
    BY <1>5, <2>1, AgainLemma DEF RefreshToken, Again
  <2>3. BudgetInv' /\ AttemptsBounded'
    BY <1>5 DEF RefreshToken, Again, BudgetInv, RefreshInv
  <2>4. QED
    BY <1>5, <2>1, <2>2, <2>3, AgainLemma DEF RefreshToken, Again, RefreshInv
<1>6. CASE RefreshFails
  BY <1>6 DEF RefreshFails, Return, Results, BudgetInv, RefreshInv, WalkInv, RedirectsBounded,
              StrippedStayHome
<1>7. CASE ReapplyRaises
  BY <1>7 DEF ReapplyRaises, Results, BudgetInv, RefreshInv, WalkInv, RedirectsBounded,
              StrippedStayHome
<1>8. CASE Surface
  <2>1. Verdict[reply] \in Results /\ (Verdict[reply] = "denied" => reply = "denied")
    BY <1>8 DEF Surface, Verdict, Results
  <2>2. QED
    BY <1>8, <2>1 DEF Surface, Return, MayRefresh, BudgetInv, RefreshInv, WalkInv,
              RedirectsBounded, StrippedStayHome
<1>9. CASE GiveUp
  BY <1>9 DEF GiveUp, Return, Results, BudgetInv, RefreshInv, WalkInv, RedirectsBounded,
              StrippedStayHome
<1>10. QED
  BY <1>1, <1>2, <1>3, <1>4, <1>5, <1>6, <1>7, <1>8, <1>9
     DEF Client, RefreshAnswer

\* The inductive invariant holds throughout.
THEOREM Inductive == Spec => []IInv
<1>1. IInv /\ [Next]_vars => IInv'
  BY OuterStep, ClientStep DEF Next
<1>2. QED
  BY <1>1, InitInv, PTL DEF Spec
--------------------------------------------------------------------------------
\* Every variable keeps its type.
THEOREM TypeCorrect == Spec => []TypeOK
BY Inductive, PTL DEF IInv

\* The three budgets together bound the retry loop.
THEOREM RetriesAreBounded == Spec => []AttemptsBounded
BY Inductive, PTL DEF IInv

\* The wire traffic of one dispatch is bounded by its attempts.
THEOREM TrafficIsBounded == Spec => []RedirectsBounded
BY Inductive, PTL DEF IInv

\* The headers that the code strips never leave the first origin of a chain.
THEOREM StrippedStay == Spec => []StrippedStayHome
BY Inductive, PTL DEF IInv

\* A session is reported denied only after its CSRF refresh was tried.
THEOREM DeniedAfterRefresh == Spec => []DeniedOnlyAfterRefresh
BY Inductive, PTL DEF IInv

\* One CSRF refresh a dispatch, and its token is on every later request.
THEOREM RefreshedTokenTravels == Spec => []RefreshedTokenIsSent
<1>1. IInv => RefreshedTokenIsSent
  BY DEF IInv, RefreshInv, RefreshedTokenIsSent
<1>2. QED
  BY <1>1, Inductive, PTL

--------------------------------------------------------------------------------
\* What DispatchEnds rests on: each step of a dispatch uses something up.

\* The steps that one walk of a redirect chain may take.
PerAttempt == 3 * MaxRedirects + 4

\* What a dispatch has left: attempts, redirects of this walk, steps until the
\* next request.
Rank ==
    IF pc = "idle" THEN 0
    ELSE PerAttempt * (MaxAttempts + RateLimitRetries + 1 - attempt)
         + 3 * (MaxRedirects - walk.hops)
         + (IF pc = "sending" THEN 3 ELSE IF pc = "answered" THEN 2 ELSE 1)

\* An attempt is worth a whole walk.
LEMMA AttemptsWeigh ==
    ASSUME NEW w \in Nat, NEW x \in Nat, NEW y \in Nat, x < y
    PROVE  w * x \in Nat /\ w * x + w <= w * y
<1>1. PICK d \in Nat : y = x + 1 + d
  <2>1. y - (x + 1) \in Nat
    OBVIOUS
  <2>2. QED
    BY <2>1
<1>2. w * d \in Nat /\ w * x \in Nat /\ w * y = w * x + w + w * d
  BY <1>1
<1>3. QED
  BY <1>2

\* The rank is a number, and during a dispatch not 0.
LEMMA RankIsNatural == ASSUME IInv PROVE Rank \in Nat /\ (pc # "idle" => Rank > 0)
<1>1. CASE pc = "idle"
  BY <1>1 DEF Rank
<1>2. CASE pc # "idle"
  <2>1. MaxAttempts + RateLimitRetries + 1 - attempt \in Nat /\ MaxRedirects - walk.hops \in Nat
    BY DEF IInv, AttemptsBounded, WalkType
  <2>2. PerAttempt \in Nat
    BY DEF PerAttempt
  <2>3. PerAttempt * (MaxAttempts + RateLimitRetries + 1 - attempt) \in Nat
    BY <2>1, <2>2
  <2>4. QED
    BY <1>2, <2>1, <2>3 DEF Rank
<1>3. QED
  BY <1>1, <1>2

\* Another attempt lowers the rank, although the walk begins again.
LEMMA AgainLowersRank == ASSUME IInv, IInv', pc # "idle", Again PROVE Rank' < Rank
<1> DEFINE left == MaxAttempts + RateLimitRetries + 1 - attempt
           walked == 3 * (MaxRedirects - walk.hops)
<1>1. left \in Nat /\ left' \in Nat /\ left' < left
  BY DEF IInv, AttemptsBounded, Again
<1>2. PerAttempt * left' \in Nat /\ PerAttempt * left' + PerAttempt <= PerAttempt * left
  BY <1>1, AttemptsWeigh DEF PerAttempt
<1>3. walked \in Nat /\ PerAttempt = 3 * MaxRedirects + 4 /\ PerAttempt * left \in Nat
  BY <1>1 DEF PerAttempt, IInv, WalkType
<1>4. Rank' = PerAttempt * left' + 3 * MaxRedirects + 3
  BY DEF Rank, Again, FirstRequest, PerAttempt
<1>5. Rank >= PerAttempt * left + walked + 1
  <2> HIDE DEF left, walked
  <2>1. Rank = PerAttempt * left + walked
                 + (IF pc = "sending" THEN 3 ELSE IF pc = "answered" THEN 2 ELSE 1)
    BY DEF Rank, left, walked
  <2>2. QED
    BY <1>3, <2>1
<1>6. QED
  <2> HIDE DEF left, walked, PerAttempt
  <2>1. \A a, b, w, v : a \in Nat /\ b \in Nat /\ w \in Nat /\ v \in Nat /\ a + w <= b
                          => a + (w - 4) + 3 < b + v + 1
    OBVIOUS
  <2>2. PerAttempt \in Nat /\ 3 * MaxRedirects = PerAttempt - 4
    BY DEF PerAttempt
  <2>3. Rank' = PerAttempt * left' + (PerAttempt - 4) + 3
    BY <1>4, <2>2
  <2>4. PerAttempt * left' + (PerAttempt - 4) + 3 < PerAttempt * left + walked + 1
    BY <1>2, <1>3, <2>1, <2>2
  <2>5. QED
    BY <1>2, <1>3, <1>5, <2>2, <2>3, <2>4, RankIsNatural

\* Each step of a dispatch but the provider's rotation lowers the rank.
LEMMA StepLowersRank ==
    ASSUME IInv, IInv', [Next]_vars, pc # "idle", vars' # vars
    PROVE  Rank' < Rank \/ (RotateToken /\ Rank' = Rank)
<1> DEFINE spent == PerAttempt * (MaxAttempts + RateLimitRetries + 1 - attempt)
<1>1. ASSUME pc' = "idle" PROVE Rank' < Rank
  BY <1>1, RankIsNatural DEF Rank
<1>2. /\ spent \in Nat /\ MaxRedirects - walk.hops \in Nat
  <2>1. MaxAttempts + RateLimitRetries + 1 - attempt \in Nat /\ PerAttempt \in Nat
    BY DEF IInv, AttemptsBounded, PerAttempt
  <2>2. QED
    BY <2>1 DEF IInv, WalkType
<1>3. Rank = spent + 3 * (MaxRedirects - walk.hops)
               + (IF pc = "sending" THEN 3 ELSE IF pc = "answered" THEN 2 ELSE 1)
  BY DEF Rank
<1>4. ASSUME pc' # "idle", attempt' = attempt
      PROVE  Rank' = spent + 3 * (MaxRedirects - walk'.hops)
               + (IF pc' = "sending" THEN 3 ELSE IF pc' = "answered" THEN 2 ELSE 1)
  BY <1>4 DEF Rank, PerAttempt
<1> HIDE DEF spent
<1>5. CASE Answer \/ BeginRefresh
  BY <1>2, <1>3, <1>4, <1>5 DEF Answer, BeginRefresh
<1>6. CASE Follow
  <2>1. PICK to \in Urls : walk' = NextRequest(to)
    BY <1>6 DEF Follow
  <2>2. walk'.hops = walk.hops + 1 /\ walk.hops \in Nat
    BY <2>1 DEF NextRequest, IInv, WalkType
  <2>3. QED
    BY <1>2, <1>3, <1>4, <1>6, <2>2 DEF Follow
<1>7. CASE RetryTransient \/ RetryLimited \/ RefreshToken
  BY <1>7, AgainLowersRank DEF RetryTransient, RetryLimited, RefreshToken
<1>8. CASE RefreshFails \/ ReapplyRaises \/ Surface \/ GiveUp
  BY <1>1, <1>8 DEF RefreshFails, ReapplyRaises, Surface, GiveUp, Return
<1>9. CASE RotateToken
  BY <1>9 DEF RotateToken, Rank
<1>10. QED
  BY <1>5, <1>6, <1>7, <1>8, <1>9 DEF Next, Client, RefreshAnswer, Start, StartRaises

\* It is bounded by the attempts that the budgets allow.
LEMMA RankIsBounded ==
    ASSUME IInv
    PROVE  Rank \in 0..(PerAttempt * (MaxAttempts + RateLimitRetries + 1))
<1> DEFINE left == MaxAttempts + RateLimitRetries + 1 - attempt
           most == MaxAttempts + RateLimitRetries + 1
<1>1. CASE pc = "idle"
  <2>1. PerAttempt * most \in Nat
    BY DEF PerAttempt
  <2>2. QED
    BY <1>1, <2>1 DEF Rank
<1>2. CASE pc # "idle"
  <2>1. left \in Nat /\ most \in Nat /\ left < most
    BY <1>2 DEF IInv, BudgetInv, AttemptsBounded
  <2>2. PerAttempt * left \in Nat /\ PerAttempt * left + PerAttempt <= PerAttempt * most
    BY <2>1, AttemptsWeigh DEF PerAttempt
  <2>3. PerAttempt * most \in Nat /\ MaxRedirects - walk.hops \in 0..MaxRedirects
    BY <2>1 DEF PerAttempt, IInv, WalkType
  <2>4. Rank <= PerAttempt * left + 3 * (MaxRedirects - walk.hops) + 3
    <3>1. Rank = PerAttempt * left + 3 * (MaxRedirects - walk.hops)
                 + (IF pc = "sending" THEN 3 ELSE IF pc = "answered" THEN 2 ELSE 1)
      BY <1>2 DEF Rank
    <3> HIDE DEF left
    <3>2. QED
      BY <2>2, <2>3, <3>1
  <2>5. Rank <= PerAttempt * left + PerAttempt
    <3>1. PerAttempt = 3 * MaxRedirects + 4
      BY DEF PerAttempt
    <3>2. 3 * (MaxRedirects - walk.hops) + 3 <= PerAttempt /\ PerAttempt \in Nat
      BY <2>3, <3>1
    <3> HIDE DEF left
    <3>3. QED
      BY <2>2, <2>3, <2>4, <3>2, RankIsNatural
  <2>6. Rank \in 0..(PerAttempt * most)
    <3>1. PerAttempt \in Nat
      BY DEF PerAttempt
    <3> HIDE DEF left, most
    <3>2. QED
      BY <2>2, <2>3, <2>5, <3>1, RankIsNatural
  <2>7. QED
    BY <2>6
<1>3. QED
  BY <1>1, <1>2

\* A dispatch cannot go on for ever: each of its steps lowers a number that the
\* budgets bound, except a rotation of the token, which is the provider's.
THEOREM EveryStepUsesUp ==
    Spec => /\ [](Rank \in 0..(PerAttempt * (MaxAttempts + RateLimitRetries + 1)))
            /\ [][pc # "idle" => Rank' < Rank \/ (RotateToken /\ Rank' = Rank)]_vars
<1>1. IInv => Rank \in 0..(PerAttempt * (MaxAttempts + RateLimitRetries + 1))
  BY RankIsBounded
<1>2. IInv /\ IInv' /\ [Next]_vars
        => [pc # "idle" => Rank' < Rank \/ (RotateToken /\ Rank' = Rank)]_vars
  BY StepLowersRank
<1>3. QED
  BY <1>1, <1>2, Inductive, PTL DEF Spec

--------------------------------------------------------------------------------
\* Side effects, for artifacts that do not permit method-changing redirects.

\* A followed redirect keeps the method.
LEMMA FollowKeepsMethod ==
    ASSUME IInv, EInv, ~AllowMethodChange, Follow
    PROVE  walk'.method = walk.method
<1>1. PICK to \in Urls : walk' = NextRequest(to)
  BY DEF Follow
<1>2. walk.method = "GET" \/ reply = "same_method"
  BY DEF Follow, MayFollow
<1>3. QED
  BY <1>1, <1>2 DEF NextRequest

\* Every step keeps the invariant about side effects.
LEMMA EffectStep ==
    ASSUME IInv, EInv, ~AllowMethodChange, [Next]_vars
    PROVE  EInv'
<1> USE DEF IInv, VerdictInv, EInv, EffectInv, RejectionMeansUntouched
<1>1. ASSUME NEW o \in Operations, Start(o) \/ StartRaises(o) PROVE EInv'
  BY <1>1 DEF Start, StartRaises, FirstRequest, Harmless
<1>2. CASE Answer
  <2>1. PICK r \in Replies \ {"none"} : \E effect \in Effects(r) :
            /\ reply' = r
            /\ applied' = IF effect /\ walk.method = op.method
                            THEN (IF applied = 0 THEN 1 ELSE 2) ELSE applied
    BY <1>2 DEF Answer
  <2>0. PICK effect \in Effects(r) :
            /\ reply' = r
            /\ applied' = IF effect /\ walk.method = op.method
                            THEN (IF applied = 0 THEN 1 ELSE 2) ELSE applied
    BY <2>1
  <2>2. pc = "sending" /\ pc' = "answered" /\ op' = op /\ walk' = walk /\ result' = result
    BY <1>2 DEF Answer
  <2>3. r = "ok" => effect
    BY <2>0 DEF Effects
  <2>4. r \in Harmless => ~effect
    BY <2>0, <2>1 DEF Effects, Harmless
  <2>5. applied' >= 1 \/ r # "ok"
    BY <2>0, <2>2, <2>3
  <2>6. ~Retryable(op) => applied' <= 1 /\ (r \in Harmless => applied' = 0)
    BY <2>0, <2>2, <2>4
  <2>7. Retryable(op') = Retryable(op)
    BY <2>2
  <2>8. QED
    BY <2>0, <2>2, <2>5, <2>6, <2>7
<1>3. CASE RotateToken
  BY <1>3 DEF RotateToken, Retryable
<1>4. CASE UNCHANGED vars
  BY <1>4 DEF vars, Retryable
<1>5. CASE Follow
  <2>1. walk'.method = walk.method
    BY <1>5, FollowKeepsMethod
  <2>2. reply = "same_method" \/ op.method = "GET"
    BY <1>5 DEF Follow, MayFollow
  <2>3. reply = "same_method" => reply \in Harmless
    BY DEF Harmless, Replies, Redirects
  <2>4. QED
    BY <1>5, <2>1, <2>2, <2>3 DEF Follow, Retryable
<1>6. CASE RetryTransient
  BY <1>6 DEF RetryTransient, Again, FirstRequest, Retryable
<1>7. CASE RetryLimited
  <2>1. reply \in Harmless
    BY <1>7 DEF RetryLimited, Harmless, Replies
  <2>2. QED
    BY <1>7, <2>1 DEF RetryLimited, Again, FirstRequest, Retryable
<1>8. CASE BeginRefresh
  <2>1. reply \in Harmless
    BY <1>8 DEF BeginRefresh, Harmless, Replies
  <2>2. QED
    BY <1>8, <2>1 DEF BeginRefresh, Retryable
<1>9. CASE RefreshToken
  BY <1>9 DEF RefreshToken, Again, FirstRequest, Retryable
<1>10. CASE RefreshFails \/ ReapplyRaises
  BY <1>10 DEF RefreshFails, ReapplyRaises, Return, Retryable
<1>11. CASE Surface
  <2>1. Verdict[reply] \in {"rate_limited", "denied", "rejected", "logical"}
          => reply \in Harmless
    BY <1>11 DEF Surface, Verdict, Harmless, Replies
  <2>2. QED
    BY <1>11, <2>1 DEF Surface, Return, Retryable
<1>12. CASE GiveUp
  BY <1>12 DEF GiveUp, Return, Retryable
<1>13. QED
  BY <1>1, <1>2, <1>3, <1>4, <1>5, <1>6, <1>7, <1>8, <1>9, <1>10, <1>11, <1>12
     DEF Next, Client, RefreshAnswer

\* The invariant about side effects holds throughout.
THEOREM EffectInductive == ASSUME ~AllowMethodChange PROVE Spec => []EInv
<1>1. IInv /\ EInv /\ [Next]_vars => EInv'
  BY EffectStep
<1>2. QED
  BY <1>1, InitInv, Inductive, PTL DEF Spec

\* An operation that may not be repeated takes effect at most once.
THEOREM AtMostOnce == ASSUME ~AllowMethodChange PROVE Spec => []NonIdempotentOnce
<1>1. EInv => NonIdempotentOnce
  BY DEF EInv, EffectInv, NonIdempotentOnce
<1>2. QED
  BY <1>1, EffectInductive, PTL

\* A rejection of such an operation means that nothing took effect.
THEOREM RejectionIsClean == ASSUME ~AllowMethodChange PROVE Spec => []RejectionMeansUntouched
<1>1. EInv => RejectionMeansUntouched
  BY DEF EInv
<1>2. QED
  BY <1>1, EffectInductive, PTL

--------------------------------------------------------------------------------
\* Every step of the client or its provider is a step of OperationCall.
LEMMA StepRefines ==
    ASSUME IInv, EInv, ~AllowMethodChange, [Next]_vars
    PROVE  [Call!CallNext]_<<pc # "idle", ~Retryable(op), applied, CallVerdict[result]>>
<1> USE DEF IInv, VerdictInv, EInv, EffectInv, Call!CallNext, CallVerdict
<1>1. ASSUME NEW o \in Operations, Start(o) PROVE Call!Open
  BY <1>1 DEF Start, Call!Open
<1>2. ASSUME NEW o \in Operations, StartRaises(o) PROVE Call!Abandon
  BY <1>2 DEF StartRaises, Call!Abandon
<1>3. CASE Answer
  <2>1. PICK effect \in BOOLEAN :
            applied' = IF effect /\ walk.method = op.method
                         THEN (IF applied = 0 THEN 1 ELSE 2) ELSE applied
    BY <1>3 DEF Answer, Effects
  <2>2. /\ pc = "sending" /\ pc' = "answered" /\ result' = result
        /\ Retryable(op') = Retryable(op)
    BY <1>3 DEF Answer
  <2>3. CASE applied' = applied
    BY <2>2, <2>3
  <2>4. CASE applied' = IF applied = 0 THEN 1 ELSE 2
    BY <2>2, <2>4 DEF Call!TakeEffect
  <2>5. QED
    BY <2>1, <2>3, <2>4
<1>4. CASE RotateToken \/ Follow \/ RetryTransient \/ RetryLimited \/ BeginRefresh
           \/ RefreshToken \/ UNCHANGED vars
  <2>1. /\ (pc' # "idle") = (pc # "idle")
        /\ op' = op /\ applied' = applied /\ result' = result
    BY <1>4 DEF RotateToken, Follow, RetryTransient, RetryLimited, BeginRefresh,
                RefreshToken, Again, vars
  <2>2. QED
    BY <2>1
<1>5. CASE RefreshFails
  BY <1>5 DEF RefreshFails, Return, Call!Close
<1>6. CASE ReapplyRaises
  BY <1>6 DEF ReapplyRaises, Call!Close
<1>7. CASE Surface
  <2>1. /\ pc = "answered" /\ pc' = "idle" /\ applied' = applied
        /\ Retryable(op') = Retryable(op) /\ result' = Verdict[reply]
        /\ reply \in DOMAIN Verdict
    BY <1>7 DEF Surface, Return
  <2>2. CASE reply = "ok"
    BY <2>1, <2>2 DEF Verdict, Call!Close
  <2>3. CASE reply \in {"undecodable", "other"}
    BY <2>1, <2>3 DEF Verdict, Call!Close
  <2>4. CASE reply \in {"logical", "limited", "limited_long", "denied", "client"}
    <3>1. reply \in Harmless
      BY <2>4 DEF Harmless
    <3>2. QED
      BY <2>1, <2>4, <3>1 DEF Verdict, Call!Close
  <2>5. QED
    BY <2>1, <2>2, <2>3, <2>4 DEF Verdict
<1>8. CASE GiveUp
  BY <1>8 DEF GiveUp, Return, Call!Close
<1>9. QED
  BY <1>1, <1>2, <1>3, <1>4, <1>5, <1>6, <1>7, <1>8
     DEF Next, Client, RefreshAnswer

\* The envelope implements the promise about side effects.
THEOREM EnvelopeImplementsCall == ASSUME ~AllowMethodChange PROVE Spec => ImplementsCall
<1>1. Init => Call!CallInit
  BY DEF Init, CallVerdict, Call!CallInit, Retryable, Operations
<1>2. IInv /\ EInv /\ [Next]_vars
        => [Call!CallNext]_<<pc # "idle", ~Retryable(op), applied, CallVerdict[result]>>
  BY StepRefines
<1>3. QED
  BY <1>1, <1>2, Inductive, EffectInductive, PTL
     DEF Spec, ImplementsCall, Call!CallSpec, Call!callVars
================================================================================
