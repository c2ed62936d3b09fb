--------------------------- MODULE SharedClientProofs ---------------------------
(***************************************************************************)
(* Proofs for SharedClient: any number of threads on one client, any       *)
(* budgets and any longest wait.                                           *)
(***************************************************************************)
EXTENDS SharedClient, TLAPS

--------------------------------------------------------------------------------
(* The inductive invariant *)

\* What max() read is still the budget, unless another store came between.
ReadInv == \A t \in Threads : pc[t] = "storing" /\ t \notin stale => read[t] = budget

\* A thread that waits, waits long enough, or could not know.
WaitInv ==
    \A t \in Threads \ excused :
        /\ pc[t] = "waiting" => limit <= left[t]
        /\ pc[t] = "ready" => limit = 0

\* The flag of the client is the memory of every dispatch under way.
FlagInv ==
    /\ ~flag => granted = Threads
    /\ flag => \A t \in Threads : pc[t] \notin Ended => t \in helped

\* The stashed operation is a thread's own, or one of a later dispatch.
StashInv == \A t \in Threads : pc[t] \notin Ended => current \in {t} \cup joined[t]

\* A retry after a 429 is paid for out of what is left.
SpendInv == \A t \in Threads : pc[t] = "storing" => rateLeft[t] > 0

BudgetPart == ReadInv /\ BudgetIsTheLongestWait /\ WaitInv /\ SpendInv
CsrfPart == FlagInv /\ RefreshesOnce /\ DeniedAfterRefresh
DecodePart == StashInv /\ DecodedByOwnOrJoined

IInv == TypeOK /\ BudgetPart /\ CsrfPart /\ DecodePart

--------------------------------------------------------------------------------
(* One lemma for each part *)

LEMMA WaitsAreNaturals ==
    ASSUME NEW a \in 0..MaxWait, NEW b \in 0..MaxWait
    PROVE  MaxOf(a, b) \in 0..MaxWait /\ Less(a) \in 0..MaxWait
  BY SharedAssumption DEF MaxOf, Less

LEMMA AttemptsStayInBounds ==
    ASSUME NEW a \in 0..MaxAttempts PROVE NextAttempt(a) \in 0..MaxAttempts
  BY SharedAssumption DEF NextAttempt

\* Types.
LEMMA TypesKept ==
    ASSUME TypeOK, SpendInv, Next
    PROVE  TypeOK'
<1>1. CASE Tick
  BY <1>1, WaitsAreNaturals DEF Tick, budgetVars, csrfVars, decodeVars, TypeOK,
     Steps, Ended
<1>2. ASSUME NEW t \in Threads, Begin(t) PROVE TypeOK'
  <2>1. joined' \in [Threads -> SUBSET Threads]
    BY <1>2 DEF Begin, TypeOK
  <2>2. pc' \in [Threads -> Steps] /\ decodedBy' \in [Threads -> Threads]
    BY <1>2 DEF Begin, TypeOK, Steps
  <2>3. /\ attempt' \in [Threads -> 0..MaxAttempts]
        /\ rateLeft' \in [Threads -> 0..RateLimitRetries]
    BY <1>2, SharedAssumption DEF Begin, TypeOK
  <2>4. UNCHANGED <<left, read, budgetVars>> /\ current' = t /\ flag' = FALSE
        /\ granted' = Threads /\ helped' \subseteq Threads /\ unlucky' \subseteq Threads
    BY <1>2 DEF Begin, TypeOK
  <2>5. QED
    BY <2>1, <2>2, <2>3, <2>4 DEF TypeOK, budgetVars
<1>3. ASSUME NEW t \in Threads, Step(t) PROVE TypeOK'
  <2>1. CASE CheckBudget(t)
    BY <1>3, <2>1 DEF CheckBudget, Goes, budgetVars, csrfVars, decodeVars, TypeOK,
       Steps, Ended
  <2>2. CASE WakeUp(t)
    BY <1>3, <2>2 DEF WakeUp, Goes, budgetVars, csrfVars, decodeVars, TypeOK, Steps,
       Ended
  <2>3. CASE Send(t)
    BY <1>3, <2>3
    DEF Send, Goes, budgetVars, csrfVars, decodeVars, TypeOK, Steps, Ended
  <2>4. CASE Answer(t)
    <3>1. PICK to \in Steps : Goes(t, "inflight", to)
      BY <2>4 DEF Answer, Steps
    <3>2. pc' \in [Threads -> Steps]
      BY <3>1 DEF Goes, TypeOK
    <3>3. QED
      BY <2>4, <3>2 DEF Answer, budgetVars, csrfVars, decodeVars, TypeOK
  <2>5. CASE RetryTransient(t)
    <3>1. pc' \in [Threads -> Steps] /\ left' \in [Threads -> 0..MaxWait]
      BY <2>5 DEF RetryTransient, Goes, TypeOK, Steps
    <3>2. QED
      BY <2>5, <3>1 DEF RetryTransient, budgetVars, csrfVars, decodeVars, TypeOK
  <2>6. CASE Limited(t)
    <3>1. pc' \in [Threads -> Steps] /\ left' \in [Threads -> 0..MaxWait]
      BY <2>6 DEF Limited, Goes, TypeOK, Steps
    <3>2. read' \in [Threads -> 0..MaxWait] /\ stale' \subseteq Threads
      BY <2>6 DEF Limited, TypeOK
    <3>3. QED
      BY <2>6, <3>1, <3>2 DEF Limited, csrfVars, decodeVars, TypeOK
  <2>7. CASE StoreBudget(t)
    <3>1. budget' \in 0..MaxWait /\ limit' \in 0..MaxWait
      BY <2>7, WaitsAreNaturals DEF StoreBudget, TypeOK
    <3>2. rateLeft' \in [Threads -> 0..RateLimitRetries]
      BY <2>7, SharedAssumption DEF StoreBudget, Goes, TypeOK, SpendInv
    <3>3. pc' \in [Threads -> Steps] /\ stale' \subseteq Threads /\ excused' \subseteq Threads
      BY <2>7 DEF StoreBudget, Goes, TypeOK, Steps
    <3>4. lost' \in BOOLEAN
      BY <2>7 DEF StoreBudget, TypeOK
    <3>5. QED
      BY <2>7, <3>1, <3>2, <3>3, <3>4 DEF StoreBudget, csrfVars, decodeVars, TypeOK
  <2>8. CASE Again(t)
    BY <1>3, <2>8, AttemptsStayInBounds DEF Again, Goes, budgetVars, csrfVars,
       decodeVars, TypeOK, Steps, Ended
  <2>9. CASE NoRefresh(t)
    BY <1>3, <2>9 DEF NoRefresh, Goes, budgetVars, csrfVars, decodeVars, TypeOK,
       Steps, Ended
  <2>10. CASE BeginRefresh(t)
    BY <1>3, <2>10 DEF BeginRefresh, Goes, budgetVars, csrfVars, decodeVars, TypeOK,
       Steps, Ended
  <2>11. CASE Refresh(t)
    BY <1>3, <2>11, AttemptsStayInBounds DEF Refresh, Goes, budgetVars, csrfVars,
       decodeVars, TypeOK, Steps, Ended
  <2>12. CASE RefreshFails(t)
    BY <1>3, <2>12 DEF RefreshFails, Goes, budgetVars, csrfVars, decodeVars, TypeOK,
       Steps, Ended
  <2>13. CASE Decode(t)
    BY <1>3, <2>13 DEF Decode, Goes, budgetVars, csrfVars, decodeVars, TypeOK,
       Steps, Ended
  <2>14. QED
    BY <1>3, <2>1, <2>2, <2>3, <2>4, <2>5, <2>6, <2>7, <2>8, <2>9, <2>10, <2>11,
       <2>12, <2>13
    DEF Step, OwnStep, RefreshAnswer
<1>4. QED
  BY <1>1, <1>2, <1>3 DEF Next

\* The rate budget, read and written without a lock.
LEMMA BudgetKept ==
    ASSUME TypeOK, BudgetPart, Next
    PROVE  BudgetPart'
<1>1. CASE Tick
  BY <1>1, SharedAssumption DEF Tick, budgetVars, csrfVars, decodeVars, TypeOK,
     Steps, Ended, BudgetPart, ReadInv, BudgetIsTheLongestWait, WaitInv, SpendInv,
     Less
<1>2. ASSUME NEW t \in Threads, Begin(t) PROVE BudgetPart'
  BY <1>2, SharedAssumption DEF Begin, budgetVars, csrfVars, decodeVars, TypeOK,
     Steps, Ended, BudgetPart, ReadInv, BudgetIsTheLongestWait, WaitInv, SpendInv
<1>3. ASSUME NEW t \in Threads, Step(t) PROVE BudgetPart'
  <2>1. CASE CheckBudget(t)
    BY <1>3, <2>1, SharedAssumption DEF CheckBudget, Goes, budgetVars, csrfVars,
       decodeVars, TypeOK, Steps, Ended, BudgetPart, ReadInv,
       BudgetIsTheLongestWait, WaitInv, SpendInv
  <2>2. CASE WakeUp(t)
    BY <1>3, <2>2, SharedAssumption DEF WakeUp, Goes, budgetVars, csrfVars,
       decodeVars, TypeOK, Steps, Ended, BudgetPart, ReadInv,
       BudgetIsTheLongestWait, WaitInv, SpendInv
  <2>3. CASE Send(t)
    BY <1>3, <2>3, SharedAssumption DEF Send, Goes, budgetVars, csrfVars,
       decodeVars, TypeOK, Steps, Ended, BudgetPart, ReadInv,
       BudgetIsTheLongestWait, WaitInv, SpendInv
  <2>4. CASE Answer(t)
    BY <1>3, <2>4, SharedAssumption DEF Answer, Goes, budgetVars, csrfVars,
       decodeVars, TypeOK, Steps, Ended, BudgetPart, ReadInv,
       BudgetIsTheLongestWait, WaitInv, SpendInv
  <2>5. CASE RetryTransient(t)
    BY <1>3, <2>5, SharedAssumption DEF RetryTransient, Goes, budgetVars, csrfVars,
       decodeVars, TypeOK, Steps, Ended, BudgetPart, ReadInv,
       BudgetIsTheLongestWait, WaitInv, SpendInv
  <2>6. CASE Limited(t)
    BY <1>3, <2>6, SharedAssumption DEF Limited, Goes, budgetVars, csrfVars,
       decodeVars, TypeOK, Steps, Ended, BudgetPart, ReadInv,
       BudgetIsTheLongestWait, WaitInv, SpendInv
  <2>7. CASE StoreBudget(t)
    <3>1. ReadInv' /\ SpendInv'
      BY <2>7, SharedAssumption
      DEF StoreBudget, Goes, TypeOK, BudgetPart, ReadInv, SpendInv, decodeVars, csrfVars
    <3>2. BudgetIsTheLongestWait'
      <4>1. ASSUME budget' < limit' PROVE lost \/ t \in stale
        <5>1. budget' = MaxOf(read[t], left[t]) /\ limit' = MaxOf(limit, left[t])
          BY <2>7 DEF StoreBudget
        <5>2. t \notin stale => read[t] = budget
          BY <2>7 DEF StoreBudget, Goes, BudgetPart, ReadInv
        <5>3. t \notin stale => budget < limit
          BY <4>1, <5>1, <5>2, SharedAssumption DEF MaxOf, TypeOK
        <5>4. QED
          BY <5>3 DEF BudgetPart, BudgetIsTheLongestWait
      <4>2. lost' = (budget' < limit' /\ (lost \/ t \in stale))
        BY <2>7 DEF StoreBudget
      <4>3. QED
        BY <4>1, <4>2 DEF BudgetIsTheLongestWait
    <3>3. WaitInv'
      BY <2>7, SharedAssumption DEF StoreBudget, Goes, TypeOK, BudgetPart, WaitInv,
         MaxOf
    <3>4. QED
      BY <3>1, <3>2, <3>3 DEF BudgetPart
  <2>8. CASE Again(t)
    BY <1>3, <2>8, SharedAssumption DEF Again, Goes, budgetVars, csrfVars,
       decodeVars, TypeOK, Steps, Ended, BudgetPart, ReadInv,
       BudgetIsTheLongestWait, WaitInv, SpendInv
  <2>9. CASE NoRefresh(t)
    BY <1>3, <2>9, SharedAssumption DEF NoRefresh, Goes, budgetVars, csrfVars,
       decodeVars, TypeOK, Steps, Ended, BudgetPart, ReadInv,
       BudgetIsTheLongestWait, WaitInv, SpendInv
  <2>10. CASE BeginRefresh(t)
    BY <1>3, <2>10, SharedAssumption DEF BeginRefresh, Goes, budgetVars, csrfVars,
       decodeVars, TypeOK, Steps, Ended, BudgetPart, ReadInv,
       BudgetIsTheLongestWait, WaitInv, SpendInv
  <2>11. CASE Refresh(t)
    BY <1>3, <2>11, SharedAssumption DEF Refresh, Goes, budgetVars, csrfVars,
       decodeVars, TypeOK, Steps, Ended, BudgetPart, ReadInv,
       BudgetIsTheLongestWait, WaitInv, SpendInv
  <2>12. CASE RefreshFails(t)
    BY <1>3, <2>12, SharedAssumption DEF RefreshFails, Goes, budgetVars, csrfVars,
       decodeVars, TypeOK, Steps, Ended, BudgetPart, ReadInv,
       BudgetIsTheLongestWait, WaitInv, SpendInv
  <2>13. CASE Decode(t)
    BY <1>3, <2>13, SharedAssumption DEF Decode, Goes, budgetVars, csrfVars,
       decodeVars, TypeOK, Steps, Ended, BudgetPart, ReadInv,
       BudgetIsTheLongestWait, WaitInv, SpendInv
  <2>14. QED
    BY <1>3, <2>1, <2>2, <2>3, <2>4, <2>5, <2>6, <2>7, <2>8, <2>9, <2>10, <2>11,
       <2>12, <2>13
    DEF Step, OwnStep, RefreshAnswer
<1>4. QED
  BY <1>1, <1>2, <1>3 DEF Next

\* The flag, which every dispatch resets and every refresh sets.
LEMMA CsrfKept ==
    ASSUME TypeOK, CsrfPart, Next
    PROVE  CsrfPart'
<1>1. CASE Tick
  BY <1>1 DEF Tick, budgetVars, csrfVars, decodeVars, TypeOK, Steps, Ended,
     CsrfPart, FlagInv, RefreshesOnce, DeniedAfterRefresh
<1>2. ASSUME NEW t \in Threads, Begin(t) PROVE CsrfPart'
  BY <1>2 DEF Begin, budgetVars, csrfVars, decodeVars, TypeOK, Steps, Ended,
     CsrfPart, FlagInv, RefreshesOnce, DeniedAfterRefresh
<1>3. ASSUME NEW t \in Threads, Step(t) PROVE CsrfPart'
  <2>1. CASE CheckBudget(t)
    BY <1>3, <2>1 DEF CheckBudget, Goes, budgetVars, csrfVars, decodeVars, TypeOK,
       Steps, Ended, CsrfPart, FlagInv, RefreshesOnce, DeniedAfterRefresh
  <2>2. CASE WakeUp(t)
    BY <1>3, <2>2 DEF WakeUp, Goes, budgetVars, csrfVars, decodeVars, TypeOK, Steps,
       Ended, CsrfPart, FlagInv, RefreshesOnce, DeniedAfterRefresh
  <2>3. CASE Send(t)
    BY <1>3, <2>3 DEF Send, Goes, budgetVars, csrfVars, decodeVars, TypeOK, Steps,
       Ended, CsrfPart, FlagInv, RefreshesOnce, DeniedAfterRefresh
  <2>4. CASE Answer(t)
    BY <1>3, <2>4 DEF Answer, Goes, budgetVars, csrfVars, decodeVars, TypeOK, Steps,
       Ended, CsrfPart, FlagInv, RefreshesOnce, DeniedAfterRefresh
  <2>5. CASE RetryTransient(t)
    BY <1>3, <2>5 DEF RetryTransient, Goes, budgetVars, csrfVars, decodeVars,
       TypeOK, Steps, Ended, CsrfPart, FlagInv, RefreshesOnce, DeniedAfterRefresh
  <2>6. CASE Limited(t)
    BY <1>3, <2>6 DEF Limited, Goes, budgetVars, csrfVars, decodeVars, TypeOK,
       Steps, Ended, CsrfPart, FlagInv, RefreshesOnce, DeniedAfterRefresh
  <2>7. CASE StoreBudget(t)
    BY <1>3, <2>7 DEF StoreBudget, Goes, budgetVars, csrfVars, decodeVars, TypeOK,
       Steps, Ended, CsrfPart, FlagInv, RefreshesOnce, DeniedAfterRefresh
  <2>8. CASE Again(t)
    BY <1>3, <2>8 DEF Again, Goes, budgetVars, csrfVars, decodeVars, TypeOK, Steps,
       Ended, CsrfPart, FlagInv, RefreshesOnce, DeniedAfterRefresh
  <2>9. CASE NoRefresh(t)
    BY <1>3, <2>9 DEF NoRefresh, Goes, budgetVars, csrfVars, decodeVars, TypeOK,
       Steps, Ended, CsrfPart, FlagInv, RefreshesOnce, DeniedAfterRefresh
  <2>10. CASE BeginRefresh(t)
    BY <1>3, <2>10 DEF BeginRefresh, Goes, budgetVars, csrfVars, decodeVars, TypeOK,
       Steps, Ended, CsrfPart, FlagInv, RefreshesOnce, DeniedAfterRefresh
  <2>11. CASE Refresh(t)
    BY <1>3, <2>11 DEF Refresh, Goes, budgetVars, csrfVars, decodeVars, TypeOK,
       Steps, Ended, CsrfPart, FlagInv, RefreshesOnce, DeniedAfterRefresh
  <2>12. CASE RefreshFails(t)
    BY <1>3, <2>12 DEF RefreshFails, Goes, budgetVars, csrfVars, decodeVars, TypeOK,
       Steps, Ended, CsrfPart, FlagInv, RefreshesOnce, DeniedAfterRefresh
  <2>13. CASE Decode(t)
    BY <1>3, <2>13 DEF Decode, Goes, budgetVars, csrfVars, decodeVars, TypeOK,
       Steps, Ended, CsrfPart, FlagInv, RefreshesOnce, DeniedAfterRefresh
  <2>14. QED
    BY <1>3, <2>1, <2>2, <2>3, <2>4, <2>5, <2>6, <2>7, <2>8, <2>9, <2>10, <2>11,
       <2>12, <2>13
    DEF Step, OwnStep, RefreshAnswer
<1>4. QED
  BY <1>1, <1>2, <1>3 DEF Next

\* The operation in flight, which every dispatch overwrites.
LEMMA DecodeKept ==
    ASSUME TypeOK, DecodePart, Next
    PROVE  DecodePart'
<1>1. CASE Tick
  BY <1>1 DEF Tick, budgetVars, csrfVars, decodeVars, TypeOK, Steps, Ended,
     DecodePart, StashInv, DecodedByOwnOrJoined
<1>2. ASSUME NEW t \in Threads, Begin(t) PROVE DecodePart'
  BY <1>2 DEF Begin, budgetVars, csrfVars, decodeVars, TypeOK, Steps, Ended,
     DecodePart, StashInv, DecodedByOwnOrJoined
<1>3. ASSUME NEW t \in Threads, Step(t) PROVE DecodePart'
  <2>1. CASE CheckBudget(t)
    BY <1>3, <2>1 DEF CheckBudget, Goes, budgetVars, csrfVars, decodeVars, TypeOK,
       Steps, Ended, DecodePart, StashInv, DecodedByOwnOrJoined
  <2>2. CASE WakeUp(t)
    BY <1>3, <2>2 DEF WakeUp, Goes, budgetVars, csrfVars, decodeVars, TypeOK, Steps,
       Ended, DecodePart, StashInv, DecodedByOwnOrJoined
  <2>3. CASE Send(t)
    BY <1>3, <2>3 DEF Send, Goes, budgetVars, csrfVars, decodeVars, TypeOK, Steps,
       Ended, DecodePart, StashInv, DecodedByOwnOrJoined
  <2>4. CASE Answer(t)
    BY <1>3, <2>4 DEF Answer, Goes, budgetVars, csrfVars, decodeVars, TypeOK, Steps,
       Ended, DecodePart, StashInv, DecodedByOwnOrJoined
  <2>5. CASE RetryTransient(t)
    BY <1>3, <2>5 DEF RetryTransient, Goes, budgetVars, csrfVars, decodeVars,
       TypeOK, Steps, Ended, DecodePart, StashInv, DecodedByOwnOrJoined
  <2>6. CASE Limited(t)
    BY <1>3, <2>6 DEF Limited, Goes, budgetVars, csrfVars, decodeVars, TypeOK,
       Steps, Ended, DecodePart, StashInv, DecodedByOwnOrJoined
  <2>7. CASE StoreBudget(t)
    BY <1>3, <2>7 DEF StoreBudget, Goes, budgetVars, csrfVars, decodeVars, TypeOK,
       Steps, Ended, DecodePart, StashInv, DecodedByOwnOrJoined
  <2>8. CASE Again(t)
    BY <1>3, <2>8 DEF Again, Goes, budgetVars, csrfVars, decodeVars, TypeOK, Steps,
       Ended, DecodePart, StashInv, DecodedByOwnOrJoined
  <2>9. CASE NoRefresh(t)
    BY <1>3, <2>9 DEF NoRefresh, Goes, budgetVars, csrfVars, decodeVars, TypeOK,
       Steps, Ended, DecodePart, StashInv, DecodedByOwnOrJoined
  <2>10. CASE BeginRefresh(t)
    BY <1>3, <2>10 DEF BeginRefresh, Goes, budgetVars, csrfVars, decodeVars, TypeOK,
       Steps, Ended, DecodePart, StashInv, DecodedByOwnOrJoined
  <2>11. CASE Refresh(t)
    BY <1>3, <2>11 DEF Refresh, Goes, budgetVars, csrfVars, decodeVars, TypeOK,
       Steps, Ended, DecodePart, StashInv, DecodedByOwnOrJoined
  <2>12. CASE RefreshFails(t)
    BY <1>3, <2>12 DEF RefreshFails, Goes, budgetVars, csrfVars, decodeVars, TypeOK,
       Steps, Ended, DecodePart, StashInv, DecodedByOwnOrJoined
  <2>13. CASE Decode(t)
    BY <1>3, <2>13 DEF Decode, Goes, budgetVars, csrfVars, decodeVars, TypeOK,
       Steps, Ended, DecodePart, StashInv, DecodedByOwnOrJoined
  <2>14. QED
    BY <1>3, <2>1, <2>2, <2>3, <2>4, <2>5, <2>6, <2>7, <2>8, <2>9, <2>10, <2>11,
       <2>12, <2>13
    DEF Step, OwnStep, RefreshAnswer
<1>4. QED
  BY <1>1, <1>2, <1>3 DEF Next

--------------------------------------------------------------------------------
(* The theorems *)

\* IInv is invariant: what a thread knows of the attributes it shares.
THEOREM Inductive == Spec => []IInv
<1>1. Init => IInv
  <2>1. Init => TypeOK
    <3>1. Init => joined \in [Threads -> SUBSET Threads]
      BY DEF Init
    <3>2. Init => pc \in [Threads -> Steps] /\ decodedBy \in [Threads -> Threads]
      BY DEF Init, Steps
    <3>3. Init => /\ left \in [Threads -> 0..MaxWait] /\ read \in [Threads -> 0..MaxWait]
                  /\ attempt \in [Threads -> 0..MaxAttempts]
                  /\ rateLeft \in [Threads -> 0..RateLimitRetries]
      <4>1. /\ 0 \in 0..MaxWait /\ 0 \in 0..MaxAttempts
            /\ RateLimitRetries \in 0..RateLimitRetries
        BY SharedAssumption
      <4>2. QED
        BY <4>1 DEF Init
    <3>4. Init => budget \in 0..MaxWait /\ limit \in 0..MaxWait
      BY SharedAssumption DEF Init
    <3>5. Init => flag \in BOOLEAN /\ lost \in BOOLEAN
      BY DEF Init
    <3>6. Init => /\ current \in Threads /\ stale \subseteq Threads
                  /\ excused \subseteq Threads /\ granted \subseteq Threads
                  /\ helped \subseteq Threads /\ unlucky \subseteq Threads
      BY DEF Init
    <3>7. QED
      BY <3>1, <3>2, <3>3, <3>4, <3>5, <3>6 DEF TypeOK
  <2>2. Init => BudgetPart /\ CsrfPart /\ DecodePart
    BY DEF Init, Ended, BudgetPart, ReadInv, BudgetIsTheLongestWait, WaitInv, SpendInv,
       CsrfPart, FlagInv, RefreshesOnce, DeniedAfterRefresh, DecodePart, StashInv,
       DecodedByOwnOrJoined
  <2>3. QED
    BY <2>1, <2>2 DEF IInv
<1>2. IInv /\ [Next]_vars => IInv'
  <2> SUFFICES ASSUME IInv, [Next]_vars PROVE IInv'
    OBVIOUS
  <2>1. CASE Next
    BY <2>1, TypesKept, BudgetKept, CsrfKept, DecodeKept DEF IInv, BudgetPart
  <2>2. CASE UNCHANGED vars
    BY <2>2 DEF vars, budgetVars, csrfVars, decodeVars, IInv, TypeOK, BudgetPart,
       ReadInv, BudgetIsTheLongestWait, WaitInv, SpendInv, CsrfPart, FlagInv, RefreshesOnce,
       DeniedAfterRefresh, DecodePart, StashInv, DecodedByOwnOrJoined
  <2>3. QED
    BY <2>1, <2>2
<1>3. QED
  BY <1>1, <1>2, PTL DEF Spec

\* Every reachable state of the shared client is well typed.
THEOREM TypeCorrect == Spec => []TypeOK
<1>1. IInv => TypeOK
  BY DEF IInv
<1>2. QED
  BY <1>1, Inductive, PTL

\* Only overlapping stores make the budget shorter than the longest wait.
THEOREM BudgetCoversWaits == Spec => []BudgetIsTheLongestWait
<1>1. IInv => BudgetIsTheLongestWait
  BY DEF IInv, BudgetPart
<1>2. QED
  BY <1>1, Inductive, PTL

\* A second refresh in a dispatch needs a dispatch that began after the first.
THEOREM OneRefresh == Spec => []RefreshesOnce
<1>1. IInv => RefreshesOnce
  BY DEF IInv, CsrfPart
<1>2. QED
  BY <1>1, Inductive, PTL

\* A denial follows a refresh, or the failure of the thread's own.
THEOREM DenialFollowsRefresh == Spec => []DeniedAfterRefresh
<1>1. IInv => DeniedAfterRefresh
  BY DEF IInv, CsrfPart
<1>2. QED
  BY <1>1, Inductive, PTL

\* Formats are a thread's own, or those of a dispatch begun in between.
THEOREM DecodingIsExplained == Spec => []DecodedByOwnOrJoined
<1>1. IInv => DecodedByOwnOrJoined
  BY DEF IInv, DecodePart
<1>2. QED
  BY <1>1, Inductive, PTL

\* Nothing is sent during a wait by a thread that could know of it.
THEOREM WaitsAreHonoured == Spec => LimitIsWaitedOut
<1>1. ASSUME IInv, [Next]_vars, NEW t \in Threads,
             pc[t] = "ready", pc'[t] = "inflight", limit > 0
      PROVE  t \in excused
  BY <1>1, SharedAssumption DEF IInv, TypeOK, BudgetPart, WaitInv
<1>2. IInv /\ [Next]_vars => [\A t \in Threads :
           pc[t] = "ready" /\ pc'[t] = "inflight" /\ limit > 0 => t \in excused]_vars
  BY <1>1
<1>3. QED
  BY <1>2, Inductive, PTL DEF Spec, LimitIsWaitedOut

--------------------------------------------------------------------------------
\* What DispatchesEnd rests on: a thread's steps use up what it has left, and
\* the other threads' do not give it more.

\* The refresh that the flag still allows to a thread.
RefreshLeft(t) == IF flag /\ pc[t] # "refreshing" THEN 0 ELSE 1

\* What pays for another iteration of a thread's retry loop.
Credit(t) == (MaxAttempts - attempt[t]) + rateLeft[t] + RefreshLeft(t)

\* The steps and ticks until the end of an iteration.  A pause without attempts
\* left is that of a 429, which has paid already for the iteration after it.
Phase(t) ==
    IF pc[t] \in {"decoding", "refreshing"} THEN 1
    ELSE IF pc[t] \in {"answered", "storing"} THEN 2
    ELSE IF pc[t] = "inflight" THEN MaxWait + 3
    ELSE IF pc[t] = "ready" THEN MaxWait + 4
    ELSE IF pc[t] = "waiting" THEN MaxWait + 5 + left[t]
    ELSE IF pc[t] = "checking" THEN 2 * MaxWait + 6
    ELSE IF attempt[t] < MaxAttempts THEN 1 + left[t]
    ELSE 2 * MaxWait + 7 + left[t]

PerAttempt == 3 * MaxWait + 8

Rank(t) == IF pc[t] \in Ended THEN 0 ELSE PerAttempt * Credit(t) + Phase(t)

\* An iteration is worth more than its steps.
LEMMA CreditWeighs ==
    ASSUME NEW w \in Nat, NEW x \in Nat, NEW y \in Nat, x < y
    PROVE  w * x + w <= w * y
<1>1. PICK d \in Nat : y = x + 1 + d
  <2>1. y - (x + 1) \in Nat
    OBVIOUS
  <2>2. QED
    BY <2>1
<1>2. w * d \in Nat /\ w * x \in Nat /\ w * y = w * x + w + w * d
  BY <1>1
<1>3. QED
  BY <1>2

\* Credit and phase are numbers, and a phase fits into an iteration.
RankTypes ==
    \A t \in Threads :
        /\ Credit(t) \in Nat /\ Phase(t) \in 1..(PerAttempt - 1)
        /\ PerAttempt * Credit(t) \in Nat
        /\ Rank(t) \in Nat /\ (pc[t] \notin Ended => Rank(t) > 0)

LEMMA RankIsNatural == TypeOK => RankTypes
<1> SUFFICES ASSUME TypeOK, NEW t \in Threads
             PROVE  /\ Credit(t) \in Nat /\ Phase(t) \in 1..(PerAttempt - 1)
                    /\ PerAttempt * Credit(t) \in Nat
                    /\ Rank(t) \in Nat /\ (pc[t] \notin Ended => Rank(t) > 0)
  BY DEF RankTypes
<1>1. Credit(t) \in Nat
  <2>1. MaxAttempts - attempt[t] \in Nat /\ rateLeft[t] \in Nat /\ RefreshLeft(t) \in {0, 1}
    BY SharedAssumption DEF TypeOK, RefreshLeft
  <2>2. QED
    BY <2>1 DEF Credit
<1>2. Phase(t) \in 1..(PerAttempt - 1) /\ PerAttempt \in Nat
  <2>1. left[t] \in 0..MaxWait /\ MaxWait \in Nat
    BY SharedAssumption DEF TypeOK
  <2>2. QED
    BY <2>1 DEF Phase, PerAttempt
<1>3. PerAttempt * Credit(t) \in Nat
  BY <1>1, <1>2
<1>4. QED
  BY <1>1, <1>2, <1>3 DEF Rank

\* Less credit outweighs every phase; with the same, the phase decides.
LEMMA RankOrder ==
    ASSUME TypeOK, TypeOK', NEW t \in Threads, pc[t] \notin Ended
    PROVE  /\ pc'[t] \in Ended => Rank(t)' < Rank(t)
           /\ Credit(t)' < Credit(t) => Rank(t)' < Rank(t)
           /\ Credit(t)' <= Credit(t) /\ Phase(t)' < Phase(t) => Rank(t)' < Rank(t)
           /\ Credit(t)' <= Credit(t) /\ Phase(t)' <= Phase(t) => Rank(t)' <= Rank(t)
<1> DEFINE a == Credit(t)
           b == Credit(t)'
           m == Phase(t)
           n == Phase(t)'
<1>1. /\ a \in Nat /\ b \in Nat /\ m \in 1..(PerAttempt - 1) /\ n \in 1..(PerAttempt - 1)
      /\ PerAttempt \in Nat /\ PerAttempt * a \in Nat /\ PerAttempt * b \in Nat
      /\ Rank(t) \in Nat /\ Rank(t) > 0
  <2>1. RankTypes /\ RankTypes'
    BY RankIsNatural, PTL
  <2>2. PerAttempt \in Nat
    BY SharedAssumption DEF PerAttempt
  <2>3. PerAttempt' = PerAttempt
    BY DEF PerAttempt
  <2>4. QED
    BY <2>1, <2>2, <2>3 DEF RankTypes
<1>2. Rank(t) = PerAttempt * a + m
  BY DEF Rank
<1>3. pc'[t] \in Ended => Rank(t)' = 0
  BY DEF Rank
<1>4. pc'[t] \notin Ended => Rank(t)' = PerAttempt * b + n
  BY DEF Rank, PerAttempt
<1>5. b < a => PerAttempt * b + PerAttempt <= PerAttempt * a
  BY <1>1, CreditWeighs
<1>6. b <= a => b < a \/ PerAttempt * b = PerAttempt * a
  BY <1>1
<1> HIDE DEF a, b, m, n
<1>7. b < a => PerAttempt * b + n < PerAttempt * a + m
  BY <1>1, <1>5
<1>8. b <= a /\ n < m => PerAttempt * b + n < PerAttempt * a + m
  BY <1>1, <1>6, <1>7
<1>9. b <= a /\ n <= m => PerAttempt * b + n <= PerAttempt * a + m
  BY <1>1, <1>6, <1>7
<1>10. QED
  BY <1>1, <1>2, <1>3, <1>4, <1>7, <1>8, <1>9 DEF a, b, m, n

\* Each step of a thread lowers its rank.
LEMMA OwnStepLowersRank ==
    ASSUME TypeOK, TypeOK', NEW t \in Threads, Step(t)
    PROVE  Rank(t)' < Rank(t)
<1>1. /\ pc[t] \in Steps /\ MaxWait \in Nat /\ MaxAttempts \in Nat
      /\ left[t] \in 0..MaxWait /\ left'[t] \in 0..MaxWait
      /\ attempt[t] \in 0..MaxAttempts /\ attempt'[t] \in 0..MaxAttempts
      /\ rateLeft[t] \in Nat /\ rateLeft'[t] \in Nat
      /\ Threads = DOMAIN pc /\ Threads = DOMAIN attempt /\ Threads = DOMAIN left
      /\ Threads = DOMAIN rateLeft
  BY SharedAssumption DEF TypeOK
<1>2. RefreshLeft(t) \in {0, 1} /\ RefreshLeft(t)' \in {0, 1}
  BY DEF RefreshLeft
<1>3. pc[t] \notin Ended
  BY DEF Step, OwnStep, RefreshAnswer, CheckBudget, WakeUp, Send, Answer, RetryTransient, Limited, StoreBudget,
     Again, NoRefresh, BeginRefresh, Refresh, RefreshFails, Decode, Goes, Ended
<1>4. CASE CheckBudget(t) \/ WakeUp(t) \/ Send(t)
  <2>1. /\ flag' = flag /\ attempt' = attempt /\ rateLeft' = rateLeft
        /\ pc[t] # "refreshing" /\ pc'[t] # "refreshing"
    BY <1>1, <1>4 DEF CheckBudget, WakeUp, Send, Goes, csrfVars
  <2>2. Credit(t)' = Credit(t)
    BY <2>1 DEF Credit, RefreshLeft
  <2>3. Phase(t)' < Phase(t)
    <3>1. CASE CheckBudget(t)
      <4>1. /\ pc[t] = "checking" /\ left'[t] = budget /\ budget \in 0..MaxWait
            /\ pc'[t] = IF budget > 0 THEN "waiting" ELSE "ready"
        BY <1>1, <3>1 DEF CheckBudget, Goes, TypeOK
      <4>2. QED
        BY <1>1, <4>1 DEF Phase
    <3>2. CASE WakeUp(t)
      <4>1. pc[t] = "waiting" /\ pc'[t] = "ready" /\ left[t] = 0
        BY <1>1, <3>2 DEF WakeUp, Goes
      <4>2. QED
        BY <1>1, <4>1 DEF Phase
    <3>3. CASE Send(t)
      <4>1. pc[t] = "ready" /\ pc'[t] = "inflight"
        BY <1>1, <3>3 DEF Send, Goes
      <4>2. QED
        BY <1>1, <4>1 DEF Phase
    <3>4. QED
      BY <1>4, <3>1, <3>2, <3>3
  <2>4. QED
    BY <1>3, <2>2, <2>3, RankOrder, RankIsNatural DEF RankTypes
<1>5. CASE Answer(t) \/ RetryTransient(t) \/ Limited(t)
  <2>1. /\ flag' = flag /\ attempt' = attempt /\ rateLeft' = rateLeft
        /\ pc[t] = "inflight" /\ pc'[t] # "refreshing"
    BY <1>1, <1>5 DEF Answer, RetryTransient, Limited, Goes, csrfVars
  <2>2. Credit(t)' = Credit(t)
    BY <2>1 DEF Credit, RefreshLeft
  <2>3. pc'[t] \in Ended \/ Phase(t)' < Phase(t)
    <3>1. Phase(t) = MaxWait + 3
      BY <2>1 DEF Phase
    <3>2. CASE Answer(t)
      <4>1. pc'[t] \in {"decoding", "answered", "error"}
        BY <1>1, <3>2 DEF Answer, Goes
      <4>2. pc'[t] = "error" \/ Phase(t)' \in {1, 2}
        BY <4>1 DEF Phase
      <4>3. QED
        BY <1>1, <3>1, <4>2 DEF Ended
    <3>3. CASE RetryTransient(t)
      <4>1. pc'[t] = "pausing" /\ attempt'[t] < MaxAttempts
        BY <1>1, <3>3 DEF RetryTransient, Goes
      <4>2. Phase(t)' = 1 + left'[t]
        BY <4>1 DEF Phase
      <4>3. QED
        BY <1>1, <3>1, <4>2
    <3>4. CASE Limited(t)
      <4>1. pc'[t] = "storing"
        BY <1>1, <3>4 DEF Limited, Goes
      <4>2. Phase(t)' = 2
        BY <4>1 DEF Phase
      <4>3. QED
        BY <1>1, <3>1, <4>2
    <3>5. QED
      BY <1>5, <3>2, <3>3, <3>4
  <2>4. QED
    BY <1>3, <2>2, <2>3, RankOrder, RankIsNatural DEF RankTypes
<1>6. CASE StoreBudget(t)
  <2>1. /\ flag' = flag /\ attempt' = attempt /\ rateLeft'[t] = rateLeft[t] - 1
        /\ pc[t] # "refreshing" /\ pc'[t] # "refreshing"
    BY <1>1, <1>6 DEF StoreBudget, Goes, csrfVars
  <2>2. Credit(t)' < Credit(t)
    BY <1>1, <1>2, <2>1 DEF Credit, RefreshLeft
  <2>3. QED
    BY <1>3, <2>2, RankOrder
<1>7. CASE Again(t)
  <2>1. /\ flag' = flag /\ rateLeft' = rateLeft /\ attempt'[t] = NextAttempt(attempt[t])
        /\ pc[t] = "pausing" /\ pc'[t] = "checking"
    BY <1>1, <1>7 DEF Again, Goes, csrfVars
  <2>2. CASE attempt[t] < MaxAttempts
    <3>1. Credit(t)' < Credit(t)
      BY <1>1, <1>2, <2>1, <2>2 DEF Credit, RefreshLeft, NextAttempt
    <3>2. QED
      BY <1>3, <3>1, RankOrder
  <2>3. CASE ~(attempt[t] < MaxAttempts)
    <3>1. Credit(t)' = Credit(t)
      BY <2>1, <2>3 DEF Credit, RefreshLeft, NextAttempt
    <3>2. Phase(t)' < Phase(t)
      BY <1>1, <2>1, <2>3 DEF Phase
    <3>3. QED
      BY <1>3, <3>1, <3>2, RankOrder, RankIsNatural DEF RankTypes
  <2>4. QED
    BY <2>2, <2>3
<1>8. CASE NoRefresh(t) \/ RefreshFails(t) \/ Decode(t)
  <2>1. pc'[t] \in Ended
    BY <1>1, <1>8 DEF NoRefresh, RefreshFails, Decode, Goes, Ended
  <2>2. QED
    BY <1>3, <2>1, RankOrder
<1>9. CASE BeginRefresh(t)
  <2>1. /\ ~flag /\ flag' = flag /\ attempt' = attempt /\ rateLeft' = rateLeft
        /\ pc[t] = "answered" /\ pc'[t] = "refreshing"
    BY <1>1, <1>9 DEF BeginRefresh, Goes, csrfVars
  <2>2. Credit(t)' = Credit(t)
    BY <2>1 DEF Credit, RefreshLeft
  <2>3. Phase(t)' < Phase(t)
    BY <2>1 DEF Phase
  <2>4. QED
    BY <1>3, <2>2, <2>3, RankOrder, RankIsNatural DEF RankTypes
<1>10. CASE Refresh(t)
  <2>1. /\ flag' /\ rateLeft' = rateLeft /\ attempt'[t] = NextAttempt(attempt[t])
        /\ pc[t] = "refreshing" /\ pc'[t] = "checking"
    BY <1>1, <1>10 DEF Refresh, Goes
  <2>2. RefreshLeft(t) = 1 /\ RefreshLeft(t)' = 0
    BY <2>1 DEF RefreshLeft
  <2>3. Credit(t)' < Credit(t)
    BY <1>1, <2>1, <2>2 DEF Credit, NextAttempt
  <2>4. QED
    BY <1>3, <2>3, RankOrder
<1>11. QED
  BY <1>4, <1>5, <1>6, <1>7, <1>8, <1>9, <1>10 DEF Step, OwnStep, RefreshAnswer

\* A thread's own variables are its own.
LEMMA OthersLeaveAlone ==
    ASSUME TypeOK, NEW t \in Threads, NEW s \in Threads, s # t, Step(s) \/ Begin(s)
    PROVE  /\ pc'[t] = pc[t] /\ left'[t] = left[t]
           /\ attempt'[t] = attempt[t] /\ rateLeft'[t] = rateLeft[t]
<1>1. /\ \A u : [pc EXCEPT ![s] = u][t] = pc[t]
      /\ \A u : [left EXCEPT ![s] = u][t] = left[t]
      /\ \A u : [attempt EXCEPT ![s] = u][t] = attempt[t]
      /\ \A u : [rateLeft EXCEPT ![s] = u][t] = rateLeft[t]
  BY DEF TypeOK
<1>2. CASE Begin(s)
  BY <1>1, <1>2 DEF Begin
<1>3. CASE CheckBudget(s) \/ WakeUp(s) \/ Send(s)
  BY <1>1, <1>3 DEF CheckBudget, WakeUp, Send, Goes
<1>4. CASE NoRefresh(s) \/ BeginRefresh(s) \/ RefreshFails(s) \/ Decode(s)
  BY <1>1, <1>4 DEF NoRefresh, BeginRefresh, RefreshFails, Decode, Goes
<1>5. CASE Answer(s)
  BY <1>1, <1>5 DEF Answer, Goes
<1>6. CASE RetryTransient(s) \/ Limited(s)
  BY <1>1, <1>6 DEF RetryTransient, Limited, Goes
<1>7. CASE StoreBudget(s)
  BY <1>1, <1>7 DEF StoreBudget, Goes
<1>8. CASE Again(s) \/ Refresh(s)
  BY <1>1, <1>8 DEF Again, Refresh, Goes
<1>9. QED
  BY <1>2, <1>3, <1>4, <1>5, <1>6, <1>7, <1>8 DEF Step, OwnStep, RefreshAnswer

\* The flag is reset by nothing but the beginning of a dispatch.
LEMMA FlagStaysSet == ASSUME TypeOK, NEW s \in Threads, Step(s) PROVE flag => flag'
<1>1. CASE Refresh(s)
  BY <1>1 DEF Refresh
<1>2. CASE ~Refresh(s)
  BY <1>2, Zenon DEF Step, OwnStep, RefreshAnswer, CheckBudget, WakeUp, Send, Answer, RetryTransient, Limited,
     StoreBudget, Again, NoRefresh, BeginRefresh, RefreshFails, Decode, csrfVars
<1>3. QED
  BY <1>1, <1>2

\* The steps of the others do not raise it.
LEMMA OthersKeepRank ==
    ASSUME TypeOK, TypeOK', NEW t \in Threads, NEW s \in Threads, s # t, Step(s)
    PROVE  Rank(t)' <= Rank(t)
<1>1. /\ pc'[t] = pc[t] /\ left'[t] = left[t]
      /\ attempt'[t] = attempt[t] /\ rateLeft'[t] = rateLeft[t] /\ (flag => flag')
  BY OthersLeaveAlone, FlagStaysSet
<1>2. Phase(t)' = Phase(t)
  BY <1>1 DEF Phase
<1>3. /\ RefreshLeft(t) \in {0, 1} /\ RefreshLeft(t)' \in {0, 1}
      /\ RefreshLeft(t)' <= RefreshLeft(t)
  BY <1>1 DEF RefreshLeft
<1>4. Credit(t)' <= Credit(t)
  <2>1. MaxAttempts - attempt[t] \in Nat /\ rateLeft[t] \in Nat
    BY SharedAssumption DEF TypeOK
  <2>2. QED
    BY <1>1, <1>3, <2>1 DEF Credit
<1>5. CASE pc[t] \in Ended
  BY <1>1, <1>5 DEF Rank
<1>6. CASE pc[t] \notin Ended
  BY <1>2, <1>4, <1>6, RankOrder, RankIsNatural DEF RankTypes
<1>7. QED
  BY <1>5, <1>6

\* Another dispatch that begins allows it one more refresh at most.
LEMMA BeginGrantsOne ==
    ASSUME TypeOK, TypeOK', NEW t \in Threads, NEW s \in Threads, s # t, Begin(s)
    PROVE  Rank(t)' <= Rank(t) + PerAttempt
<1>1. /\ pc'[t] = pc[t] /\ left'[t] = left[t]
      /\ attempt'[t] = attempt[t] /\ rateLeft'[t] = rateLeft[t]
  BY OthersLeaveAlone
<1>2. Phase(t)' = Phase(t)
  BY <1>1 DEF Phase
<1>3. Credit(t)' <= Credit(t) + 1 /\ Credit(t) \in Nat /\ Credit(t)' \in Nat
  <2>1. MaxAttempts - attempt[t] \in Nat /\ rateLeft[t] \in Nat
    BY SharedAssumption DEF TypeOK
  <2>2. RefreshLeft(t) \in {0, 1} /\ RefreshLeft(t)' \in {0, 1}
    BY DEF RefreshLeft
  <2>3. QED
    BY <1>1, <2>1, <2>2 DEF Credit
<1>4. PerAttempt \in Nat /\ Phase(t) \in Nat
  BY SharedAssumption, RankIsNatural DEF RankTypes, PerAttempt
<1>5. PerAttempt * Credit(t)' <= PerAttempt * Credit(t) + PerAttempt
  <2> DEFINE b == Credit(t)'
             a == Credit(t)
  <2>1. b < a + 2 /\ a + 2 \in Nat
    BY <1>3
  <2>2. PerAttempt * b + PerAttempt <= PerAttempt * (a + 2)
    BY <1>3, <1>4, <2>1, CreditWeighs
  <2>3. PerAttempt * (a + 2) = PerAttempt * a + PerAttempt + PerAttempt
    BY <1>3, <1>4
  <2>4. PerAttempt * a \in Nat /\ PerAttempt * b \in Nat
    BY <1>3, <1>4
  <2> HIDE DEF a, b
  <2>5. PerAttempt * b <= PerAttempt * a + PerAttempt
    BY <1>4, <2>2, <2>3, <2>4
  <2>6. QED
    BY <2>5 DEF a, b
<1>6. CASE pc[t] \in Ended
  BY <1>1, <1>4, <1>6 DEF Rank
<1>7. CASE pc[t] \notin Ended
  <2>1. Rank(t) = PerAttempt * Credit(t) + Phase(t)
    BY <1>7 DEF Rank
  <2>2. Rank(t)' = PerAttempt * Credit(t)' + Phase(t)
    BY <1>1, <1>2, <1>7 DEF Rank, PerAttempt
  <2>3. PerAttempt * Credit(t) \in Nat /\ PerAttempt * Credit(t)' \in Nat
    BY <1>3, <1>4
  <2>4. QED
    BY <1>4, <1>5, <2>1, <2>2, <2>3
<1>8. QED
  BY <1>6, <1>7

\* Time lowers the rank of those who sleep, and raises nobody's.
LEMMA TickLowersSleepers ==
    ASSUME TypeOK, TypeOK', Tick, NEW t \in Threads
    PROVE  /\ Rank(t)' <= Rank(t)
           /\ pc[t] \in {"waiting", "pausing"} /\ left[t] > 0 => Rank(t)' < Rank(t)
<1>1. /\ pc' = pc /\ attempt' = attempt /\ rateLeft' = rateLeft /\ flag' = flag
      /\ left'[t] = IF pc[t] \in {"waiting", "pausing"} THEN Less(left[t]) ELSE left[t]
      /\ left[t] \in 0..MaxWait /\ MaxWait \in Nat
  BY SharedAssumption DEF Tick, csrfVars, TypeOK
<1>2. Credit(t)' = Credit(t)
  BY <1>1 DEF Credit, RefreshLeft
<1>3. CASE pc[t] \in Ended
  BY <1>1, <1>3 DEF Rank, Ended
<1>4. CASE pc[t] \in {"waiting", "pausing"} /\ left[t] > 0
  <2>1. left'[t] = left[t] - 1
    BY <1>1, <1>4 DEF Less
  <2>2. Phase(t)' < Phase(t)
    BY <1>1, <1>4, <2>1 DEF Phase
  <2>3. pc[t] \notin Ended
    BY <1>4 DEF Ended
  <2>4. Rank(t)' < Rank(t)
    BY <1>2, <2>2, <2>3, RankOrder, RankIsNatural DEF RankTypes
  <2>5. RankTypes /\ RankTypes'
    BY RankIsNatural, PTL
  <2>6. QED
    BY <2>4, <2>5 DEF RankTypes
<1>5. CASE ~(pc[t] \in {"waiting", "pausing"} /\ left[t] > 0) /\ pc[t] \notin Ended
  <2>1. left'[t] = left[t]
    BY <1>1, <1>5 DEF Less
  <2>2. Phase(t)' = Phase(t)
    BY <1>1, <2>1 DEF Phase
  <2>3. QED
    BY <1>2, <1>5, <2>2, RankOrder, RankIsNatural DEF RankTypes
<1>6. QED
  BY <1>3, <1>4, <1>5

\* What the budgets of a dispatch and one refresh amount to.
MaxRank == PerAttempt * (MaxAttempts + RateLimitRetries + 2)

LEMMA RankIsBounded == ASSUME TypeOK, NEW t \in Threads PROVE Rank(t) \in 0..MaxRank
<1> DEFINE a == Credit(t)
           c == MaxAttempts + RateLimitRetries + 2
           w == PerAttempt
<1>1. w \in Nat /\ c \in Nat /\ a \in Nat /\ Phase(t) \in 1..(w - 1) /\ Rank(t) \in Nat
  BY SharedAssumption, RankIsNatural DEF RankTypes, PerAttempt
<1>2. a < c
  <2>1. /\ MaxAttempts - attempt[t] \in 0..MaxAttempts
        /\ rateLeft[t] \in 0..RateLimitRetries /\ RefreshLeft(t) \in {0, 1}
    BY SharedAssumption DEF TypeOK, RefreshLeft
  <2>2. QED
    BY <2>1, SharedAssumption DEF Credit
<1>3. Rank(t) = 0 \/ Rank(t) = w * a + Phase(t)
  BY DEF Rank
<1> HIDE DEF a, c, w
<1>4. w * a + w <= w * c /\ w * a \in Nat /\ w * c \in Nat
  BY <1>1, <1>2, CreditWeighs
<1>5. Rank(t) \in 0..(w * c)
  BY <1>1, <1>3, <1>4
<1>6. QED
  BY <1>5 DEF MaxRank, c, w

\* A thread's steps and sleep use up what its dispatch has left.
RankFalls(t) ==
    /\ Step(t) => Rank(t)' < Rank(t)
    /\ Tick /\ pc[t] \in {"waiting", "pausing"} /\ left[t] > 0 => Rank(t)' < Rank(t)

\* Nothing adds to it but the beginning of a dispatch: its own, or another's by
\* the one refresh that the reset flag allows.
RankRises(t) ==
    Rank(t)' > Rank(t) =>
        \/ Begin(t)
        \/ (\E s \in Threads \ {t} : Begin(s)) /\ Rank(t)' <= Rank(t) + PerAttempt

\* No thread is kept going by the others or by the budget they push on: what a
\* dispatch has left is bounded, its own steps and its sleep lower it, and only
\* a dispatch that begins can raise it (client.py:392-396, 500-613).
THEOREM ThreadsUseUp ==
    Spec => /\ [](\A t \in Threads : Rank(t) \in 0..MaxRank)
            /\ [][\A t \in Threads : RankFalls(t) /\ RankRises(t)]_vars
<1>1. IInv => \A t \in Threads : Rank(t) \in 0..MaxRank
  BY RankIsBounded DEF IInv
<1>2. ASSUME IInv, IInv', Next, NEW t \in Threads PROVE RankFalls(t) /\ RankRises(t)
  <2>1. TypeOK /\ TypeOK'
    BY <1>2 DEF IInv
  <2>2. RankTypes /\ RankTypes'
    BY <2>1, RankIsNatural, PTL
  <2>3. Rank(t) \in Nat /\ Rank(t)' \in Nat
    BY <2>2 DEF RankTypes
  <2>4. RankFalls(t)
    BY <2>1, OwnStepLowersRank, TickLowersSleepers DEF RankFalls
  <2>5. RankRises(t)
    <3>1. CASE Tick
      BY <2>1, <2>3, <3>1, TickLowersSleepers DEF RankRises
    <3>2. ASSUME NEW s \in Threads, Begin(s) PROVE RankRises(t)
      BY <2>1, <3>2, BeginGrantsOne DEF RankRises
    <3>3. ASSUME NEW s \in Threads, Step(s) PROVE RankRises(t)
      BY <2>1, <2>3, <3>3, OwnStepLowersRank, OthersKeepRank DEF RankRises
    <3>4. QED
      BY <1>2, <3>1, <3>2, <3>3 DEF Next
  <2>6. QED
    BY <2>4, <2>5
<1>3. IInv /\ IInv' /\ [Next]_vars => [\A t \in Threads : RankFalls(t) /\ RankRises(t)]_vars
  BY <1>2
<1>4. QED
  BY <1>1, <1>3, Inductive, PTL DEF Spec
================================================================================
