------------------------ MODULE ConnectionRefreshProofs ------------------------
(***************************************************************************)
(* Theorems about ConnectionRefresh for any set of callers and any bounds. *)
(* The inductive invariant IInv says who may hold which token: the lock    *)
(* admits one call, that call alone moves the store, and a token that      *)
(* exists only at the provider is in that call's hands or recorded as lost.*)
(***************************************************************************)
EXTENDS ConnectionRefresh, TLAPS

\* The single-flight lock: exactly the holder's call is in flight.
LockInv == \A c \in Callers : ~At(c, "idle") <=> holder = c

\* What the call in flight knows of store and grant.
CallInv ==
    \A c \in Callers :
        /\ At(c, "called") \/ At(c, "sent") => call[c].prior = store.refresh
        /\ At(c, "tokens") \/ At(c, "persisting") =>
             /\ call[c].access = grant.access
             /\ store.access < grant.access
             /\ call[c].refresh = 0 => store.refresh = grant.refresh
             /\ call[c].refresh # 0 => call[c].refresh = grant.refresh
        /\ At(c, "persisted") =>
             /\ call[c].access = store.access
             /\ store.refresh = grant.refresh
        /\ At(c, "invalid_grant") => grant.revoked \/ lost # {}

\* The provider is never behind the store.
OrderInv == store.access <= grant.access /\ store.refresh <= grant.refresh

\* A refresh token the provider honours is stored, in hand, or known lost.
TokenInv ==
    lost = {} => \/ store.refresh = grant.refresh
                 \/ \E c \in Callers : NewTokenInHand(c)

\* Nothing was issued before the first authentication.
PendingInv ==
    state = "pending" =>
        store.access = 0 /\ store.refresh = 0 /\ grant.access = 0 /\ grant.refresh = 0

IInv ==
    /\ TypeOK
    /\ LockInv
    /\ CallInv
    /\ OrderInv
    /\ TokenInv
    /\ PendingInv
    /\ RefreshOwnsState
    /\ DispatchableIsCurrent
    /\ RevokedForCause

--------------------------------------------------------------------------------
\* The definitions every step of the invariance proof looks into.
USE DEF TypeOK, States, CallType, Outcomes, NoCall, At, NewTokenInHand

GrantType == [access : Nat, refresh : Nat, revoked : BOOLEAN]

\* An answered exchange numbers one more access token.
LEMMA GrantLemma ==
    ASSUME NEW g \in GrantType, NEW r \in Nat, NEW h,
           h = [g EXCEPT !.access = @ + 1, !.refresh = r]
    PROVE  /\ h \in GrantType
           /\ h.access = g.access + 1
           /\ h.refresh = r
           /\ h.revoked = g.revoked
<1>1. h = [access |-> g.access + 1, refresh |-> r, revoked |-> g.revoked]
  BY DEF GrantType
<1>2. g.access + 1 \in Nat
  BY DEF GrantType
<1>3. QED
  BY <1>1, <1>2 DEF GrantType

\* The initial state satisfies the inductive invariant.
LEMMA InitInv == Init => IInv
<1> SUFFICES ASSUME Init PROVE IInv
  OBVIOUS
<1>1. \A c \in Callers : call[c] = NoCall
  BY DEF Init
<1>2. TypeOK
  <2>1. NoCall \in CallType
    OBVIOUS
  <2>2. call \in [Callers -> CallType] /\ outcome \in [Callers -> Outcomes]
    BY <2>1 DEF Init
  <2>3. ages \in 0..MaxAges /\ faults \in 0..MaxFaults
    BY BoundsAssumption DEF Init
  <2>4. store \in [access : Nat, refresh : Nat]
          /\ grant \in [access : Nat, refresh : Nat, revoked : BOOLEAN]
    BY DEF Init
  <2>5. QED
    BY <2>2, <2>3, <2>4 DEF Init
<1>3. LockInv /\ CallInv
  BY <1>1, CallersAssumption DEF Init, LockInv, CallInv
<1>4. OrderInv /\ TokenInv /\ PendingInv
  BY DEF Init, OrderInv, TokenInv, PendingInv
<1>5. RefreshOwnsState /\ DispatchableIsCurrent /\ RevokedForCause
  BY <1>1 DEF Init, RefreshOwnsState, DispatchableIsCurrent, Dispatchable, RevokedForCause
<1>6. QED
  BY <1>2, <1>3, <1>4, <1>5 DEF IInv

\* Steps around a refresh keep the inductive invariant.
LEMMA EnvironmentStep == IInv /\ Environment => IInv'
<1> SUFFICES ASSUME IInv, Environment PROVE IInv'
  OBVIOUS
<1> USE CallersAssumption, BoundsAssumption
<1> USE DEF IInv, LockInv, CallInv, OrderInv, TokenInv, PendingInv, RefreshOwnsState,
            DispatchableIsCurrent, Dispatchable, RevokedForCause, callVars, historyVars
<1>1. CASE Authenticate
  <2>1. \A c \in Callers : call[c].pc = "idle" /\ call'[c] = call[c]
    BY <1>1 DEF Authenticate
  <2>2. state' = "active"
    BY <1>1 DEF Authenticate, Mark, Permitted, Allowed
  <2>3. TypeOK'
    BY <1>1, <2>2 DEF Authenticate
  <2>4. LockInv' /\ CallInv'
    BY <1>1, <2>1 DEF Authenticate
  <2>5. OrderInv' /\ TokenInv' /\ PendingInv' /\ RefreshOwnsState'
          /\ DispatchableIsCurrent' /\ RevokedForCause'
    BY <1>1, <2>1, <2>2 DEF Authenticate
  <2>6. QED
    BY <2>3, <2>4, <2>5
<1>2. CASE AuthenticationFails
  BY <1>2 DEF AuthenticationFails, Mark, Permitted, Allowed
<1>3. CASE TokenAges
  BY <1>3 DEF TokenAges
<1>4. CASE ObserveExpiring
  BY <1>4 DEF ObserveExpiring, Mark, Permitted, Allowed
<1>5. CASE ObserveExpired
  BY <1>5 DEF ObserveExpired, Mark, Permitted, Allowed
<1>6. CASE StandDown
  BY <1>6 DEF StandDown, Mark, Permitted, Allowed
<1>7. CASE UserRevokes
  BY <1>7 DEF UserRevokes, Mark, Permitted, Allowed
<1>8. CASE ProviderRevokes
  BY <1>8 DEF ProviderRevokes
<1>9. CASE Crash
  BY <1>9 DEF Crash, Fault
<1>10. QED
  BY <1>1, <1>2, <1>3, <1>4, <1>5, <1>6, <1>7, <1>8, <1>9 DEF Environment

\* Steps of a refresh call keep the inductive invariant.
LEMMA AdvanceStep ==
    ASSUME IInv, NEW c \in Callers, Begin(c) \/ Advance(c)
    PROVE  IInv'
<1> USE CallersAssumption, BoundsAssumption
<1> USE DEF IInv, LockInv, CallInv, OrderInv, TokenInv, PendingInv, RefreshOwnsState,
            DispatchableIsCurrent, Dispatchable, RevokedForCause, callVars, historyVars
<1>1. CASE Begin(c)
  <2>1. \A d \in Callers : call[d].pc = "idle"
    BY <1>1 DEF Begin, SlotFree
  <2>2. state' = "refreshing" /\ state # "pending" /\ state # "revoked"
    BY <1>1 DEF Begin, RefreshWanted, Mark, Permitted, Allowed
  <2>3. /\ call'[c] = [pc |-> "called", prior |-> store.refresh, access |-> 0, refresh |-> 0]
        /\ \A d \in Callers \ {c} : call'[d] = call[d]
        /\ call' \in [Callers -> CallType]
    BY <1>1 DEF Begin
  <2>4. TypeOK'
    BY <1>1, <2>2, <2>3 DEF Begin
  <2>5. LockInv' /\ CallInv' /\ TokenInv'
    BY <1>1, <2>1, <2>3 DEF Begin
  <2>6. OrderInv' /\ PendingInv' /\ RefreshOwnsState'
          /\ DispatchableIsCurrent' /\ RevokedForCause'
    BY <1>1, <2>2 DEF Begin
  <2>7. QED
    BY <2>4, <2>5, <2>6
<1>2. CASE Send(c)
  BY <1>2 DEF Send, Goto, Return
<1>3. CASE Exchange(c)
  <2>1. PICK rotated \in {0, grant.refresh + 1} :
            /\ call' = [call EXCEPT ![c].pc = "tokens",
                                    ![c].access = grant.access + 1,
                                    ![c].refresh = rotated]
            /\ grant' = [grant EXCEPT !.access = @ + 1,
                                      !.refresh = IF rotated = 0 THEN @ ELSE rotated]
    BY <1>3 DEF Exchange
  <2>2. /\ call[c].pc = "sent" /\ holder = c /\ state \in {"refreshing", "revoked"}
        /\ store.refresh = grant.refresh
        /\ \A d \in Callers \ {c} : call[d].pc = "idle"
    BY <1>3 DEF Exchange, Accepts
  <2>3. /\ call'[c].pc = "tokens" /\ call'[c].access = grant.access + 1
        /\ call'[c].refresh = rotated
        /\ \A d \in Callers \ {c} : call'[d] = call[d]
        /\ call' \in [Callers -> CallType]
    <3>1. /\ c \in Callers /\ call \in [Callers -> CallType]
          /\ grant.access + 1 \in Nat /\ rotated \in Nat
      BY <2>1
    <3>2. call' = [call EXCEPT ![c].pc = "tokens", ![c].access = grant.access + 1,
                               ![c].refresh = rotated]
      BY ONLY <2>1
    <3>3. QED
      BY ONLY <3>1, <3>2 DEF CallType
  <2>4. /\ grant'.access = grant.access + 1
        /\ grant'.refresh = IF rotated = 0 THEN grant.refresh ELSE rotated
        /\ grant'.revoked = grant.revoked
        /\ grant' \in [access : Nat, refresh : Nat, revoked : BOOLEAN]
    <3> DEFINE r == IF rotated = 0 THEN grant.refresh ELSE rotated
    <3>1. grant' = [grant EXCEPT !.access = @ + 1, !.refresh = r]
      BY ONLY <2>1
    <3>2. r \in Nat /\ grant \in GrantType
      BY ONLY TypeOK, <2>1 DEF TypeOK, GrantType
    <3>3. QED
      BY ONLY <3>1, <3>2, GrantLemma DEF GrantType
  <2>5. TypeOK'
    BY <1>3, <2>3, <2>4 DEF Exchange
  <2>6. LockInv' /\ CallInv' /\ TokenInv'
    BY <1>3, <2>2, <2>3, <2>4 DEF Exchange
  <2>7. OrderInv' /\ PendingInv' /\ RefreshOwnsState'
          /\ DispatchableIsCurrent' /\ RevokedForCause'
    BY <1>3, <2>2, <2>4 DEF Exchange
  <2>8. QED
    BY <2>5, <2>6, <2>7
<1>4. CASE Refuse(c)
  BY <1>4 DEF Refuse, Accepts, Goto
<1>5. CASE Unreachable(c)
  BY <1>5 DEF Unreachable, Fault, Goto
<1>6. CASE ReplyLost(c)
  <2>1. /\ call[c].pc = "sent" /\ holder = c /\ state \in {"refreshing", "revoked"}
        /\ lost' = lost \cup {"reply"}
    BY <1>6 DEF ReplyLost
  <2>2. /\ call'[c] = [call[c] EXCEPT !.pc = "failure"]
        /\ \A d \in Callers \ {c} : call'[d] = call[d] /\ call[d].pc = "idle"
        /\ call' \in [Callers -> CallType]
    BY <1>6, <2>1 DEF ReplyLost, Goto
  <2>3. /\ grant'.access = grant.access + 1
        /\ grant'.refresh = grant.refresh + 1
        /\ grant'.revoked = grant.revoked
        /\ grant' \in [access : Nat, refresh : Nat, revoked : BOOLEAN]
    <3>1. grant' = [grant EXCEPT !.access = @ + 1, !.refresh = grant.refresh + 1]
      BY <1>6 DEF ReplyLost
    <3>2. grant.refresh + 1 \in Nat /\ grant \in GrantType
      BY DEF GrantType
    <3>3. QED
      BY ONLY <3>1, <3>2, GrantLemma DEF GrantType
  <2>4. TypeOK'
    BY <1>6, <2>2, <2>3 DEF ReplyLost, Fault
  <2>5. LockInv' /\ CallInv' /\ TokenInv'
    BY <1>6, <2>1, <2>2 DEF ReplyLost
  <2>6. OrderInv' /\ PendingInv' /\ RefreshOwnsState'
          /\ DispatchableIsCurrent' /\ RevokedForCause'
    BY <1>6, <2>1, <2>2, <2>3 DEF ReplyLost
  <2>7. QED
    BY <2>4, <2>5, <2>6
<1>7. CASE HandleInvalidGrant(c)
  BY <1>7 DEF HandleInvalidGrant, Mark, Permitted, Allowed, Return, ResultOf
<1>8. CASE HandleFailure(c)
  BY <1>8 DEF HandleFailure, Mark, Permitted, Allowed, Return, ResultOf
<1>9. CASE HandleTokens(c)
  BY <1>9 DEF HandleTokens, Goto
<1>10. CASE Persist(c)
  BY <1>10 DEF Persist, Retained, Goto
<1>11. CASE PersistFails(c)
  BY <1>11 DEF PersistFails, Fault, Mark, Permitted, Allowed, Return, ResultOf
<1>12. CASE Activate(c)
  BY <1>12 DEF Activate, Mark, Permitted, Allowed, Return, ResultOf
<1>13. QED
  BY <1>1, <1>2, <1>3, <1>4, <1>5, <1>6, <1>7, <1>8, <1>9, <1>10, <1>11, <1>12
     DEF Advance, Provider

\* Stuttering keeps the inductive invariant.
LEMMA StutterStep == IInv /\ UNCHANGED vars => IInv'
BY DEF vars, IInv, LockInv, CallInv, OrderInv, TokenInv, PendingInv, RefreshOwnsState,
       DispatchableIsCurrent, Dispatchable, RevokedForCause

\* The inductive invariant holds throughout.
THEOREM Inductive == Spec => []IInv
<1>1. IInv /\ [Next]_vars => IInv'
  BY EnvironmentStep, AdvanceStep, StutterStep DEF Next
<1>2. QED
  BY <1>1, InitInv, PTL DEF Spec

--------------------------------------------------------------------------------

\* Every variable keeps its type.
THEOREM TypeCorrect == Spec => []TypeOK
BY Inductive, PTL DEF IInv

\* A dispatchable Connection has stored what its provider honours, and its
\* expiry metadata describes the stored access token.
THEOREM DispatchableCredentialIsCurrent == Spec => []DispatchableIsCurrent
BY Inductive, PTL DEF IInv

\* Nothing but a revocation moves the state under a running refresh.
THEOREM RefreshOwnsTheState == Spec => []RefreshOwnsState
BY Inductive, PTL DEF IInv

\* A Connection is revoked by its user, by its provider, or because a
\* rotated token was lost, and for no other reason.
THEOREM RevokedOnlyForCause == Spec => []RevokedForCause
BY Inductive, PTL DEF IInv

\* No step, a racing refresh's included, leaves "revoked".
THEOREM RevocationHolds == Spec => RevocationIsFinal
<1>1. ASSUME TypeOK, [Next]_vars, state = "revoked"
      PROVE  state' = "revoked"
  <2> USE <1>1 DEF Mark, Permitted, Allowed
  <2>1. CASE Environment
    BY <2>1 DEF Environment, Authenticate, AuthenticationFails, TokenAges, ObserveExpiring,
                ObserveExpired, StandDown, UserRevokes, ProviderRevokes, Crash
  <2>2. ASSUME NEW c \in Callers, Begin(c) \/ Advance(c)
        PROVE  state' = "revoked"
    BY <2>2 DEF Begin, Advance, Provider, Send, Exchange, Refuse, Unreachable, ReplyLost,
                HandleInvalidGrant, HandleFailure, HandleTokens, Persist, PersistFails, Activate
  <2>3. CASE UNCHANGED vars
    BY <2>3 DEF vars
  <2>4. QED
    BY <2>1, <2>2, <2>3 DEF Next
<1>2. TypeOK /\ [Next]_vars => [state = "revoked" => state' = "revoked"]_state
  BY <1>1
<1>3. QED
  BY <1>2, TypeCorrect, PTL DEF Spec, RevocationIsFinal

\* The stored tokens are never replaced by older ones, and None never
\* replaces a stored refresh token.
THEOREM StoredTokensAdvance == Spec => StoredTokenOnlyAdvances
<1>1. ASSUME IInv, [Next]_vars
      PROVE  store'.refresh >= store.refresh /\ store'.access >= store.access
  <2> USE <1>1 DEF IInv
  <2>1. CASE Environment
    <3>1. CASE Authenticate
      BY <3>1 DEF Authenticate, PendingInv
    <3>2. CASE store' = store
      BY <3>2
    <3>3. QED
      BY <2>1, <3>1, <3>2 DEF Environment, AuthenticationFails, TokenAges, ObserveExpiring,
           ObserveExpired, StandDown, UserRevokes, ProviderRevokes, Crash
  <2>2. ASSUME NEW c \in Callers, Begin(c) \/ Advance(c)
        PROVE  store'.refresh >= store.refresh /\ store'.access >= store.access
    <3>1. CASE Persist(c)
      BY <3>1 DEF Persist, Retained, CallInv, OrderInv
    <3>2. CASE store' = store
      BY <3>2
    <3>3. QED
      BY <2>2, <3>1, <3>2 DEF Begin, Advance, Provider, Send, Exchange, Refuse, Unreachable,
           ReplyLost, HandleInvalidGrant, HandleFailure, HandleTokens, PersistFails, Activate
  <2>3. CASE UNCHANGED vars
    BY <2>3 DEF vars
  <2>4. QED
    BY <2>1, <2>2, <2>3 DEF Next
<1>2. IInv /\ [Next]_vars
        => [store'.refresh >= store.refresh /\ store'.access >= store.access]_store
  BY <1>1
<1>3. QED
  BY <1>2, Inductive, PTL DEF Spec, StoredTokenOnlyAdvances

--------------------------------------------------------------------------------

\* A step around a refresh is a custody step or leaves custody alone.
LEMMA EnvironmentRefines ==
    ASSUME IInv, Environment
    PROVE  [Custody!CustodyNext]_<<CustodyPhase[state], store.access, served>>
<1> USE DEF IInv, CustodyPhase, Mark, Permitted, Allowed, Custody!CustodyNext
<1>1. CASE Authenticate
  BY <1>1 DEF Authenticate, PendingInv, DispatchableIsCurrent, Dispatchable, Custody!Establish
<1>2. CASE AuthenticationFails
  BY <1>2 DEF AuthenticationFails, Custody!Withdraw
<1>3. CASE TokenAges \/ ProviderRevokes \/ Crash
  BY <1>3 DEF TokenAges, ProviderRevokes, Crash, callVars, historyVars
<1>4. CASE ObserveExpiring \/ StandDown
  BY <1>4 DEF ObserveExpiring, StandDown
<1>5. CASE ObserveExpired
  BY <1>5 DEF ObserveExpired, Dispatchable, Custody!Withdraw
<1>6. CASE UserRevokes
  BY <1>6 DEF UserRevokes, Custody!Revoke
<1>7. QED
  BY <1>1, <1>2, <1>3, <1>4, <1>5, <1>6 DEF Environment

\* So is a step of a refresh call.
LEMMA AdvanceRefines ==
    ASSUME IInv, NEW c \in Callers, Begin(c) \/ Advance(c)
    PROVE  [Custody!CustodyNext]_<<CustodyPhase[state], store.access, served>>
<1> USE DEF IInv, CustodyPhase, Custody!CustodyNext
<1>1. CASE Begin(c)
  BY <1>1 DEF Begin, RefreshWanted, Mark, Permitted, Allowed, Custody!Renew
<1>2. CASE Send(c) \/ Provider(c) \/ HandleTokens(c)
  BY <1>2 DEF Send, Provider, Exchange, Refuse, Unreachable, ReplyLost, HandleTokens
<1>3. ASSUME ~At(c, "idle") PROVE state \in {"refreshing", "revoked"}
  BY <1>3 DEF RefreshOwnsState
<1>4. CASE HandleInvalidGrant(c)
  BY <1>3, <1>4 DEF HandleInvalidGrant, Mark, Permitted, Allowed, Custody!Revoke
<1>5. CASE HandleFailure(c) \/ PersistFails(c)
  BY <1>3, <1>5 DEF HandleFailure, PersistFails, Mark, Permitted, Allowed, Custody!Withdraw
<1>6. CASE Persist(c)
  BY <1>3, <1>6 DEF Persist, CallInv, Custody!Commit
<1>7. CASE Activate(c)
  BY <1>3, <1>7 DEF Activate, CallInv, Mark, Permitted, Allowed, Custody!Publish
<1>8. QED
  BY <1>1, <1>2, <1>4, <1>5, <1>6, <1>7 DEF Advance

\* refresh_with_rotation implements the promise of CredentialCustody: commit
\* first, serve afterwards, never serve again once revoked.
THEOREM RefreshImplementsCustody == Spec => ImplementsCustody
<1>1. Init => Custody!CustodyInit
  BY DEF Init, CustodyPhase, Custody!CustodyInit
<1>2. IInv /\ [Next]_vars
        => [Custody!CustodyNext]_<<CustodyPhase[state], store.access, served>>
  BY EnvironmentRefines, AdvanceRefines DEF Next, vars
<1>3. QED
  BY <1>1, <1>2, Inductive, PTL
     DEF Spec, ImplementsCustody, Custody!CustodySpec, Custody!custodyVars
================================================================================
