--------------------------- MODULE ConnectionRefresh ---------------------------
(***************************************************************************)
(* One Connection (lifecycle/state.py) and the callers that refresh its    *)
(* OAuth credentials through refresh_with_rotation (lifecycle/refresh.py). *)
(*                                                                         *)
(* The exchange is split where the function blocks: at refresh_callable    *)
(* (a provider that may rotate the refresh token, refuse it, fail, or      *)
(* answer into a broken connection) and at persist_callable (a durable     *)
(* write that may fail).  Between the steps the user may revoke the        *)
(* Connection, the provider may revoke the grant, and the process may die. *)
(*                                                                         *)
(* Tokens are numbered in the order the provider issues them; 0 is "none". *)
(* Connection.state is written through to durable storage, so it survives  *)
(* a crash (docs/05-lifecycle.md, 5.6); the calls in flight do not.        *)
(* error_history, scopes and last_* timestamps are left out.               *)
(***************************************************************************)
EXTENDS Naturals

CONSTANTS
    Callers,    \* threads that may refresh the Connection
    Nobody,     \* the single-flight lock is free
    MaxAges,    \* bound: how often an access token ages one phase
    MaxFaults   \* bound: failures of provider, network, storage or process

ASSUME CallersAssumption == Nobody \notin Callers
ASSUME BoundsAssumption == MaxAges \in Nat /\ MaxFaults \in Nat

VARIABLES
    state,      \* Connection.state
    phase,      \* what the expiry metadata says: "fresh", "window", "expired"
    served,     \* access token the expiry metadata describes
    store,      \* durable secret store: [access, refresh]
    grant,      \* the provider's side: [access, refresh, revoked]
    call,       \* call[c]: where caller c is in refresh_with_rotation
    outcome,    \* outcome[c]: how the last call of c ended
    holder,     \* holder of the caller's single-flight lock
    ages,
    faults,
    lost,       \* history: how rotated refresh tokens were lost, if any were
    userRevoked \* history: the user or a webhook revoked the Connection

vars == <<state, phase, served, store, grant, call, outcome, holder,
          ages, faults, lost, userRevoked>>

--------------------------------------------------------------------------------
(* lifecycle/state.py *)

States == {"pending", "active", "expiring", "refreshing",
           "expired", "revoked", "error"}

\* Mutant: an expired Connection cannot be refreshed.
Allowed_ExpiredIsFinal ==
    [pending    |-> {"active", "revoked", "error"},
     active     |-> {"expiring", "expired", "refreshing", "revoked", "error"},
     expiring   |-> {"refreshing", "active", "expired", "revoked", "error"},
     refreshing |-> {"active", "expired", "revoked", "error"},
     expired    |-> {"revoked", "error"},
     error      |-> {"refreshing", "revoked"},
     revoked    |-> {}]
Allowed ==
    [pending    |-> {"active", "revoked", "error"},
     active     |-> {"expiring", "expired", "refreshing", "revoked", "error"},
     expiring   |-> {"refreshing", "active", "expired", "revoked", "error"},
     refreshing |-> {"active", "expired", "revoked", "error"},
     expired    |-> {"refreshing", "revoked", "error"},
     error      |-> {"refreshing", "revoked"},
     revoked    |-> {}]

\* Connection.transition raises InvalidTransition when this is FALSE.
Permitted(target) == target \in Allowed[state]

\* Mutant: the transition table is not consulted.
Mark_SkipsTable(target) == state' = target

\* The mark_* methods as the refresh path calls them: an exception leaves
\* the state alone.
Mark(target) == state' = IF Permitted(target) THEN target ELSE state

Dispatchable == state \in {"active", "expiring"}

InRefreshWindow == phase \in {"window", "expired"}
IsExpired == phase = "expired"

--------------------------------------------------------------------------------
(* A call of refresh_with_rotation *)

NoCall == [pc |-> "idle", prior |-> 0, access |-> 0, refresh |-> 0]

CallType ==
    [pc : {"idle", "called", "sent", "tokens", "invalid_grant", "failure",
           "persisting", "persisted"},
     prior : Nat, access : Nat, refresh : Nat]

At(c, pc) == call[c].pc = pc
Goto(c, pc) == call' = [call EXCEPT ![c].pc = pc]

Outcomes == {"none", "success", "revoked", "failed", "persist_failed", "raised"}

\* A return (or a raised exception) ends the call and frees the lock.
Return(c, result) ==
    /\ call' = [call EXCEPT ![c] = NoCall]
    /\ outcome' = [outcome EXCEPT ![c] = result]
    /\ holder' = Nobody

\* The result of a path whose mark_* call may raise InvalidTransition.
ResultOf(target, result) == IF Permitted(target) THEN result ELSE "raised"

\* A rotated token that neither the store nor any call holds is gone.
NewTokenInHand(c) ==
    /\ call[c].pc \in {"tokens", "persisting"}
    /\ call[c].refresh # 0

--------------------------------------------------------------------------------

TypeOK ==
    /\ state \in States
    /\ phase \in {"fresh", "window", "expired"}
    /\ served \in Nat
    /\ store \in [access : Nat, refresh : Nat]
    /\ grant \in [access : Nat, refresh : Nat, revoked : BOOLEAN]
    /\ call \in [Callers -> CallType]
    /\ outcome \in [Callers -> Outcomes]
    /\ holder \in Callers \cup {Nobody}
    /\ ages \in 0..MaxAges
    /\ faults \in 0..MaxFaults
    /\ lost \in SUBSET {"reply", "persist", "crash"}
    /\ userRevoked \in BOOLEAN

Init ==
    /\ state = "pending"
    /\ phase = "fresh"
    /\ served = 0
    /\ store = [access |-> 0, refresh |-> 0]
    /\ grant = [access |-> 0, refresh |-> 0, revoked |-> FALSE]
    /\ call = [c \in Callers |-> NoCall]
    /\ outcome = [c \in Callers |-> "none"]
    /\ holder = Nobody
    /\ ages = 0
    /\ faults = 0
    /\ lost = {}
    /\ userRevoked = FALSE

historyVars == <<ages, faults, lost, userRevoked>>
callVars == <<call, outcome, holder>>

Fault ==
    /\ faults < MaxFaults
    /\ faults' = faults + 1

--------------------------------------------------------------------------------
(* Authentication, ageing and revocation: the code around a refresh *)

\* The first token exchange succeeded and its tokens were stored.
Authenticate ==
    /\ state = "pending"
    /\ Mark("active")
    /\ grant' = [grant EXCEPT !.access = 1, !.refresh = 1]
    /\ store' = [access |-> 1, refresh |-> 1]
    /\ served' = 1
    /\ UNCHANGED <<phase, callVars, historyVars>>

\* The first exchange failed without a verdict: mark_error.
AuthenticationFails ==
    /\ state = "pending"
    /\ Mark("error")
    /\ UNCHANGED <<phase, served, store, grant, callVars, historyVars>>

TokenAges ==
    /\ ages < MaxAges
    /\ served # 0
    /\ \/ phase = "fresh" /\ phase' = "window"
       \/ phase = "window" /\ phase' = "expired"
    /\ ages' = ages + 1
    /\ UNCHANGED <<state, served, store, grant, callVars, faults, lost, userRevoked>>

\* A caller that sees the window or the expiry reports it.
ObserveExpiring ==
    /\ state = "active"
    /\ InRefreshWindow
    /\ Mark("expiring")
    /\ UNCHANGED <<phase, served, store, grant, callVars, historyVars>>

ObserveExpired ==
    /\ Dispatchable
    /\ IsExpired
    /\ Mark("expired")
    /\ UNCHANGED <<phase, served, store, grant, callVars, historyVars>>

\* expiring -> active, "rare: window passed without refresh".
StandDown ==
    /\ state = "expiring"
    /\ Mark("active")
    /\ UNCHANGED <<phase, served, store, grant, callVars, historyVars>>

\* User-initiated or webhook-driven: takes no lock, lands at any time.
UserRevokes ==
    /\ Permitted("revoked")
    /\ Mark("revoked")
    /\ userRevoked' = TRUE
    /\ UNCHANGED <<phase, served, store, grant, callVars, ages, faults, lost>>

\* The provider withdraws the grant; the Connection learns of it later.
ProviderRevokes ==
    /\ grant.refresh # 0
    /\ ~grant.revoked
    /\ grant' = [grant EXCEPT !.revoked = TRUE]
    /\ UNCHANGED <<state, phase, served, store, callVars, historyVars>>

--------------------------------------------------------------------------------
(* refresh_with_rotation, step by step *)

\* Mutant: the caller takes no lock.
SlotFree_NoLock == TRUE

\* The caller holds the single-flight lock around the whole call ...
SlotFree == holder = Nobody

\* ... and refreshes lazily: when a dispatch finds the token in its window,
\* or the Connection in a state that only a refresh can leave.
RefreshWanted ==
    \/ state \in {"active", "expiring"} /\ InRefreshWindow
    \/ state \in {"expired", "error", "refreshing"}

\* mark_refreshing, then the call. A state left at "refreshing" by a crash
\* has no mark_refreshing (no self-transition) and the call follows at once.
Begin(c) ==
    /\ At(c, "idle")
    /\ SlotFree
    /\ RefreshWanted
    /\ store.refresh # 0
    /\ Mark("refreshing")
    /\ call' = [call EXCEPT ![c] =
                    [NoCall EXCEPT !.pc = "called", !.prior = store.refresh]]
    /\ holder' = c
    /\ UNCHANGED <<phase, served, store, grant, outcome, historyVars>>

\* The state guard on entry: RuntimeError unless the state is refreshing.
Send(c) ==
    /\ At(c, "called")
    /\ \/ /\ state = "refreshing"
          /\ Goto(c, "sent")
          /\ UNCHANGED <<outcome, holder>>
       \/ /\ state # "refreshing"
          /\ Return(c, "raised")
    /\ UNCHANGED <<state, phase, served, store, grant, historyVars>>

Accepts(c) == call[c].prior = grant.refresh /\ ~grant.revoked

\* The provider issues a new access token, with or without a new refresh
\* token, and the prior refresh token dies exactly when it rotates.
Exchange(c) ==
    /\ At(c, "sent")
    /\ Accepts(c)
    /\ \E rotated \in {0, grant.refresh + 1} :
        /\ call' = [call EXCEPT ![c].pc = "tokens",
                                ![c].access = grant.access + 1,
                                ![c].refresh = rotated]
        /\ grant' = [grant EXCEPT !.access = @ + 1,
                                  !.refresh = IF rotated = 0 THEN @ ELSE rotated]
    /\ UNCHANGED <<state, phase, served, store, outcome, holder, historyVars>>

Refuse(c) ==
    /\ At(c, "sent")
    /\ ~Accepts(c)
    /\ Goto(c, "invalid_grant")
    /\ UNCHANGED <<state, phase, served, store, grant, outcome, holder, historyVars>>

\* An OAuth2Error without invalid_grant, or a transport error, before the
\* provider acted on the request.
Unreachable(c) ==
    /\ At(c, "sent")
    /\ Fault
    /\ Goto(c, "failure")
    /\ UNCHANGED <<state, phase, served, store, grant, outcome, holder,
                   ages, lost, userRevoked>>

\* The provider rotated, and its answer never arrived (or did not parse).
ReplyLost(c) ==
    /\ At(c, "sent")
    /\ Accepts(c)
    /\ Fault
    /\ grant' = [grant EXCEPT !.access = @ + 1, !.refresh = @ + 1]
    /\ lost' = lost \cup {"reply"}
    /\ Goto(c, "failure")
    /\ UNCHANGED <<state, phase, served, store, outcome, holder, ages, userRevoked>>

\* except OAuth2Error with invalid_grant.
HandleInvalidGrant(c) ==
    /\ At(c, "invalid_grant")
    /\ Mark("revoked")
    /\ Return(c, ResultOf("revoked", "revoked"))
    /\ UNCHANGED <<phase, served, store, grant, historyVars>>

\* every other exception of refresh_callable.
HandleFailure(c) ==
    /\ At(c, "failure")
    /\ Mark("expired")
    /\ Return(c, ResultOf("expired", "failed"))
    /\ UNCHANGED <<phase, served, store, grant, historyVars>>

\* New tokens, to be stored next.
HandleTokens(c) ==
    /\ At(c, "tokens")
    /\ Goto(c, "persisting")
    /\ UNCHANGED <<state, phase, served, store, grant, outcome, holder, historyVars>>

\* Mutant: a missing refresh token is stored as it is.
Retained_Overwrites(c) == call[c].refresh

\* persist_callable(connection, tokens, None) keeps the prior refresh token.
Retained(c) == IF call[c].refresh = 0 THEN store.refresh ELSE call[c].refresh

Persist(c) ==
    /\ At(c, "persisting")
    /\ store' = [access |-> call[c].access, refresh |-> Retained(c)]
    /\ Goto(c, "persisted")
    /\ UNCHANGED <<state, phase, served, grant, outcome, holder, historyVars>>

\* The exception drops the tokens: the outcome does not carry them.
PersistFails(c) ==
    /\ At(c, "persisting")
    /\ Fault
    /\ Mark("error")
    /\ Return(c, ResultOf("error", "persist_failed"))
    /\ lost' = IF NewTokenInHand(c) THEN lost \cup {"persist"} ELSE lost
    /\ UNCHANGED <<phase, served, store, grant, ages, userRevoked>>

\* Mutant: a token without expires_in leaves no expiry.
Activate_NoExpiry(c) ==
    /\ At(c, "persisted")
    /\ served' = call[c].access
    /\ phase' = "unknown"
    /\ Mark("active")
    /\ Return(c, ResultOf("active", "success"))
    /\ UNCHANGED <<store, grant, historyVars>>

\* The metadata is written before mark_active, which may raise.
Activate(c) ==
    /\ At(c, "persisted")
    /\ served' = call[c].access
    /\ phase' = "fresh"
    /\ Mark("active")
    /\ Return(c, ResultOf("active", "success"))
    /\ UNCHANGED <<store, grant, historyVars>>

\* The process dies and restarts: calls and lock are gone, the rest stays.
Crash ==
    /\ holder # Nobody
    /\ Fault
    /\ call' = [c \in Callers |-> NoCall]
    /\ outcome' = [c \in Callers |-> "none"]
    /\ holder' = Nobody
    /\ lost' = IF \E c \in Callers : NewTokenInHand(c)
                 THEN lost \cup {"crash"} ELSE lost
    /\ UNCHANGED <<state, phase, served, store, grant, ages, userRevoked>>

Provider(c) == Exchange(c) \/ Refuse(c) \/ Unreachable(c) \/ ReplyLost(c)

Advance(c) ==
    \/ Send(c)
    \/ Provider(c)
    \/ HandleInvalidGrant(c)
    \/ HandleFailure(c)
    \/ HandleTokens(c)
    \/ Persist(c)
    \/ PersistFails(c)
    \/ Activate(c)

Environment ==
    \/ Authenticate
    \/ AuthenticationFails
    \/ TokenAges
    \/ ObserveExpiring
    \/ ObserveExpired
    \/ StandDown
    \/ UserRevokes
    \/ ProviderRevokes
    \/ Crash

Next ==
    \/ Environment
    \/ \E c \in Callers : Begin(c) \/ Advance(c)

Spec == Init /\ [][Next]_vars

\* A started call keeps running (the HTTP client's timeouts end a silent
\* exchange), and dispatches keep coming, so some caller begins a wanted
\* refresh.
Fairness ==
    /\ \A c \in Callers : WF_vars(Advance(c))
    /\ WF_vars(\E c \in Callers : Begin(c))

FairSpec == Spec /\ Fairness

--------------------------------------------------------------------------------
(* Properties *)

\* A Connection that accepts dispatches has in durable storage the refresh
\* token its provider honours, and its expiry metadata describes the access
\* token stored with it: refresh_with_rotation persists before mark_active
\* (refresh.py:143-158), whatever failed, raced or crashed before.
DispatchableIsCurrent ==
    Dispatchable => /\ store.refresh = grant.refresh
                    /\ served = store.access

\* While a refresh is in flight only a revocation can move the state, so
\* every mark_* of refresh_with_rotation is permitted or answers a
\* revocation: InvalidTransition never hides a healthy Connection.
RefreshOwnsState ==
    (\E c \in Callers : ~At(c, "idle")) => state \in {"refreshing", "revoked"}

\* Every "revoked" is deserved: the user revoked, the provider revoked, or a
\* rotated token really was lost. Two exchanges with one refresh token would
\* make the second look like a revocation (refresh.py:131-134).
RevokedForCause ==
    state = "revoked" => userRevoked \/ grant.revoked \/ lost # {}

\* A revocation that overtakes a refresh is final: neither mark_active nor
\* mark_expired nor mark_error of the running call brings the Connection
\* back (state.py:107-114).
RevocationIsFinal == [][state = "revoked" => state' = "revoked"]_state

\* The stored refresh token never goes back to an older one, and a response
\* without a refresh token never discards the stored one (refresh.py:103-105).
StoredTokenOnlyAdvances ==
    [][store'.refresh >= store.refresh /\ store'.access >= store.access]_store

\* A Connection that has credentials does not stay unusable: it becomes
\* dispatchable again or is revoked, also after a crash in the middle of a
\* refresh left it in "refreshing".
RefreshRecovers ==
    (state \in {"refreshing", "expired", "error"} /\ store.refresh # 0)
        ~> (Dispatchable \/ state = "revoked")

CustodyPhase ==
    [pending |-> "pending", active |-> "usable", expiring |-> "usable",
     refreshing |-> "renewing", expired |-> "down", error |-> "down",
     revoked |-> "revoked"]

Custody == INSTANCE CredentialCustody WITH
    phase <- CustodyPhase[state], stored <- store.access, served <- served

\* A refresh commits before it serves, and serves only what it committed.
ImplementsCustody == Custody!CustodySpec

\* "Atomically persist" (refresh.py:15 and 143): after a failed persist the
\* stored refresh token is one the provider still honours.
RotationIsAtomic ==
    \A c \in Callers :
        outcome[c] = "persist_failed" => store.refresh = grant.refresh
================================================================================
