--------------------------- MODULE CredentialCustody ---------------------------
(***************************************************************************)
(* What one Connection promises its dispatching callers, without saying    *)
(* how: a credential is committed to durable storage first and served      *)
(* afterwards, and a revoked Connection never serves again.                *)
(*                                                                         *)
(*   phase   "pending", "usable", "renewing", "down" or "revoked"          *)
(*   stored  generation of the access token in durable storage             *)
(*   served  generation the Connection's expiry metadata describes         *)
(*                                                                         *)
(* ConnectionRefresh implements this specification.                        *)
(***************************************************************************)
EXTENDS Naturals

VARIABLES phase, stored, served

custodyVars == <<phase, stored, served>>

CustodyInit ==
    /\ phase = "pending"
    /\ stored = 0
    /\ served = 0

\* The first authentication commits and serves a credential at once.
Establish ==
    /\ phase = "pending"
    /\ phase' = "usable"
    /\ stored' = stored + 1
    /\ served' = stored + 1

Renew ==
    /\ phase \in {"usable", "down"}
    /\ phase' = "renewing"
    /\ UNCHANGED <<stored, served>>

\* A newer credential reaches durable storage. A revocation may have
\* overtaken the renewal; the write still happens.
Commit ==
    /\ phase \in {"renewing", "revoked"}
    /\ stored' \in Nat
    /\ stored' > stored
    /\ UNCHANGED <<phase, served>>

\* Only a committed credential is served.
Publish ==
    /\ \/ phase = "renewing" /\ phase' = "usable"
       \/ phase = "revoked" /\ phase' = "revoked"
    /\ served' = stored
    /\ UNCHANGED stored

Withdraw ==
    /\ phase \in {"pending", "usable", "renewing"}
    /\ phase' = "down"
    /\ UNCHANGED <<stored, served>>

Revoke ==
    /\ phase # "revoked"
    /\ phase' = "revoked"
    /\ UNCHANGED <<stored, served>>

CustodyNext ==
    \/ Establish
    \/ Renew
    \/ Commit
    \/ Publish
    \/ Withdraw
    \/ Revoke

CustodySpec == CustodyInit /\ [][CustodyNext]_custodyVars
================================================================================
