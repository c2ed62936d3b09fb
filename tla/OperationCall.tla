----------------------------- MODULE OperationCall -----------------------------
(***************************************************************************)
(* What a dispatched operation promises the caller about the provider's    *)
(* side effect (docs/04-dispatch.md, 4.3): an operation that is not        *)
(* retryable takes effect at most once, a success means that it did take   *)
(* effect, and a rejection of such an operation means that it did not.     *)
(*                                                                         *)
(*   open     a call is under way                                          *)
(*   once     the operation may not be repeated                            *)
(*   applied  how often it took effect: 0, 1 or 2 for "more than once"     *)
(*   verdict  what the caller was told: "none", "done", "refused", "unsure"*)
(*                                                                         *)
(* DispatchClient implements this specification.                           *)
(***************************************************************************)
EXTENDS Naturals

VARIABLES open, once, applied, verdict

callVars == <<open, once, applied, verdict>>

CallInit ==
    /\ open = FALSE
    /\ once \in BOOLEAN
    /\ applied = 0
    /\ verdict = "none"

Open ==
    /\ ~open
    /\ open' = TRUE
    /\ once' \in BOOLEAN
    /\ applied' = 0
    /\ verdict' = "none"

\* The call fails before it is made.
Abandon ==
    /\ ~open
    /\ once' \in BOOLEAN
    /\ applied' = 0
    /\ verdict' = "unsure"
    /\ UNCHANGED open

TakeEffect ==
    /\ open
    /\ once => applied = 0
    /\ applied' = IF applied = 0 THEN 1 ELSE 2
    /\ UNCHANGED <<open, once, verdict>>

Close ==
    /\ open
    /\ open' = FALSE
    /\ \/ applied > 0 /\ verdict' = "done"
       \/ (once => applied = 0) /\ verdict' = "refused"
       \/ verdict' = "unsure"
    /\ UNCHANGED <<once, applied>>

CallNext == Open \/ Abandon \/ TakeEffect \/ Close

CallSpec == CallInit /\ [][CallNext]_callVars
================================================================================
