------------------------------ MODULE PageReading ------------------------------
(***************************************************************************)
(* What dispatch_paginated promises whoever reads a list through it: from  *)
(* a steady provider the records arrive in order, none twice and none left *)
(* out, and a quiet end means that all of them have arrived; from one that *)
(* tells what is left, the error of the safety limit means that some have  *)
(* not.                                                                    *)
(***************************************************************************)
EXTENDS Naturals, Sequences

VARIABLES
    list,    \* the records from the caller's starting point
    steady,  \* does the provider keep to the pattern
    telling, \* does each page tell whether it is the last
    got,     \* the records the caller has received
    ended    \* how the reading ended: "no" while it lasts

vars == <<list, steady, telling, got, ended>>

Ends == {"no", "end", "limit", "failure", "cross_origin", "raised"}

Upto(n) == [i \in 1..n |-> list[i]]

Init ==
    /\ list \in Seq(Nat)
    /\ {steady, telling} \subseteq BOOLEAN
    /\ got = << >> /\ ended = "no"

\* From a steady provider the first n records have arrived; the reading goes on or
\* ends as how says.
ReadSteadily(n, how) ==
    /\ steady
    /\ n >= Len(got) /\ got' = Upto(n)
    /\ how = "end" => n = Len(list)
    /\ telling /\ how = "limit" => n < Len(list)

\* Of what another provider sends, nothing is promised but one end.
Read(how) ==
    /\ ended = "no"
    /\ ended' = how
    /\ ~steady \/ \E n \in 0..Len(list) : ReadSteadily(n, how)
    /\ UNCHANGED <<list, steady, telling>>

Next == \E how \in Ends : Read(how)

Spec == Init /\ [][Next]_vars
=============================================================================
