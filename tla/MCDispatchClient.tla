--------------------------- MODULE MCDispatchClient ---------------------------
(* Two URLs of the provider and one of another origin. *)
EXTENDS DispatchClient

CONSTANTS home, page, other

MCOrigin == [u \in {home, page, other} |-> IF u = other THEN "elsewhere" ELSE "provider"]
================================================================================
