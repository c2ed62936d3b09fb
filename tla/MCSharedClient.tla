---------------------------- MODULE MCSharedClient ----------------------------
(* Two threads that dispatch again and again. *)
EXTENDS SharedClient
================================================================================
