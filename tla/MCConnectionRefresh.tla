-------------------------- MODULE MCConnectionRefresh --------------------------
(* Two callers compete for one Connection. *)
EXTENDS ConnectionRefresh
================================================================================
