---------------------------- MODULE MCSecretStore ----------------------------
(* A few processes that share one store and one master key.               *)
EXTENDS SecretStore, TLC

Symmetric == Permutations(Procs) \cup Permutations(Secrets)
==============================================================================
