---------------------------- MODULE MCSessionStore ----------------------------
(* Instances of SessionStore for TLC. *)
EXTENDS SessionStore, TLC

Interchangeable == Permutations(Procs)
==============================================================================
