---------------------------- MODULE MCServerManager ----------------------------
(* Instances of ServerManager for TLC. *)
EXTENDS ServerManager, TLC

Interchangeable ==
    Permutations(Managers) \cup Permutations(ServerIds) \cup Permutations(Pids)
==============================================================================
