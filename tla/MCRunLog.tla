------------------------------- MODULE MCRunLog -------------------------------
(* Instances of RunLog for TLC. *)
EXTENDS RunLog, TLC

\* The commands are interchangeable.
CommandSymmetry == Permutations(Commands)
==============================================================================
