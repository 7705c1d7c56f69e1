----------------------------- MODULE MCAgentLoop -----------------------------
(* Instances of AgentLoop for TLC. *)
EXTENDS AgentLoop, TLC

\* call_ids are compared for equality only.
CallIdSymmetry == Permutations(CallIds)
==============================================================================
