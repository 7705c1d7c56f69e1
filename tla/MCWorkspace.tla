------------------------------ MODULE MCWorkspace ------------------------------
(* Instances of Workspace for TLC. *)
EXTENDS Workspace

\* A command the policy lets through and one it blocks, in every profile.
Alone(segment) == <<[segment |-> segment, glued |-> {}]>>
ListAndDelete == {Alone(<<"word">>), Alone(<<"rm", "-r">>)}
==============================================================================
