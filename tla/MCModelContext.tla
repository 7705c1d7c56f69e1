---------------------------- MODULE MCModelContext ----------------------------
(* Instances of ModelContext for TLC. *)
EXTENDS ModelContext

CONSTANTS c1, c2, padded1

\* The summary of earlier turns, then three turns.
SummaryAndTurns ==
    <<[sticky |-> TRUE], [sticky |-> FALSE], [sticky |-> FALSE], [sticky |-> FALSE]>>

NoTurns == <<>>

\* padded1 is c1 with a blank around it.
StripPadding == [id \in {c1, c2, padded1} |-> IF id = padded1 THEN c1 ELSE id]
==============================================================================
