----------------------------- MODULE RunContract -----------------------------
(***************************************************************************)
(* What a run promises to the user whose workspace it works in, whatever   *)
(* the loop's internal order of checks: calls are settled one at a time,   *)
(* in the order in which they are asked for; a call is executed at most    *)
(* once and before it is answered; it is never executed when it is the     *)
(* RepeatThreshold-th equal call in a row; a refusal ends the run, and     *)
(* after the outcome is known nothing happens any more.                    *)
(***************************************************************************)
EXTENDS Integers, Sequences

CONSTANTS Call, RepeatThreshold, Outcomes, Refusals

VARIABLES
    asked,      \* the calls asked for so far, in order
    ran,        \* the positions in asked that were executed
    answered,   \* how many of them were answered: 1..answered
    outcome     \* "none" or the final outcome

contractVars == <<asked, ran, answered, outcome>>

Open == outcome = "none"
Pending == answered < Len(asked)

Repeats(calls) ==
    /\ Len(calls) >= RepeatThreshold
    /\ \A k \in 1..(RepeatThreshold - 1) :
         calls[Len(calls) - k].fingerprint = calls[Len(calls)].fingerprint

Init ==
    /\ asked = <<>>
    /\ ran = {}
    /\ answered = 0
    /\ outcome = "none"

Ask(c) ==
    /\ Open /\ ~Pending
    /\ asked' = Append(asked, c)
    /\ ~Repeats(asked')
    /\ UNCHANGED <<ran, answered, outcome>>

RefuseRepeat(c) ==
    /\ Open /\ ~Pending
    /\ asked' = Append(asked, c)
    /\ Repeats(asked')
    /\ answered' = answered + 1
    /\ outcome' \in Refusals
    /\ UNCHANGED ran

Run ==
    /\ Open /\ Pending
    /\ Len(asked) \notin ran
    /\ ran' = ran \cup {Len(asked)}
    /\ UNCHANGED <<asked, answered, outcome>>

\* The answer to a call that did not run either lets the model correct its
\* arguments or ends the run with a refusal.
Answer ==
    /\ Open /\ Pending
    /\ answered' = answered + 1
    /\ IF Len(asked) \in ran
       THEN outcome' \in {"none"} \cup (Outcomes \ Refusals)
       ELSE outcome' \in {"none"} \cup Refusals
    /\ UNCHANGED <<asked, ran>>

Conclude ==
    /\ Open /\ ~Pending
    /\ outcome' \in Outcomes \ Refusals
    /\ UNCHANGED <<asked, ran, answered>>

Next ==
    \/ \E c \in Call : Ask(c) \/ RefuseRepeat(c)
    \/ Run \/ Answer \/ Conclude

Spec == Init /\ [][Next]_contractVars
==============================================================================
