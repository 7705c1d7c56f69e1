------------------------------ MODULE ItemBounds ------------------------------
(***************************************************************************)
(* How a long collection is cut: the loop that _json_log_safe, redact,     *)
(* _json_safe and _bounded_context_content each have twice, for mappings   *)
(* and for sequences, and the one of _message_content_text_parts that      *)
(* counts in another way.  The length is not known when the loop starts,   *)
(* so the item at the limit is kept pending until another follows it.      *)
(*                                                                         *)
(* Of a collection only its length matters and, once it was cut, what its  *)
(* last item, the marker, says.                                            *)
(***************************************************************************)
EXTENDS Naturals

CONSTANT ItemLimit   \* 200, in loop.py, run_logger.py and llm.py alike

ASSUME ItemLimitAssumption == ItemLimit \in Nat \ {0}

Whole == [items |-> 0, omitted |-> 0]   \* no marker

Collection(n) == [length |-> n, marker |-> Whole]

\* The loop after n items: those taken, whether one is pending, and those left out.
Seen(n) ==
    LET after[i \in 0..n] ==
            IF i = 0 THEN [taken |-> 0, pending |-> FALSE, after_pending |-> 0]
            ELSE LET index == i - 1
                     last == after[index]
                 IN  CASE index < ItemLimit - 1 -> [last EXCEPT !.taken = @ + 1]
                       [] index = ItemLimit - 1 -> [last EXCEPT !.pending = TRUE]
                       [] OTHER -> [last EXCEPT !.after_pending = @ + 1]
    IN  after[n]

\* Seeded fault: the pending item is dropped and not counted.
FaultOmitted(seen) == seen.after_pending

Omitted(seen) == seen.after_pending + IF seen.pending THEN 1 ELSE 0

Bounded(collection) ==
    LET seen == Seen(collection.length)
    IN  IF seen.after_pending > 0
        THEN [length |-> seen.taken + 1,
              marker |-> [items |-> collection.length, omitted |-> Omitted(seen)]]
        ELSE collection

\* _message_content_text_parts: the first item after the pending one counts twice.
TextParts(n) ==
    LET omitted[i \in 0..n] ==
            CASE i <= ItemLimit -> 0
              [] i = ItemLimit + 1 -> 2
              [] OTHER -> omitted[i - 1] + 1
    IN  IF omitted[n] > 0
        THEN [length |-> ItemLimit, marker |-> [items |-> n, omitted |-> omitted[n]]]
        ELSE Collection(n)

\* What a reader of a collection can tell of the one it was cut from.
Kept(collection) == collection.length - IF collection.marker = Whole THEN 0 ELSE 1
Original(collection) == Kept(collection) + collection.marker.omitted
==============================================================================
