----------------------------- MODULE ModelContext -----------------------------
(***************************************************************************)
(* LLMClient (core/llm.py): the context of a run, the items that go to the *)
(* model with each request.  _build_input moves new observations into      *)
(* RunState.response_context_items before the request is sent, a response  *)
(* is appended after it, and both cut the context down to a maximum.       *)
(*                                                                         *)
(* The loop is reduced to what it does to that state: it repeats a failed  *)
(* next_action, executes all calls of a response in order (one observation *)
(* each, see AgentLoop), and ends the run at any call it refuses.          *)
(***************************************************************************)
EXTENDS Integers, Sequences

CONSTANTS
    Conversation,   \* the earlier turns: a sequence of [sticky : BOOLEAN]
    CallIds,        \* call_id values as the provider writes them
    Strip,          \* [CallIds -> CallIds]: the call_id without outer blanks
    ContextTurns,   \* config.session_context_turns
    MaxItems,       \* MAX_RESPONSE_CONTEXT_ITEMS (200)
    MaxAnchors,     \* MAX_RESPONSE_CONTEXT_ANCHOR_ITEMS (50)
    MaxSteps,       \* config.max_steps
    RetryAttempts,  \* config.model_retry_attempts
    MaxCalls        \* bound on the calls of one response

ASSUME ContextAssumption ==
    /\ Conversation \in Seq([sticky : BOOLEAN])
    /\ Strip \in [CallIds -> CallIds]
    /\ ContextTurns \in Nat \ {0}
    /\ MaxAnchors \in Nat \ {0}
    /\ MaxItems \in Nat /\ MaxItems > MaxAnchors
    /\ MaxSteps \in Nat \ {0} /\ RetryAttempts \in Nat \ {0} /\ MaxCalls \in Nat

VARIABLES
    pc,            \* "build" | "sent" | "execute" | "end"
    step, attempt, \* of the loop
    items,         \* RunState.response_context_items
    observations,  \* call_ids of RunState.observations
    sent,          \* RunState.sent_observation_count
    request,       \* the input of the last request
    pending,       \* calls of the last response still to be executed
    lossless       \* history: nothing was trimmed and every call did serialize

vars == <<pc, step, attempt, items, observations, sent, request, pending, lossless>>

Smaller(a, b) == IF a < b THEN a ELSE b
Larger(a, b) == IF a > b THEN a ELSE b
LastN(s, n) == SubSeq(s, Larger(Len(s) - n, 0) + 1, Len(s))

(***************************************************************************)
(* Items.  A turn is known by its position, an output by its observation.  *)
(***************************************************************************)
Item(kind, n, id) == [kind |-> kind, n |-> n, id |-> id]
NoId == "no id"
Turn(n) == Item("turn", n, NoId)
Goal == Item("goal", 0, NoId)
OtherItem == Item("other", 0, NoId)
CallItem(id) == Item("call", 0, id)
OutputItem(n) == Item("output", n, observations[n])

IsAnchor(item) == item.kind \in {"turn", "goal"}

\* The positions of the sticky turns, or of the others.
TurnsThat(sticky) ==
    LET found[n \in 0..Len(Conversation)] ==
          IF n = 0 THEN <<>>
          ELSE IF Conversation[n].sticky = sticky THEN Append(found[n - 1], n)
          ELSE found[n - 1]
    IN  found[Len(Conversation)]

\* _conversation_items: sticky turns, then the most recent others, then the goal.
ConversationItems ==
    LET sticky == LastN(TurnsThat(TRUE), Smaller(ContextTurns, MaxAnchors))
        budget == Larger(MaxItems - Len(sticky) - 1, 0)
        recent == LastN(TurnsThat(FALSE), Smaller(ContextTurns, budget))
        chosen == sticky \o recent
    IN  Append([i \in DOMAIN chosen |-> Turn(chosen[i])], Goal)

\* _leading_context_anchors: how many of the first items are kept.
LeadingAnchors(context) ==
    LET most == Smaller(Len(context), MaxAnchors)
    IN  CHOOSE n \in 0..most : /\ \A i \in 1..n : IsAnchor(context[i])
                               /\ n = most \/ ~IsAnchor(context[n + 1])

\* Seeded faults: the context is cut from the front; the anchors are not counted.
FaultTrimTailOnly(context) ==
    IF Len(context) <= MaxItems THEN context ELSE LastN(context, MaxItems)

FaultTrimOffByAnchors(context) ==
    LET anchors == LeadingAnchors(context)
    IN  IF Len(context) <= MaxItems
        THEN context
        ELSE SubSeq(context, 1, anchors) \o LastN(context, MaxItems)

\* _trim_response_context_items: the leading anchors and the newest rest.
Trim(context) ==
    LET anchors == LeadingAnchors(context)
    IN  IF Len(context) <= MaxItems
        THEN context
        ELSE SubSeq(context, 1, anchors) \o LastN(context, MaxItems - anchors)

(***************************************************************************)
(* _build_input.                                                           *)
(***************************************************************************)
Init ==
    /\ pc = "build" /\ step = 1 /\ attempt = 1
    /\ items = <<>> /\ observations = <<>> /\ sent = 0
    /\ request = <<>> /\ pending = <<>>
    /\ lossless = TRUE

Unsent == [i \in 1..(Len(observations) - sent) |-> OutputItem(sent + i)]

\* Seeded fault: the observations count as sent when the response arrives.
FaultMarkSent == sent

MarkSent == Len(observations)

BuildInput ==
    /\ pc = "build"
    /\ IF items # <<>> \/ Unsent # <<>>
       THEN LET context == (IF items = <<>> THEN ConversationItems ELSE items) \o Unsent
            IN  /\ items' = Trim(context)
                /\ request' = items'
                /\ sent' = MarkSent
                /\ lossless' = (lossless /\ Len(context) <= MaxItems)
       ELSE /\ request' = IF Conversation = <<>> THEN <<Goal>>
                                                 ELSE Trim(ConversationItems)
            /\ UNCHANGED <<items, sent, lossless>>
    /\ pc' = "sent"
    /\ UNCHANGED <<step, attempt, observations, pending>>

(***************************************************************************)
(* next_action after the request, and the retry of the loop.               *)
(***************************************************************************)
\* next_action raised: the loop tries again or ends the run.
Raise ==
    IF attempt < RetryAttempts
    THEN /\ attempt' = attempt + 1
         /\ pc' = "build"
    ELSE /\ pc' = "end"
         /\ UNCHANGED attempt

\* responses.create failed, the output could not be read or a function call in
\* it could not be parsed: the context is as _build_input left it.
ResponseUnusable ==
    /\ pc = "sent"
    /\ Raise
    /\ UNCHANGED <<step, items, observations, sent, request, pending, lossless>>

\* Seeded fault: only a context that exists already is extended.
FaultExtend(output, complete) ==
    LET context == items \o output
    IN  /\ items' = IF items = <<>> THEN items ELSE Trim(context)
        /\ lossless' = (lossless /\ complete /\ Len(context) <= MaxItems)

\* What serializes of the output is appended to the context.
Extend(output, complete) ==
    LET base    == IF items = <<>> THEN ConversationItems ELSE items
        context == base \o output
    IN  /\ items' = Trim(context)
        /\ lossless' = (lossless /\ complete /\ Len(context) <= MaxItems)

\* Text, refusals or reasoning only: the run ends with the text, or, without
\* any, next_action raises after the context was extended.
ResponseWithoutCall ==
    /\ pc = "sent"
    /\ \/ UNCHANGED <<items, lossless>>   \* an empty output
       \/ \E output \in {<<>>, <<OtherItem>>} : Extend(output, TRUE)
    /\ \/ Raise
       \/ pc' = "end" /\ UNCHANGED attempt
    /\ UNCHANGED <<step, observations, sent, request, pending>>

CallLists == UNION {[1..n -> CallIds] : n \in 1..MaxCalls}

\* What serializes of an output with these calls, in its order: some of them,
\* and at most one item of another kind, for which 0 stands.
Serialized(calls) ==
    {kept \in UNION {[1..m -> 0..Len(calls)] : m \in 0..(Len(calls) + 1)} :
        \A i, j \in DOMAIN kept :
            i < j => kept[i] # kept[j] /\ (kept[j] # 0 => kept[i] < kept[j])}

Distinct(calls) == \A i, j \in DOMAIN calls : i # j => Strip[calls[i]] # Strip[calls[j]]

\* Every call of the output is returned to the loop, which refuses to execute
\* any if two have the same call_id.
ResponseWithCalls ==
    /\ pc = "sent"
    /\ \E calls \in CallLists : \E kept \in Serialized(calls) :
         /\ Extend([k \in DOMAIN kept |->
                      IF kept[k] = 0 THEN OtherItem ELSE CallItem(calls[kept[k]])],
                   \A i \in DOMAIN calls : \E k \in DOMAIN kept : kept[k] = i)
         /\ pending' = [i \in DOMAIN calls |-> Strip[calls[i]]]
         /\ pc' = IF Distinct(calls) THEN "execute" ELSE "end"
    /\ UNCHANGED <<step, attempt, observations, sent, request>>

(***************************************************************************)
(* The loop executes the calls.                                            *)
(***************************************************************************)
\* Seeded fault: a batch that is refused half-way goes on with the next step.
FaultRefused == "build"

Refused == "end"

ExecuteCall ==
    /\ pc = "execute"
    /\ pending # <<>>
    /\ observations' = Append(observations, Head(pending))
    /\ pending' = Tail(pending)
    /\ pc' \in {"execute", Refused}
    /\ UNCHANGED <<step, attempt, items, sent, request, lossless>>

NextStep ==
    /\ pc = "execute"
    /\ pending = <<>>
    /\ IF step < MaxSteps
       THEN pc' = "build" /\ step' = step + 1 /\ attempt' = 1
       ELSE pc' = "end" /\ UNCHANGED <<step, attempt>>
    /\ UNCHANGED <<items, observations, sent, request, pending, lossless>>

Ended == pc = "end" /\ UNCHANGED vars

Next ==
    \/ BuildInput \/ ResponseUnusable \/ ResponseWithoutCall \/ ResponseWithCalls
    \/ ExecuteCall \/ NextStep \/ Ended

Spec == Init /\ [][Next]_vars

-----------------------------------------------------------------------------
(***************************************************************************)
(* Properties.                                                             *)
(***************************************************************************)
Items == [kind : {"turn", "goal", "other", "call", "output"},
          n : 0..(Len(Conversation) + MaxSteps * MaxCalls),
          id : CallIds \cup {NoId}]

\* The state has the types of RunState and no request is longer than MaxItems.
TypeOK ==
    /\ pc \in {"build", "sent", "execute", "end"}
    /\ step \in 1..MaxSteps /\ attempt \in 1..RetryAttempts
    /\ items \in Seq(Items) /\ Len(items) <= MaxItems
    /\ request \in Seq(Items) /\ Len(request) <= MaxItems
    /\ observations \in Seq(CallIds) /\ sent \in 0..Len(observations)
    /\ pending \in Seq(CallIds)
    /\ lossless \in BOOLEAN

Outputs == {i \in DOMAIN items : items[i].kind = "output"}

Holds(n) == \E i \in Outputs : items[i].n = n

\* The outputs in the context are those of the newest observations that were
\* sent, each once and in order, however often a request failed and was built
\* again.
OutputsSentOnce ==
    /\ \A i, j \in Outputs : i < j => items[i].n < items[j].n
    /\ \A i \in Outputs : items[i].n \in 1..sent /\ \A n \in items[i].n..sent : Holds(n)
    /\ lossless => \A n \in 1..sent : Holds(n)

\* Every function call in a request is followed by its output (by the call_id
\* the tools know): the model API refuses a request with an unanswered call.
CallsAnswered ==
    pc = "sent" =>
        \A i \in DOMAIN request : request[i].kind = "call" =>
            \E j \in (i + 1)..Len(request) :
                request[j].kind = "output" /\ request[j].id = Strip[request[i].id]

\* As long as nothing was trimmed or lost, every output in a request answers a
\* function call before it.
OutputsPaired ==
    pc = "sent" /\ lossless =>
        \A j \in DOMAIN request : request[j].kind = "output" =>
            \E i \in 1..(j - 1) :
                request[i].kind = "call" /\ Strip[request[i].id] = request[j].id

\* The conversation and the goal fit into the anchors that trimming keeps.
AnchorsSuffice == Len(ConversationItems) <= MaxAnchors

\* The goal of the run is in every request, and before anything the model did,
\* if the configured number of turns leaves room for it among the anchors.
GoalLeads ==
    pc = "sent" /\ AnchorsSuffice =>
        \E g \in 1..Len(ConversationItems) :
            request[g] = Goal /\ \A i \in 1..(g - 1) : request[i].kind = "turn"

(* What documents and tests of the repository say. *)

\* "Send ... current input" with every request: the goal is in every request,
\* whatever number of session turns the configuration asks for.
GoalInEveryRequest == pc = "sent" => \E i \in DOMAIN request : request[i] = Goal

\* "Return tool call outputs with the matching provider call_id".
OutputsCarryProviderId ==
    pc = "sent" /\ lossless =>
        \A j \in DOMAIN request : request[j].kind = "output" =>
            \E i \in 1..(j - 1) :
                request[i].kind = "call" /\ request[i].id = request[j].id
==============================================================================
