------------------------------ MODULE AgentLoop ------------------------------
(***************************************************************************)
(* AgentLoop.run (core/loop.py): one run of the agent, from the goal to    *)
(* the final status.  The loop asks the model for an action, retries a     *)
(* failed request, validates and executes the tool calls the model         *)
(* returns, and closes the run with exactly one final status.              *)
(*                                                                         *)
(* The model, the permission policy, the user who confirms and the tools   *)
(* are environments the loop calls and waits for: each of their answers is *)
(* a choice.  What the loop decides itself (which tools are registered,    *)
(* which arguments fit the schema) is fixed for the run, by the constants. *)
(*                                                                         *)
(* A call is a provider call_id and a fingerprint: the tool name with its  *)
(* arguments, which is all that _action_fingerprint compares.              *)
(***************************************************************************)
EXTENDS Integers, Sequences, FiniteSets

CONSTANTS
    Fingerprints,     \* the tool-name-with-arguments values a model may ask for
    Registered,       \* those whose tool is in the registry
    WellFormed,       \* those whose arguments also fit the tool's schema
    CallIds,          \* call_id values of the provider
    NoCall,           \* "no call": the call of events that are about none
    Malformed,        \* a batch member that is no usable tool call
    MaxSteps,         \* config.max_steps
    RetryAttempts,    \* config.model_retry_attempts
    RepeatThreshold,  \* REPEATED_ACTION_THRESHOLD (3)
    MaxBatch          \* MAX_TOOL_CALL_BATCH_SIZE (20)

Call == [id : CallIds, fingerprint : Fingerprints]

ASSUME LoopAssumption ==
    /\ WellFormed \subseteq Registered
    /\ Registered \subseteq Fingerprints
    /\ MaxSteps \in Nat \ {0}
    /\ RetryAttempts \in Nat \ {0}
    /\ MaxBatch \in Nat \ {0}
    /\ RepeatThreshold \in Nat \ {0, 1}
    /\ NoCall \notin Call
    /\ Malformed \notin Call

VARIABLES
    pc,                     \* where run() is
    step_count,             \* RunState.step_count
    attempt,                \* the attempt of the retry loop around next_action
    queue,                  \* members of the current batch still to be executed
    call,                   \* the call _execute_tool_action works on
    decision,               \* the policy outcome for that call
    last_action_fingerprint,
    repeated_action_count,
    observations,           \* RunState.observations
    final_status,           \* RunState.final_status ("none" before it is set)
    log,                    \* events handed to RunLogger.log, in order
    asked,                  \* history: calls accepted (model_action), in order
    ran                     \* history: positions in asked whose tool was executed

stateVars == <<last_action_fingerprint, repeated_action_count>>
historyVars == <<asked, ran>>
vars == <<pc, step_count, attempt, queue, call, decision, stateVars,
          observations, final_status, log, historyVars>>

InvalidStatuses == {"invalid_goal", "invalid_action"}
RefusalStatuses == {"blocked", "denied", "unknown_tool", "repeated_action"}
FinalStatuses == InvalidStatuses \cup RefusalStatuses
                 \cup {"completed", "max_steps", "model_error", "tool_error"}

NoFingerprint == NoCall

(***************************************************************************)
(* The event log.                                                          *)
(***************************************************************************)
Event(kind, step, about, detail) ==
    [event |-> kind, step |-> step, call |-> about, detail |-> detail]

Happened(kind, detail) == Event(kind, step_count, NoCall, detail)

(***************************************************************************)
(* Batches.  A member is a call or is malformed: not a ToolCallAction, a   *)
(* bad tool name or call_id, arguments that cannot be read.                *)
(***************************************************************************)
Member == Call \cup {Malformed}

\* MaxBatch + 1 stands for every longer list: _bounded_batch_tool_calls
\* reads no further.
Batch == UNION {[1..n -> Member] : n \in 0..(MaxBatch + 1)}

\* Seeded faults: only the first member is inspected; duplicates are let in.
FirstMemberOnly(batch) ==
    /\ batch # <<>>
    /\ Len(batch) <= MaxBatch
    /\ batch[1] # Malformed

BatchAccepted(batch) ==
    /\ batch # <<>>
    /\ Len(batch) <= MaxBatch
    /\ \A i \in DOMAIN batch : batch[i] # Malformed
    /\ \A i, j \in DOMAIN batch : i # j => batch[i].id # batch[j].id

(***************************************************************************)
(* Steps that several handlers share.                                      *)
(***************************************************************************)
Stop(status) ==
    /\ final_status' = status
    /\ pc' = "finish"

\* Seeded fault: a refusal ends the member, not the batch.
FaultStopMemberOnly(status) ==
    /\ final_status' = status
    /\ pc' = IF queue = <<>> THEN "finish" ELSE "calls"

\* Where run() stops when a handler of a batch member set final_status.
StopBatch(status) == Stop(status)

Proceed ==
    /\ pc' = IF queue = <<>> THEN "step" ELSE "calls"
    /\ UNCHANGED final_status

RecordInvalidAction ==
    /\ log' = Append(log, Happened("run_error", "invalid_action"))
    /\ Stop("invalid_action")

\* _record_tool_observation for call c: the observation, then tool_finished
\* and run_snapshot; before holds the events of the step that precede them.
RecordObservation(c, outcome, success, before) ==
    /\ observations' =
         Append(observations, [call |-> c, decision |-> outcome, success |-> success])
    /\ log' = log \o before
              \o << Event("tool_finished", step_count, c,
                          IF success THEN "ok" ELSE "failed"),
                    Happened("run_snapshot", "-") >>
    /\ call' = NoCall
    /\ decision' = "none"

Decided(outcome) == <<Event("policy_decision", step_count, call, outcome)>>
ToolStarted == <<Event("tool_started", step_count, call, "-")>>

\* Seeded faults: a changed call clears the counter; the counter is per step.
FaultCountFromZero(fingerprint) ==
    IF fingerprint = last_action_fingerprint THEN repeated_action_count + 1 ELSE 0

FaultCountEqualOnly(fingerprint) ==
    IF fingerprint = last_action_fingerprint
    THEN repeated_action_count + 1
    ELSE repeated_action_count

\* The count _record_repeated_action computes before any other check.
RepeatCount(fingerprint) ==
    IF fingerprint = last_action_fingerprint THEN repeated_action_count + 1 ELSE 1

(***************************************************************************)
(* The run as a whole.                                                     *)
(***************************************************************************)
Init ==
    /\ pc = "start"
    /\ step_count = 0 /\ attempt = 0
    /\ queue = <<>> /\ call = NoCall /\ decision = "none"
    /\ last_action_fingerprint = NoFingerprint /\ repeated_action_count = 0
    /\ observations = <<>>
    /\ final_status = "none"
    /\ log = <<>>
    /\ asked = <<>> /\ ran = {}

\* A goal that is blank or cannot be read ends the run before the first step.
Start ==
    /\ pc = "start"
    /\ log' = Append(log, Happened("run_started", "-"))
    /\ \/ pc' = "step" /\ UNCHANGED final_status
       \/ Stop("invalid_goal")
    /\ UNCHANGED <<step_count, attempt, queue, call, decision, stateVars,
                   observations, historyVars>>

BeginStep ==
    /\ pc = "step"
    /\ step_count < MaxSteps
    /\ step_count' = step_count + 1
    /\ attempt' = 1
    /\ log' = Append(log, Event("model_requested", step_count + 1, NoCall, "-"))
    /\ pc' = "ask"
    /\ UNCHANGED <<queue, call, decision, stateVars, observations, final_status,
                   historyVars>>

\* Seeded fault: the loop stops at MaxSteps and the exit waits for one more.
FaultOutOfSteps == step_count > MaxSteps

OutOfSteps == step_count >= MaxSteps

ReachMaxSteps ==
    /\ pc = "step"
    /\ OutOfSteps
    /\ Stop("max_steps")
    /\ UNCHANGED <<step_count, attempt, queue, call, decision, stateVars,
                   observations, log, historyVars>>

(***************************************************************************)
(* The model's answer.                                                     *)
(***************************************************************************)
\* Seeded fault: the last permitted attempt is retried as well.
FaultRetryOnceMore == attempt <= RetryAttempts

MayRetry == attempt < RetryAttempts

RetryModel ==
    /\ pc = "ask"
    /\ MayRetry
    /\ attempt' = attempt + 1
    /\ log' = Append(log, Happened("model_retry", "-"))
    /\ UNCHANGED <<pc, step_count, queue, call, decision, stateVars, observations,
                   final_status, historyVars>>

GiveUpOnModel ==
    /\ pc = "ask"
    /\ ~MayRetry
    /\ log' = Append(log, Happened("run_error", "model_error"))
    /\ Stop("model_error")
    /\ UNCHANGED <<step_count, attempt, queue, call, decision, stateVars,
                   observations, historyVars>>

\* next_action returned None: no run_error event is written.
ModelReturnsNothing ==
    /\ pc = "ask"
    /\ Stop("model_error")
    /\ UNCHANGED <<step_count, attempt, queue, call, decision, stateVars,
                   observations, log, historyVars>>

ModelFinishes ==
    /\ pc = "ask"
    /\ Stop("completed")
    /\ UNCHANGED <<step_count, attempt, queue, call, decision, stateVars,
                   observations, log, historyVars>>

\* A final action with bad metadata, or an object of another type.
ModelReturnsUnusable ==
    /\ pc = "ask"
    /\ RecordInvalidAction
    /\ UNCHANGED <<step_count, attempt, queue, call, decision, stateVars,
                   observations, historyVars>>

\* A single ToolCallAction reaches _execute_tool_action unchecked.
ModelAsksForCall ==
    /\ pc = "ask"
    /\ \E member \in Member : queue' = <<member>>
    /\ pc' = "calls"
    /\ UNCHANGED <<step_count, attempt, call, decision, stateVars, observations,
                   final_status, log, historyVars>>

\* A batch is checked as a whole before its first member is executed.
ModelAsksForBatch ==
    /\ pc = "ask"
    /\ \E batch \in Batch :
         \/ /\ BatchAccepted(batch)
            /\ queue' = batch
            /\ pc' = "calls"
            /\ UNCHANGED <<final_status, log>>
         \/ /\ ~BatchAccepted(batch)
            /\ RecordInvalidAction
            /\ UNCHANGED queue
    /\ UNCHANGED <<step_count, attempt, call, decision, stateVars, observations,
                   historyVars>>

(***************************************************************************)
(* _execute_tool_action, one action per exit.                              *)
(***************************************************************************)
RejectMalformedCall ==
    /\ pc = "calls"
    /\ Head(queue) = Malformed
    /\ RecordInvalidAction
    /\ UNCHANGED <<step_count, attempt, queue, call, decision, stateVars,
                   observations, historyVars>>

\* The call is logged, counted and, short of the threshold, looked up.
AcceptCall ==
    /\ pc = "calls"
    /\ Head(queue) # Malformed
    /\ LET c     == Head(queue)
           count == RepeatCount(c.fingerprint)
           taken == <<Event("model_action", step_count, c, "-")>>
       IN  /\ last_action_fingerprint' = c.fingerprint
           /\ repeated_action_count' = count
           /\ asked' = Append(asked, c)
           /\ queue' = Tail(queue)
           /\ \/ /\ count < RepeatThreshold
                 /\ call' = c
                 /\ pc' = "lookup"
                 /\ log' = log \o taken
                 /\ UNCHANGED <<decision, observations, final_status>>
              \/ /\ count >= RepeatThreshold
                 /\ RecordObservation(c, "block", FALSE, taken)
                 /\ StopBatch("repeated_action")
    /\ UNCHANGED <<step_count, attempt, ran>>

UnknownTool ==
    /\ pc = "lookup"
    /\ call.fingerprint \notin Registered
    /\ RecordObservation(call, "block", FALSE, <<>>)
    /\ StopBatch("unknown_tool")
    /\ UNCHANGED <<step_count, attempt, queue, stateVars, historyVars>>

\* Seeded fault: the schema errors are returned to nobody.
FaultInvalidArguments ==
    /\ pc = "lookup"
    /\ call.fingerprint \in Registered \ WellFormed
    /\ call' = NoCall
    /\ Proceed
    /\ UNCHANGED <<step_count, attempt, queue, decision, observations, log,
                   stateVars, historyVars>>

\* The only refusal that leaves the run open: the model may correct itself.
InvalidArguments ==
    /\ pc = "lookup"
    /\ call.fingerprint \in Registered \ WellFormed
    /\ RecordObservation(call, "block", FALSE, <<>>)
    /\ Proceed
    /\ UNCHANGED <<step_count, attempt, queue, stateVars, historyVars>>

\* Seeded fault: an unusable decision is answered like bad arguments.
FaultPolicyUnusable ==
    /\ pc = "lookup"
    /\ call.fingerprint \in WellFormed
    /\ RecordObservation(call, "block", FALSE, <<>>)
    /\ Proceed
    /\ UNCHANGED <<step_count, attempt, queue, stateVars, historyVars>>

\* policy.decide raised, or its decision has no usable outcome or reason.
PolicyUnusable ==
    /\ pc = "lookup"
    /\ call.fingerprint \in WellFormed
    /\ RecordObservation(call, "block", FALSE, <<>>)
    /\ StopBatch("blocked")
    /\ UNCHANGED <<step_count, attempt, queue, stateVars, historyVars>>

PolicyBlocks ==
    /\ pc = "lookup"
    /\ call.fingerprint \in WellFormed
    /\ RecordObservation(call, "block", FALSE, Decided("block"))
    /\ StopBatch("blocked")
    /\ UNCHANGED <<step_count, attempt, queue, stateVars, historyVars>>

StartTool(events) ==
    /\ log' = log \o events \o ToolStarted
    /\ ran' = ran \cup {Len(asked)}
    /\ pc' = "tool"

PolicyAllows ==
    /\ pc = "lookup"
    /\ call.fingerprint \in WellFormed
    /\ decision' = "allow"
    /\ StartTool(Decided("allow"))
    /\ UNCHANGED <<step_count, attempt, queue, call, stateVars, observations,
                   final_status, asked>>

PolicyAsksToConfirm ==
    /\ pc = "lookup"
    /\ call.fingerprint \in WellFormed
    /\ decision' = "confirm"
    /\ log' = log \o Decided("confirm")
    /\ pc' = "confirm"
    /\ UNCHANGED <<step_count, attempt, queue, call, stateVars, observations,
                   final_status, historyVars>>

UserConfirms ==
    /\ pc = "confirm"
    /\ StartTool(<<>>)
    /\ UNCHANGED <<step_count, attempt, queue, call, decision, stateVars,
                   observations, final_status, asked>>

\* The user says no, the confirmer raises, or its answer is no bool.
UserRefuses ==
    /\ pc = "confirm"
    /\ RecordObservation(call, decision, FALSE, <<>>)
    /\ StopBatch("denied")
    /\ UNCHANGED <<step_count, attempt, queue, stateVars, historyVars>>

\* The tool ran; its result may itself report a failure.
ToolReturns ==
    /\ pc = "tool"
    /\ \E success \in BOOLEAN : RecordObservation(call, decision, success, <<>>)
    /\ Proceed
    /\ UNCHANGED <<step_count, attempt, queue, stateVars, historyVars>>

\* The tool raised, or returned no ToolResult or a malformed one.
ToolBreaks ==
    /\ pc = "tool"
    /\ RecordObservation(call, decision, FALSE, <<>>)
    /\ StopBatch("tool_error")
    /\ UNCHANGED <<step_count, attempt, queue, stateVars, historyVars>>

(***************************************************************************)
(* The end.                                                                *)
(***************************************************************************)
FinishRun ==
    /\ pc = "finish"
    /\ log' = log \o << Happened("run_snapshot", "-"),
                        Happened("run_finished", final_status) >>
    /\ pc' = "done"
    /\ UNCHANGED <<step_count, attempt, queue, call, decision, stateVars,
                   observations, final_status, historyVars>>

\* A KeyboardInterrupt (no Exception, so no handler catches it) or the death
\* of the process: the log keeps what was written.
Interrupt ==
    /\ pc \notin {"done", "interrupted"}
    /\ pc' = "interrupted"
    /\ UNCHANGED <<step_count, attempt, queue, call, decision, stateVars,
                   observations, final_status, log, historyVars>>

Ended ==
    /\ pc \in {"done", "interrupted"}
    /\ UNCHANGED vars

LoopStep ==
    \/ Start \/ BeginStep \/ ReachMaxSteps
    \/ RetryModel \/ GiveUpOnModel \/ ModelReturnsNothing \/ ModelFinishes
    \/ ModelReturnsUnusable \/ ModelAsksForCall \/ ModelAsksForBatch
    \/ RejectMalformedCall \/ AcceptCall
    \/ UnknownTool \/ InvalidArguments
    \/ PolicyUnusable \/ PolicyBlocks \/ PolicyAllows \/ PolicyAsksToConfirm
    \/ UserConfirms \/ UserRefuses \/ ToolReturns \/ ToolBreaks
    \/ FinishRun

Next == LoopStep \/ Interrupt \/ Ended

Spec == Init /\ [][Next]_vars

\* Every request, confirmation and tool call comes back (the code waits for
\* each without a deadline of its own), and the loop then takes its next step.
FairSpec == Spec /\ WF_vars(LoopStep)

-----------------------------------------------------------------------------
(***************************************************************************)
(* Properties.                                                             *)
(***************************************************************************)
PCs == {"start", "step", "ask", "calls", "lookup", "confirm", "tool",
        "finish", "done", "interrupted"}

EventKinds == {"run_started", "model_requested", "model_retry", "model_action",
               "policy_decision", "tool_started", "tool_finished", "run_error",
               "run_snapshot", "run_finished"}

EventDetails == {"-", "ok", "failed", "allow", "confirm", "block"}
                \cup FinalStatuses

LogEvent == [event : EventKinds, step : 0..MaxSteps, call : Call \cup {NoCall},
             detail : EventDetails]

Observation == [call : Call, decision : {"allow", "confirm", "block"},
                success : BOOLEAN]

\* The loop's variables have the types of RunState; in particular a request is
\* never tried more than RetryAttempts times, nor a step begun beyond MaxSteps.
TypeOK ==
    /\ pc \in PCs
    /\ step_count \in 0..MaxSteps
    /\ attempt \in 0..RetryAttempts
    /\ queue \in Seq(Member)
    /\ call \in Call \cup {NoCall}
    /\ decision \in {"none", "allow", "confirm"}
    /\ last_action_fingerprint \in Fingerprints \cup {NoFingerprint}
    /\ repeated_action_count \in Nat
    /\ observations \in Seq(Observation)
    /\ final_status \in FinalStatuses \cup {"none"}
    /\ log \in Seq(LogEvent)
    /\ asked \in Seq(Call)
    /\ ran \subseteq Nat

InCall == pc \in {"lookup", "confirm", "tool"}

\* Every call the loop logged as accepted gets exactly one observation, under
\* its own call_id and in the order of the calls: the n-th observation answers
\* the n-th call, and only the call in progress (or cut off by an interrupt)
\* is still unanswered.  The model API rejects a request that breaks this.
AnswersFollowCalls ==
    /\ \A n \in DOMAIN observations : n <= Len(asked) /\ observations[n].call = asked[n]
    /\ pc # "interrupted" =>
         Len(asked) = Len(observations) + (IF InCall THEN 1 ELSE 0)
    /\ pc = "interrupted" => Len(asked) <= Len(observations) + 1

Correctable(n) == asked[n].fingerprint \in Registered \ WellFormed

\* A call that was refused was not executed, and it is the last call of the
\* run: the members of its batch that follow it are not even looked up, and
\* no later step is begun.  Only malformed arguments may be corrected.  (The
\* design document says this of a denial in two places and the opposite, that
\* the model may choose another path, in a third.)
RefusalEndsTheRun ==
    \A n \in DOMAIN observations :
        \/ /\ n \in ran
           /\ observations[n].decision \in {"allow", "confirm"}
        \/ /\ ~observations[n].success
           /\ Correctable(n) \/ (n = Len(asked) /\ final_status \in RefusalStatuses)

\* The final status names what happened to the last call: a reader of the log
\* or of the resumed conversation is not told "denied" about a tool that ran,
\* nor "completed" over a call that was refused.
StatusMatchesLastAnswer ==
    pc \in {"finish", "done"} =>
        LET last == Len(observations) IN
        /\ final_status \in RefusalStatuses \cup {"tool_error"} =>
             /\ last > 0 /\ ~observations[last].success
             /\ (last \in ran) <=> (final_status = "tool_error")
             /\ (observations[last].decision = "block")
                  <=> (final_status \in RefusalStatuses \ {"denied"})
        /\ final_status \in {"completed", "max_steps", "model_error"} =>
             \/ last = 0
             \/ last \in ran \/ Correctable(last)

\* The n-th call is at least the RepeatThreshold-th equal one in a row,
\* whatever the batches and steps the calls came in.
InARow(n) ==
    /\ n >= RepeatThreshold
    /\ \A k \in 1..(RepeatThreshold - 1) : asked[n - k].fingerprint = asked[n].fingerprint

\* A tool is not executed for the third equal call in a row.
NoThirdRepeat == \A n \in ran : ~InARow(n)

\* The run is stopped for a repetition only if there was one: a different call
\* in between resets the count.
RepeatStopJustified == final_status = "repeated_action" => InARow(Len(asked))

\* An invalid action of the model changes nothing: no call of the step that
\* brought it was accepted, so no valid member of a rejected batch ran.
RejectedBatchRunsNothing ==
    final_status = "invalid_action" =>
        \A i \in DOMAIN log : log[i].event = "model_action" => log[i].step < step_count

RequestsOf(step) ==
    {i \in DOMAIN log : /\ log[i].event \in {"model_requested", "model_retry"}
                        /\ log[i].step = step}

\* The model is asked at most RetryAttempts times per step, all in all at most
\* MaxSteps * RetryAttempts times.
RequestsBounded ==
    \A step \in 0..MaxSteps :
        Cardinality(RequestsOf(step)) <= IF step = 0 THEN 0 ELSE RetryAttempts

\* Once a final status is set, the run accepts, executes and answers nothing
\* more, and the status is not replaced by that of a later member.
OutcomeIsFinal ==
    [][final_status # "none" =>
         UNCHANGED <<final_status, observations, asked, ran>>]_vars

\* Every run ends, with run_finished in its log unless it is interrupted.
RunEnds == <>(pc \in {"done", "interrupted"})

-----------------------------------------------------------------------------
\* The loop implements the contract of a tool run.
Contract == INSTANCE RunContract WITH
    answered <- Len(observations),
    outcome  <- final_status,
    Outcomes <- FinalStatuses,
    Refusals <- RefusalStatuses

ImplementsContract == Contract!Spec
==============================================================================
