--------------------------- MODULE AgentLoop_proofs ---------------------------
(***************************************************************************)
(* Proofs about AgentLoop, for every value of its constants.               *)
(***************************************************************************)
EXTENDS AgentLoop, SequenceTheorems, FiniteSetTheorems, TLAPS

(***************************************************************************)
(* Type correctness.  TypeOK is not inductive: the type of an observation  *)
(* depends on where run() is, so ControlOK joins it.                       *)
(***************************************************************************)
Closing == pc \in {"finish", "done", "interrupted"}

ControlOK ==
    /\ pc = "calls" => queue # <<>>
    /\ InCall => call \in Call
    /\ pc \in {"confirm", "tool"} => decision \in {"allow", "confirm"}
    /\ ~Closing => final_status = "none"
    /\ pc \in {"finish", "done"} => final_status # "none"

\* An event with a step in range, a call or none and a known detail.
LEMMA EventTyped ==
    ASSUME NEW kind \in EventKinds, NEW step \in 0..MaxSteps,
           NEW about \in Call \cup {NoCall}, NEW detail \in EventDetails
    PROVE  Event(kind, step, about, detail) \in LogEvent
  BY DEF Event, LogEvent

\* The batches of the model are sequences of members.
LEMMA BatchIsSeq == ASSUME NEW batch \in Batch PROVE batch \in Seq(Member)
  BY LoopAssumption DEF Batch

\* What recording an observation does to the typed variables.
LEMMA ObservationTyped ==
    ASSUME TypeOK, NEW c \in Call, NEW outcome \in {"allow", "confirm", "block"},
           NEW success \in BOOLEAN, NEW before \in Seq(LogEvent),
           RecordObservation(c, outcome, success, before)
    PROVE  /\ observations' \in Seq(Observation)
           /\ log' \in Seq(LogEvent)
           /\ call' \in Call \cup {NoCall}
           /\ decision' \in {"none", "allow", "confirm"}
  <1>1. observations' \in Seq(Observation)
    BY DEF TypeOK, RecordObservation, Observation
  <1>2. /\ Event("tool_finished", step_count, c, IF success THEN "ok" ELSE "failed")
             \in LogEvent
        /\ Happened("run_snapshot", "-") \in LogEvent
    BY EventTyped DEF TypeOK, Happened, EventKinds, EventDetails
  <1>3. log' \in Seq(LogEvent)
    BY <1>2 DEF TypeOK, RecordObservation
  <1>. QED  BY <1>1, <1>3 DEF RecordObservation

\* The loop starts with well-typed state and consistent control.
LEMMA TypeInit == Init => TypeOK /\ ControlOK
  BY LoopAssumption DEF Init, TypeOK, ControlOK, Closing, InCall, PCs,
     NoFingerprint, FinalStatuses

\* Stopping with one of the final statuses keeps ControlOK, whatever else moves.
LEMMA StopKeepsControl ==
    ASSUME NEW status \in FinalStatuses, Stop(status)
    PROVE  /\ pc' \in PCs
           /\ final_status' \in FinalStatuses \cup {"none"}
           /\ ControlOK'
  BY DEF Stop, ControlOK, PCs, InCall, Closing, FinalStatuses, InvalidStatuses,
     RefusalStatuses

\* Each action keeps the types.
LEMMA TypeStep == TypeOK /\ ControlOK /\ [Next]_vars => TypeOK' /\ ControlOK'
  <1> SUFFICES ASSUME TypeOK, ControlOK, [Next]_vars
               PROVE  TypeOK' /\ ControlOK'
    OBVIOUS
  <1> USE LoopAssumption
  <1> USE DEF PCs, InCall, Closing
  <1>1. CASE Start
    <2>1. log' \in Seq(LogEvent)
      BY <1>1, EventTyped DEF Start, Happened, TypeOK, EventKinds, EventDetails, FinalStatuses,
         InvalidStatuses, RefusalStatuses
    <2>. QED
      BY <1>1, <2>1, StopKeepsControl DEF Start, TypeOK, ControlOK, stateVars, historyVars,
         FinalStatuses, InvalidStatuses, RefusalStatuses
  <1>2. CASE BeginStep
    <2>1. log' \in Seq(LogEvent)
      BY <1>2, EventTyped DEF BeginStep, Happened, TypeOK, EventKinds, EventDetails, FinalStatuses,
         InvalidStatuses, RefusalStatuses
    <2>. QED
      BY <1>2, <2>1 DEF BeginStep, TypeOK, ControlOK, stateVars, historyVars
  <1>3. CASE ReachMaxSteps
    BY <1>3, StopKeepsControl DEF ReachMaxSteps, TypeOK, ControlOK, stateVars, historyVars,
       FinalStatuses, InvalidStatuses, RefusalStatuses
  <1>4. CASE RetryModel
    <2>1. log' \in Seq(LogEvent)
      BY <1>4, EventTyped DEF RetryModel, Happened, MayRetry, TypeOK, EventKinds, EventDetails, FinalStatuses,
         InvalidStatuses, RefusalStatuses
    <2>. QED
      BY <1>4, <2>1 DEF RetryModel, MayRetry, TypeOK, ControlOK, stateVars, historyVars
  <1>5. CASE GiveUpOnModel
    <2>1. log' \in Seq(LogEvent)
      BY <1>5, EventTyped DEF GiveUpOnModel, Happened, TypeOK, EventKinds, EventDetails, FinalStatuses,
         InvalidStatuses, RefusalStatuses
    <2>. QED
      BY <1>5, <2>1, StopKeepsControl DEF GiveUpOnModel, TypeOK, ControlOK, stateVars, historyVars,
         FinalStatuses, InvalidStatuses, RefusalStatuses
  <1>6. CASE ModelReturnsNothing
    BY <1>6, StopKeepsControl DEF ModelReturnsNothing, TypeOK, ControlOK, stateVars, historyVars,
       FinalStatuses, InvalidStatuses, RefusalStatuses
  <1>7. CASE ModelFinishes
    BY <1>7, StopKeepsControl DEF ModelFinishes, TypeOK, ControlOK, stateVars, historyVars,
       FinalStatuses, InvalidStatuses, RefusalStatuses
  <1>8. CASE ModelReturnsUnusable
    <2>1. log' \in Seq(LogEvent)
      BY <1>8, EventTyped DEF ModelReturnsUnusable, Happened, RecordInvalidAction, TypeOK, EventKinds, EventDetails, FinalStatuses,
         InvalidStatuses, RefusalStatuses
    <2>. QED
      BY <1>8, <2>1, StopKeepsControl DEF ModelReturnsUnusable, RecordInvalidAction, TypeOK, ControlOK, stateVars, historyVars,
         FinalStatuses, InvalidStatuses, RefusalStatuses
  <1>9. CASE ModelAsksForCall
    BY <1>9 DEF ModelAsksForCall, TypeOK, ControlOK, stateVars, historyVars
  <1>10. CASE ModelAsksForBatch
    <2>. PICK batch \in Batch :
            \/ /\ BatchAccepted(batch) /\ queue' = batch /\ pc' = "calls"
               /\ UNCHANGED <<final_status, log>>
            \/ RecordInvalidAction /\ UNCHANGED queue
      BY <1>10 DEF ModelAsksForBatch
    <2>1. CASE BatchAccepted(batch) /\ queue' = batch /\ pc' = "calls"
               /\ UNCHANGED <<final_status, log>>
      BY <1>10, <2>1, BatchIsSeq DEF ModelAsksForBatch, BatchAccepted, TypeOK, ControlOK, stateVars, historyVars
    <2>2. CASE RecordInvalidAction /\ UNCHANGED queue
      <3>1. log' \in Seq(LogEvent)
        BY <2>2, EventTyped DEF RecordInvalidAction, Happened, TypeOK, EventKinds, EventDetails, FinalStatuses,
         InvalidStatuses, RefusalStatuses
      <3>. QED
        BY <1>10, <2>2, <3>1, StopKeepsControl DEF ModelAsksForBatch,
           RecordInvalidAction, TypeOK, ControlOK, stateVars, historyVars, FinalStatuses, InvalidStatuses
    <2>. QED  BY <2>1, <2>2
  <1>11. CASE RejectMalformedCall
    <2>1. log' \in Seq(LogEvent)
      BY <1>11, EventTyped DEF RejectMalformedCall, Happened, RecordInvalidAction, TypeOK, EventKinds, EventDetails, FinalStatuses,
         InvalidStatuses, RefusalStatuses
    <2>. QED
      BY <1>11, <2>1, StopKeepsControl DEF RejectMalformedCall, RecordInvalidAction, TypeOK, ControlOK, stateVars, historyVars,
         FinalStatuses, InvalidStatuses, RefusalStatuses
  <1>12. CASE AcceptCall
    <2> DEFINE c     == Head(queue)
               taken == <<Event("model_action", step_count, c, "-")>>
    <2>1. c \in Call /\ Tail(queue) \in Seq(Member)
      BY <1>12 DEF AcceptCall, TypeOK, ControlOK, Member
    <2>2. taken \in Seq(LogEvent)
      BY <2>1, EventTyped DEF TypeOK, EventKinds, EventDetails
    <2>3. /\ asked' \in Seq(Call) /\ queue' \in Seq(Member)
          /\ repeated_action_count' \in Nat
          /\ last_action_fingerprint' \in Fingerprints
      <3>1. c.fingerprint \in Fingerprints
        BY <2>1 DEF Call
      <3>2. RepeatCount(c.fingerprint) \in Nat
        BY DEF RepeatCount, TypeOK
      <3>. QED
        BY <1>12, <2>1, <3>1, <3>2 DEF AcceptCall, TypeOK
    <2>4. CASE /\ call' = c /\ pc' = "lookup" /\ log' = log \o taken
               /\ UNCHANGED <<decision, observations, final_status>>
      <3>. HIDE DEF c, taken
      <3>. QED
        BY <1>12, <2>1, <2>2, <2>3, <2>4 DEF AcceptCall, TypeOK, ControlOK
    <2>5. CASE RecordObservation(c, "block", FALSE, taken) /\ StopBatch("repeated_action")
      <3>. HIDE DEF c, taken
      <3>1. /\ observations' \in Seq(Observation) /\ log' \in Seq(LogEvent)
            /\ call' \in Call \cup {NoCall}
            /\ decision' \in {"none", "allow", "confirm"}
        BY <2>1, <2>2, <2>5, ObservationTyped
      <3>. QED
        BY <1>12, <2>3, <2>5, <3>1, StopKeepsControl DEF AcceptCall, StopBatch,
           TypeOK, FinalStatuses, RefusalStatuses
    <2>. QED  BY <1>12, <2>4, <2>5 DEF AcceptCall
  <1>13. CASE UnknownTool
    <2>. call \in Call /\ <<>> \in Seq(LogEvent)
      BY <1>13 DEF UnknownTool, ControlOK
    <2>1. /\ observations' \in Seq(Observation) /\ log' \in Seq(LogEvent)
          /\ call' \in Call \cup {NoCall}
          /\ decision' \in {"none", "allow", "confirm"}
      BY <1>13, ObservationTyped DEF UnknownTool
    <2>. QED
      BY <1>13, <2>1, StopKeepsControl DEF UnknownTool, StopBatch, TypeOK,
         stateVars, historyVars, FinalStatuses, RefusalStatuses
  <1>14. CASE InvalidArguments
    <2>. call \in Call /\ <<>> \in Seq(LogEvent)
      BY <1>14 DEF InvalidArguments, ControlOK
    <2>1. /\ observations' \in Seq(Observation) /\ log' \in Seq(LogEvent)
          /\ call' \in Call \cup {NoCall}
          /\ decision' \in {"none", "allow", "confirm"}
      BY <1>14, ObservationTyped DEF InvalidArguments
    <2>. QED
      BY <1>14, <2>1 DEF InvalidArguments, Proceed, TypeOK, ControlOK, stateVars, historyVars
  <1>15. CASE PolicyUnusable
    <2>. call \in Call /\ <<>> \in Seq(LogEvent)
      BY <1>15 DEF PolicyUnusable, ControlOK
    <2>1. /\ observations' \in Seq(Observation) /\ log' \in Seq(LogEvent)
          /\ call' \in Call \cup {NoCall}
          /\ decision' \in {"none", "allow", "confirm"}
      BY <1>15, ObservationTyped DEF PolicyUnusable
    <2>. QED
      BY <1>15, <2>1, StopKeepsControl DEF PolicyUnusable, StopBatch, TypeOK,
         stateVars, historyVars, FinalStatuses, RefusalStatuses
  <1>16. CASE PolicyBlocks
    <2>. Decided("block") \in Seq(LogEvent)
      BY <1>16, EventTyped DEF PolicyBlocks, Decided, TypeOK, EventKinds, EventDetails
    <2>1. /\ observations' \in Seq(Observation) /\ log' \in Seq(LogEvent)
          /\ call' \in Call \cup {NoCall}
          /\ decision' \in {"none", "allow", "confirm"}
      BY <1>16, ObservationTyped DEF PolicyBlocks, ControlOK
    <2>. QED
      BY <1>16, <2>1, StopKeepsControl DEF PolicyBlocks, StopBatch, TypeOK,
         stateVars, historyVars, FinalStatuses, RefusalStatuses
  <1>17. CASE PolicyAllows
    <2>1. log' \in Seq(LogEvent)
      BY <1>17, EventTyped DEF PolicyAllows, StartTool, Decided, ToolStarted, TypeOK, ControlOK,
         EventKinds, EventDetails
    <2>2. Len(asked) \in Nat
      BY DEF TypeOK
    <2>. QED
      BY <1>17, <2>1, <2>2 DEF PolicyAllows, StartTool, TypeOK, ControlOK, stateVars, historyVars
  <1>18. CASE PolicyAsksToConfirm
    <2>1. log' \in Seq(LogEvent)
      BY <1>18, EventTyped DEF PolicyAsksToConfirm, StartTool, Decided, ToolStarted, TypeOK, ControlOK,
         EventKinds, EventDetails
    <2>2. Len(asked) \in Nat
      BY DEF TypeOK
    <2>. QED
      BY <1>18, <2>1, <2>2 DEF PolicyAsksToConfirm, StartTool, TypeOK, ControlOK, stateVars, historyVars
  <1>19. CASE UserConfirms
    <2>1. log' \in Seq(LogEvent)
      BY <1>19, EventTyped DEF UserConfirms, StartTool, Decided, ToolStarted, TypeOK, ControlOK,
         EventKinds, EventDetails
    <2>2. Len(asked) \in Nat
      BY DEF TypeOK
    <2>. QED
      BY <1>19, <2>1, <2>2 DEF UserConfirms, StartTool, TypeOK, ControlOK, stateVars, historyVars
  <1>20. CASE UserRefuses
    <2>. /\ call \in Call /\ decision \in {"allow", "confirm", "block"}
         /\ <<>> \in Seq(LogEvent)
      BY <1>20 DEF UserRefuses, ControlOK
    <2>1. /\ observations' \in Seq(Observation) /\ log' \in Seq(LogEvent)
          /\ call' \in Call \cup {NoCall}
          /\ decision' \in {"none", "allow", "confirm"}
      BY <1>20, ObservationTyped DEF UserRefuses
    <2>. QED
      BY <1>20, <2>1, StopKeepsControl DEF UserRefuses, StopBatch, TypeOK,
         stateVars, historyVars, FinalStatuses, RefusalStatuses
  <1>21. CASE ToolReturns
    <2>. PICK success \in BOOLEAN : RecordObservation(call, decision, success, <<>>)
      BY <1>21 DEF ToolReturns
    <2>. /\ call \in Call /\ decision \in {"allow", "confirm", "block"}
         /\ <<>> \in Seq(LogEvent)
      BY <1>21 DEF ToolReturns, ControlOK
    <2>1. /\ observations' \in Seq(Observation) /\ log' \in Seq(LogEvent)
          /\ call' \in Call \cup {NoCall}
          /\ decision' \in {"none", "allow", "confirm"}
      BY ObservationTyped
    <2>. QED
      BY <1>21, <2>1 DEF ToolReturns, Proceed, TypeOK, ControlOK, stateVars, historyVars
  <1>22. CASE ToolBreaks
    <2>. /\ call \in Call /\ decision \in {"allow", "confirm", "block"}
         /\ <<>> \in Seq(LogEvent)
      BY <1>22 DEF ToolBreaks, ControlOK
    <2>1. /\ observations' \in Seq(Observation) /\ log' \in Seq(LogEvent)
          /\ call' \in Call \cup {NoCall}
          /\ decision' \in {"none", "allow", "confirm"}
      BY <1>22, ObservationTyped DEF ToolBreaks
    <2>. QED
      BY <1>22, <2>1, StopKeepsControl DEF ToolBreaks, StopBatch, TypeOK,
         stateVars, historyVars, FinalStatuses, RefusalStatuses
  <1>23. CASE FinishRun
    <2>. /\ Happened("run_snapshot", "-") \in LogEvent
         /\ Happened("run_finished", final_status) \in LogEvent
      BY <1>23, EventTyped DEF FinishRun, Happened, TypeOK, ControlOK, EventKinds,
         EventDetails
    <2>1. log' \in Seq(LogEvent)
      BY <1>23 DEF FinishRun, TypeOK
    <2>. QED  BY <1>23, <2>1 DEF FinishRun, TypeOK, ControlOK, stateVars, historyVars
  <1>24. CASE Interrupt
    BY <1>24 DEF Interrupt, TypeOK, ControlOK, stateVars, historyVars
  <1>25. CASE Ended \/ UNCHANGED vars
    BY <1>25 DEF Ended, vars, TypeOK, ControlOK, stateVars, historyVars
  <1>. QED
    BY <1>1, <1>2, <1>3, <1>4, <1>5, <1>6, <1>7, <1>8, <1>9, <1>10, <1>11, <1>12, <1>13,
       <1>14, <1>15, <1>16, <1>17, <1>18, <1>19, <1>20, <1>21, <1>22, <1>23, <1>24, <1>25
       DEF Next, LoopStep

\* In every reachable state the variables of a run have the types of RunState;
\* no request is tried too often and no step begun beyond max_steps.
THEOREM TypeCorrect == Spec => []TypeOK
  <1>1. Spec => [](TypeOK /\ ControlOK)
    BY TypeInit, TypeStep, PTL DEF Spec
  <1>. QED  BY <1>1, PTL

(***************************************************************************)
(* What a step can do to the calls.  Every action is of one of the         *)
(* following kinds; the proofs below only distinguish the kinds.           *)
(***************************************************************************)
callVars == <<stateVars, observations, historyVars>>

\* Between calls: nothing is asked, executed or answered.
QuietStep ==
    /\ ~InCall /\ ~InCall' /\ pc # "interrupted"
    /\ Closing => Closing'
    /\ UNCHANGED callVars
    /\ \/ final_status' = final_status
       \/ /\ final_status = "none"
          /\ final_status' \in FinalStatuses \ (RefusalStatuses \cup {"tool_error"})

StillStep ==
    /\ pc' = pc \/ pc' = "interrupted"
    /\ UNCHANGED <<call, decision, callVars, final_status>>

TakeStep ==
    /\ pc = "calls" /\ pc' = "lookup"
    /\ call' \in Call
    /\ asked' = Append(asked, call')
    /\ last_action_fingerprint' = call'.fingerprint
    /\ repeated_action_count' = RepeatCount(call'.fingerprint)
    /\ repeated_action_count' < RepeatThreshold
    /\ UNCHANGED <<observations, final_status, ran>>

RepeatStep(c) ==
    /\ pc = "calls" /\ pc' = "finish"
    /\ asked' = Append(asked, c)
    /\ last_action_fingerprint' = c.fingerprint
    /\ repeated_action_count' = RepeatCount(c.fingerprint)
    /\ repeated_action_count' >= RepeatThreshold
    /\ observations' =
         Append(observations, [call |-> c, decision |-> "block", success |-> FALSE])
    /\ final_status' = "repeated_action"
    /\ UNCHANGED ran

ConfirmStep ==
    /\ pc = "lookup" /\ pc' = "confirm"
    /\ call.fingerprint \in WellFormed
    /\ UNCHANGED <<call, callVars, final_status>>

StartStep ==
    /\ pc \in {"lookup", "confirm"} /\ pc' = "tool"
    /\ ran' = ran \cup {Len(asked)}
    /\ UNCHANGED <<call, stateVars, observations, asked, final_status>>

AnswerStep(outcome, success) ==
    /\ InCall /\ ~InCall' /\ pc' # "interrupted"
    /\ observations' =
         Append(observations, [call |-> call, decision |-> outcome, success |-> success])
    /\ UNCHANGED <<stateVars, historyVars>>
    /\ IF pc = "tool"
       THEN /\ outcome \in {"allow", "confirm"}
            /\ \/ final_status' = "none"
               \/ final_status' = "tool_error" /\ ~success
       ELSE /\ ~success
            /\ \/ /\ final_status' \in RefusalStatuses \ {"repeated_action"}
                  /\ (outcome = "block") <=> (final_status' # "denied")
               \/ /\ final_status' = "none"
                  /\ call.fingerprint \in Registered \ WellFormed

StepKind ==
    \/ QuietStep \/ StillStep \/ TakeStep \/ ConfirmStep \/ StartStep
    \/ \E c \in Call : RepeatStep(c)
    \/ \E outcome \in {"allow", "confirm", "block"}, success \in BOOLEAN :
         AnswerStep(outcome, success)

\* Every step is of one of these kinds.
LEMMA StepKinds == TypeOK /\ ControlOK /\ [Next]_vars => StepKind
  <1> SUFFICES ASSUME TypeOK, ControlOK, [Next]_vars
               PROVE  StepKind
    OBVIOUS
  <1> USE DEF Closing, InCall, callVars, stateVars, historyVars
  <1>1. CASE Start
    <2>. QuietStep
      BY <1>1 DEF Start, Stop, QuietStep, ControlOK, FinalStatuses,
         RefusalStatuses, InvalidStatuses
    <2>. QED  BY DEF StepKind
  <1>2. CASE BeginStep
    <2>. QuietStep
      BY <1>2 DEF BeginStep, QuietStep, ControlOK, FinalStatuses,
         RefusalStatuses, InvalidStatuses
    <2>. QED  BY DEF StepKind
  <1>3. CASE ReachMaxSteps
    <2>. QuietStep
      BY <1>3 DEF ReachMaxSteps, Stop, QuietStep, ControlOK, FinalStatuses,
         RefusalStatuses, InvalidStatuses
    <2>. QED  BY DEF StepKind
  <1>4. CASE RetryModel
    <2>. QuietStep
      BY <1>4 DEF RetryModel, QuietStep, ControlOK, FinalStatuses,
         RefusalStatuses, InvalidStatuses
    <2>. QED  BY DEF StepKind
  <1>5. CASE GiveUpOnModel
    <2>. QuietStep
      BY <1>5 DEF GiveUpOnModel, Stop, QuietStep, ControlOK, FinalStatuses,
         RefusalStatuses, InvalidStatuses
    <2>. QED  BY DEF StepKind
  <1>6. CASE ModelReturnsNothing
    <2>. QuietStep
      BY <1>6 DEF ModelReturnsNothing, Stop, QuietStep, ControlOK, FinalStatuses,
         RefusalStatuses, InvalidStatuses
    <2>. QED  BY DEF StepKind
  <1>7. CASE ModelFinishes
    <2>. QuietStep
      BY <1>7 DEF ModelFinishes, Stop, QuietStep, ControlOK, FinalStatuses,
         RefusalStatuses, InvalidStatuses
    <2>. QED  BY DEF StepKind
  <1>8. CASE ModelReturnsUnusable
    <2>. QuietStep
      BY <1>8 DEF ModelReturnsUnusable, RecordInvalidAction, Stop, QuietStep, ControlOK, FinalStatuses,
         RefusalStatuses, InvalidStatuses
    <2>. QED  BY DEF StepKind
  <1>9. CASE ModelAsksForCall
    <2>. QuietStep
      BY <1>9 DEF ModelAsksForCall, QuietStep, ControlOK, FinalStatuses,
         RefusalStatuses, InvalidStatuses
    <2>. QED  BY DEF StepKind
  <1>10. CASE ModelAsksForBatch
    <2>. QuietStep
      BY <1>10 DEF ModelAsksForBatch, RecordInvalidAction, Stop, QuietStep, ControlOK, FinalStatuses,
         RefusalStatuses, InvalidStatuses
    <2>. QED  BY DEF StepKind
  <1>11. CASE RejectMalformedCall
    <2>. QuietStep
      BY <1>11 DEF RejectMalformedCall, RecordInvalidAction, Stop, QuietStep, ControlOK, FinalStatuses,
         RefusalStatuses, InvalidStatuses
    <2>. QED  BY DEF StepKind
  <1>12. CASE FinishRun
    <2>. QuietStep
      BY <1>12 DEF FinishRun, QuietStep, ControlOK, FinalStatuses,
         RefusalStatuses, InvalidStatuses
    <2>. QED  BY DEF StepKind
  <1>13. CASE AcceptCall
    <2> DEFINE c == Head(queue)
    <2>1. c \in Call
      BY <1>13 DEF AcceptCall, TypeOK, ControlOK, Member
    <2>2. TakeStep \/ RepeatStep(c)
      BY <1>13, <2>1 DEF AcceptCall, TakeStep, RepeatStep, RecordObservation, StopBatch, Stop
    <2>. QED  BY <2>1, <2>2 DEF StepKind
  <1>14. CASE UnknownTool
    <2>. /\ AnswerStep("block", FALSE)
         /\ "block" \in {"allow", "confirm", "block"}
      BY <1>14 DEF UnknownTool, AnswerStep, RecordObservation, StopBatch, Stop, ControlOK,
         RefusalStatuses
    <2>. QED  BY DEF StepKind
  <1>15. CASE PolicyUnusable
    <2>. /\ AnswerStep("block", FALSE)
         /\ "block" \in {"allow", "confirm", "block"}
      BY <1>15 DEF PolicyUnusable, AnswerStep, RecordObservation, StopBatch, Stop, ControlOK,
         RefusalStatuses
    <2>. QED  BY DEF StepKind
  <1>16. CASE PolicyBlocks
    <2>. /\ AnswerStep("block", FALSE)
         /\ "block" \in {"allow", "confirm", "block"}
      BY <1>16 DEF PolicyBlocks, AnswerStep, RecordObservation, StopBatch, Stop, ControlOK,
         RefusalStatuses
    <2>. QED  BY DEF StepKind
  <1>17. CASE UserRefuses
    <2>. /\ AnswerStep(decision, FALSE)
         /\ decision \in {"allow", "confirm", "block"}
      BY <1>17 DEF UserRefuses, AnswerStep, RecordObservation, StopBatch, Stop, ControlOK,
         RefusalStatuses
    <2>. QED  BY DEF StepKind
  <1>18. CASE InvalidArguments
    <2>. AnswerStep("block", FALSE)
      BY <1>18 DEF InvalidArguments, AnswerStep, RecordObservation, Proceed, ControlOK
    <2>. QED  BY DEF StepKind
  <1>19. CASE PolicyAllows
    <2>. StartStep
      BY <1>19 DEF PolicyAllows, StartTool, StartStep
    <2>. QED  BY DEF StepKind
  <1>20. CASE PolicyAsksToConfirm
    <2>. ConfirmStep
      BY <1>20 DEF PolicyAsksToConfirm, ConfirmStep
    <2>. QED  BY DEF StepKind
  <1>21. CASE UserConfirms
    <2>. StartStep
      BY <1>21 DEF UserConfirms, StartTool, StartStep
    <2>. QED  BY DEF StepKind
  <1>22. CASE ToolReturns
    <2>. PICK success \in BOOLEAN : AnswerStep(decision, success)
      BY <1>22 DEF ToolReturns, AnswerStep, RecordObservation, Proceed, ControlOK
    <2>. decision \in {"allow", "confirm", "block"}
      BY <1>22 DEF ToolReturns, ControlOK
    <2>. QED  BY DEF StepKind
  <1>23. CASE ToolBreaks
    <2>. AnswerStep(decision, FALSE) /\ decision \in {"allow", "confirm", "block"}
      BY <1>23 DEF ToolBreaks, AnswerStep, RecordObservation, StopBatch, Stop, ControlOK
    <2>. QED  BY DEF StepKind
  <1>24. CASE Interrupt \/ Ended \/ UNCHANGED vars
    <2>. StillStep
      BY <1>24 DEF Interrupt, Ended, vars, StillStep
    <2>. QED  BY DEF StepKind
  <1>. QED
    BY <1>1, <1>2, <1>3, <1>4, <1>5, <1>6, <1>7, <1>8, <1>9, <1>10, <1>11, <1>12, <1>13,
       <1>14, <1>15, <1>16, <1>17, <1>18, <1>19, <1>20, <1>21, <1>22, <1>23, <1>24
       DEF Next, LoopStep

(***************************************************************************)
(* Calls, executions and answers.  The two invariants the runs check are   *)
(* joined with what the call in progress is and whether it was started.    *)
(***************************************************************************)
CallInProgress ==
    /\ InCall => call = asked[Len(asked)]
    /\ InCall => (Len(asked) \in ran <=> pc = "tool")
    /\ ran \subseteq 1..Len(asked)

CallsInv == TypeOK /\ ControlOK /\ AnswersFollowCalls /\ CallInProgress /\ RefusalEndsTheRun

\* Before the first call there is nothing to answer and nothing refused.
LEMMA CallsInit == Init => CallsInv
  <1>. SUFFICES ASSUME Init PROVE AnswersFollowCalls /\ CallInProgress /\ RefusalEndsTheRun
    BY TypeInit DEF CallsInv
  <1>. QED
    BY DEF Init, AnswersFollowCalls, CallInProgress, RefusalEndsTheRun, InCall

\* Each step of the loop keeps calls, answers and refusals in line.
LEMMA CallsStep == CallsInv /\ [Next]_vars => CallsInv'
  <1> SUFFICES ASSUME CallsInv, [Next]_vars
               PROVE  AnswersFollowCalls' /\ CallInProgress' /\ RefusalEndsTheRun'
    BY TypeStep DEF CallsInv
  <1>0. StepKind /\ TypeOK /\ TypeOK' /\ ControlOK /\ ControlOK'
    BY StepKinds, TypeStep DEF CallsInv
  <1> USE DEF InCall, CallsInv
  <1>1. CASE QuietStep \/ StillStep \/ ConfirmStep
    <2>1. UNCHANGED <<observations, asked, ran>>
      BY <1>1 DEF QuietStep, StillStep, ConfirmStep, callVars, historyVars
    <2>2. AnswersFollowCalls'
      BY <1>0, <1>1, <2>1 DEF QuietStep, StillStep, ConfirmStep, AnswersFollowCalls,
         TypeOK, PCs
    <2>3. CallInProgress'
      BY <1>1, <2>1 DEF QuietStep, StillStep, ConfirmStep, CallInProgress
    <2>4. \/ final_status' = final_status
          \/ final_status = "none" /\ final_status' \notin RefusalStatuses
      BY <1>1 DEF QuietStep, StillStep, ConfirmStep
    <2>5. RefusalEndsTheRun'
      BY <2>1, <2>4 DEF RefusalEndsTheRun, Correctable, RefusalStatuses
    <2>. QED  BY <2>2, <2>3, <2>5
  <1>2. CASE TakeStep
    <2>1. /\ Len(asked') = Len(asked) + 1 /\ asked'[Len(asked')] = call'
          /\ \A n \in 1..Len(asked) : asked'[n] = asked[n]
      BY <1>0, <1>2 DEF TakeStep, TypeOK
    <2>2. final_status = "none"
      BY <1>0, <1>2 DEF TakeStep, ControlOK, Closing
    <2>. QED
      BY <1>0, <1>2, <2>1, <2>2, SMTT(30) DEF TakeStep, AnswersFollowCalls, CallInProgress,
         RefusalEndsTheRun, Correctable, TypeOK, RefusalStatuses
  <1>3. CASE StartStep
    BY <1>0, <1>3, SMTT(30) DEF StartStep, stateVars, AnswersFollowCalls, CallInProgress,
       RefusalEndsTheRun, Correctable, TypeOK, ControlOK, Closing, RefusalStatuses
  <1>4. ASSUME NEW c \in Call, RepeatStep(c)
        PROVE  AnswersFollowCalls' /\ CallInProgress' /\ RefusalEndsTheRun'
    <2>1. /\ Len(asked') = Len(asked) + 1 /\ asked'[Len(asked')] = c
          /\ \A n \in 1..Len(asked) : asked'[n] = asked[n]
      BY <1>0, <1>4 DEF RepeatStep, TypeOK
    <2>2. /\ Len(observations') = Len(observations) + 1
          /\ observations'[Len(observations')] =
               [call |-> c, decision |-> "block", success |-> FALSE]
          /\ \A n \in 1..Len(observations) : observations'[n] = observations[n]
      BY <1>0, <1>4 DEF RepeatStep, TypeOK
    <2>3. final_status = "none" /\ Len(asked) = Len(observations)
      BY <1>0, <1>4 DEF RepeatStep, ControlOK, Closing, AnswersFollowCalls
    <2>. QED
      BY <1>0, <1>4, <2>1, <2>2, <2>3, SMTT(30) DEF RepeatStep, AnswersFollowCalls, CallInProgress,
         RefusalEndsTheRun, Correctable, TypeOK, RefusalStatuses
  <1>5. ASSUME NEW outcome \in {"allow", "confirm", "block"}, NEW success \in BOOLEAN,
               AnswerStep(outcome, success)
        PROVE  AnswersFollowCalls' /\ CallInProgress' /\ RefusalEndsTheRun'
    <2>1. /\ Len(observations') = Len(observations) + 1
          /\ observations'[Len(observations')] =
               [call |-> call, decision |-> outcome, success |-> success]
          /\ \A n \in 1..Len(observations) : observations'[n] = observations[n]
      BY <1>0, <1>5 DEF AnswerStep, TypeOK
    <2>2. final_status = "none" /\ Len(asked) = Len(observations) + 1
      BY <1>0, <1>5 DEF AnswerStep, ControlOK, Closing, AnswersFollowCalls
    <2>3. CallInProgress'
      BY <1>5 DEF AnswerStep, CallInProgress, historyVars
    <2>4. AnswersFollowCalls'
      BY <1>0, <1>5, <2>1, <2>2 DEF AnswerStep, AnswersFollowCalls, CallInProgress,
         historyVars, TypeOK
    <2>5. RefusalEndsTheRun'
      BY <1>0, <1>5, <2>1, <2>2 DEF AnswerStep, AnswersFollowCalls, CallInProgress,
         historyVars, RefusalEndsTheRun, Correctable, TypeOK, RefusalStatuses
    <2>. QED  BY <2>3, <2>4, <2>5
  <1>. QED  BY <1>0, <1>1, <1>2, <1>3, <1>4, <1>5 DEF StepKind

\* The n-th observation always answers the n-th accepted call, and at most the
\* call in progress is unanswered.
THEOREM CallsAreAnswered == Spec => []AnswersFollowCalls
  <1>1. Spec => []CallsInv
    BY CallsInit, CallsStep, PTL DEF Spec
  <1>. QED  BY <1>1, PTL DEF CallsInv

\* A refused call never ran, and no call is accepted after it.
THEOREM RefusalsEndTheRun == Spec => []RefusalEndsTheRun
  <1>1. Spec => []CallsInv
    BY CallsInit, CallsStep, PTL DEF Spec
  <1>. QED  BY <1>1, PTL DEF CallsInv

(***************************************************************************)
(* Repeated calls: the counter is the length of the longest suffix of      *)
(* equal fingerprints, across steps and batches.                           *)
(***************************************************************************)
CounterExact ==
    LET count == repeated_action_count
        last  == Len(asked)
    IN  /\ count \in 0..last
        /\ last > 0 => count > 0
        /\ \A k \in 0..(count - 1) :
             asked[last - k].fingerprint = last_action_fingerprint
        /\ count < last => asked[last - count].fingerprint # last_action_fingerprint
        /\ ~Closing => count < RepeatThreshold

RepeatInv == CallsInv /\ CounterExact /\ NoThirdRepeat /\ RepeatStopJustified

\* Appending a call leaves the repetitions before it as they are.
LEMMA InARowStable ==
    ASSUME asked \in Seq(Call), NEW c \in Call, asked' = Append(asked, c),
           NEW n \in 1..Len(asked)
    PROVE  InARow(n)' <=> InARow(n)
  <1>1. \A m \in 1..Len(asked) : asked'[m] = asked[m]
    OBVIOUS
  <1>2. n >= RepeatThreshold =>
          \A k \in 1..(RepeatThreshold - 1) : n - k \in 1..Len(asked)
    BY LoopAssumption
  <1>. QED  BY <1>1, <1>2 DEF InARow

\* The counter stays exact when a call is taken, whether or not it may run.
LEMMA CounterStep ==
    ASSUME TypeOK, CounterExact, NEW c \in Call,
           asked' = Append(asked, c),
           last_action_fingerprint' = c.fingerprint,
           repeated_action_count' = RepeatCount(c.fingerprint),
           ~Closing' => repeated_action_count' < RepeatThreshold
    PROVE  CounterExact'
  <1>1. /\ Len(asked') = Len(asked) + 1 /\ asked'[Len(asked) + 1] = c
        /\ \A n \in 1..Len(asked) : asked'[n] = asked[n]
    BY DEF TypeOK
  <1>2. repeated_action_count \in Nat /\ Len(asked) \in Nat
    BY DEF TypeOK
  <1>3. CASE c.fingerprint = last_action_fingerprint
    <2>1. repeated_action_count' = repeated_action_count + 1
      BY <1>3 DEF RepeatCount
    <2>2. \A k \in 0..repeated_action_count :
            asked'[Len(asked) + 1 - k].fingerprint = c.fingerprint
      <3> SUFFICES ASSUME NEW k \in 0..repeated_action_count
                   PROVE  asked'[Len(asked) + 1 - k].fingerprint = c.fingerprint
        OBVIOUS
      <3>1. CASE k = 0
        BY <1>1, <1>2, <3>1
      <3>2. CASE k # 0
        <4>1. /\ k - 1 \in 0..(repeated_action_count - 1)
              /\ Len(asked) - (k - 1) = Len(asked) + 1 - k
              /\ Len(asked) + 1 - k \in 1..Len(asked)
          BY <1>2, <3>2 DEF CounterExact
        <4>. QED  BY <1>1, <1>3, <4>1 DEF CounterExact
      <3>. QED  BY <3>1, <3>2
    <2>3. repeated_action_count + 1 < Len(asked) + 1 =>
            asked'[Len(asked) - repeated_action_count].fingerprint # c.fingerprint
      BY <1>1, <1>2, <1>3 DEF CounterExact
    <2>4. repeated_action_count + 1 \in 1..(Len(asked) + 1)
      BY <1>2 DEF CounterExact
    <2>. QED  BY <1>1, <1>2, <1>3, <2>1, <2>2, <2>3, <2>4 DEF CounterExact
  <1>4. CASE c.fingerprint # last_action_fingerprint
    <2>1. repeated_action_count' = 1
      BY <1>4 DEF RepeatCount
    <2>2. Len(asked) > 0 => asked[Len(asked)].fingerprint = last_action_fingerprint
      BY <1>2 DEF CounterExact
    <2>. QED  BY <1>1, <1>2, <1>4, <2>1, <2>2 DEF CounterExact
  <1>. QED  BY <1>3, <1>4

\* An exact counter below the threshold means the last call is not a repeat
\* too many; one at the threshold means it is.
LEMMA CounterDecides ==
    TypeOK /\ CounterExact /\ Len(asked) > 0 =>
        (InARow(Len(asked)) <=> repeated_action_count >= RepeatThreshold)
  <1>. SUFFICES ASSUME TypeOK, CounterExact, Len(asked) > 0
                PROVE  InARow(Len(asked)) <=> repeated_action_count >= RepeatThreshold
    OBVIOUS
  <1>1. repeated_action_count \in Nat /\ Len(asked) \in Nat
    BY DEF TypeOK
  <1>2. asked[Len(asked)].fingerprint = last_action_fingerprint
    <2>. 0 \in 0..(repeated_action_count - 1) /\ Len(asked) - 0 = Len(asked)
      BY <1>1 DEF CounterExact
    <2>. QED  BY DEF CounterExact
  <1>3. ASSUME repeated_action_count >= RepeatThreshold
        PROVE  InARow(Len(asked))
    BY <1>1, <1>2, <1>3, LoopAssumption DEF CounterExact, InARow
  <1>4. ASSUME repeated_action_count < RepeatThreshold, InARow(Len(asked))
        PROVE  FALSE
    <2>1. /\ repeated_action_count \in 1..(RepeatThreshold - 1)
          /\ repeated_action_count < Len(asked)
      BY <1>1, <1>4, LoopAssumption DEF CounterExact, InARow
    <2>. QED  BY <1>2, <1>4, <2>1 DEF CounterExact, InARow
  <1>. QED  BY <1>1, <1>3, <1>4, LoopAssumption

\* The repeat counter starts at zero, before any call.
LEMMA RepeatInit == Init => RepeatInv
  <1>. SUFFICES ASSUME Init PROVE CounterExact /\ NoThirdRepeat /\ RepeatStopJustified
    BY CallsInit DEF RepeatInv
  <1>. QED
    BY LoopAssumption DEF Init, CounterExact, NoThirdRepeat, RepeatStopJustified, Closing

\* Each step keeps the repeat counter exact and acts on it at the threshold.
LEMMA RepeatInvStep == RepeatInv /\ [Next]_vars => RepeatInv'
  <1> SUFFICES ASSUME RepeatInv, [Next]_vars
               PROVE  CounterExact' /\ NoThirdRepeat' /\ RepeatStopJustified'
    BY CallsStep DEF RepeatInv
  <1> USE DEF InCall
  <1>0. /\ StepKind /\ CallsInv /\ TypeOK /\ TypeOK' /\ ControlOK
        /\ CounterExact /\ NoThirdRepeat /\ RepeatStopJustified
        /\ \A n \in ran : n \in 1..Len(asked)
    BY StepKinds, TypeStep DEF CallsInv, RepeatInv, CallInProgress
  <1>1. ASSUME UNCHANGED <<stateVars, asked>>, Closing => Closing'
        PROVE  CounterExact'
    BY <1>0, <1>1 DEF CounterExact, stateVars
  <1>2. CASE \/ QuietStep \/ StillStep \/ ConfirmStep
             \/ \E outcome \in {"allow", "confirm", "block"}, success \in BOOLEAN :
                  AnswerStep(outcome, success)
    <2>1. UNCHANGED <<stateVars, asked, ran>> /\ (Closing => Closing')
      BY <1>2 DEF QuietStep, StillStep, ConfirmStep, AnswerStep, callVars, historyVars, Closing
    <2>2. final_status' = "repeated_action" => final_status = "repeated_action"
      BY <1>2 DEF QuietStep, StillStep, ConfirmStep, AnswerStep, RefusalStatuses
    <2>. QED
      BY <1>0, <1>1, <2>1, <2>2 DEF NoThirdRepeat, RepeatStopJustified, InARow
  <1>3. CASE TakeStep
    <2>1. CounterExact'
      BY <1>0, <1>3, CounterStep DEF TakeStep
    <2>2. NoThirdRepeat'
      BY <1>0, <1>3, InARowStable DEF TakeStep, NoThirdRepeat, TypeOK
    <2>3. RepeatStopJustified'
      BY <1>0, <1>3 DEF TakeStep, RepeatStopJustified, ControlOK, Closing
    <2>. QED  BY <2>1, <2>2, <2>3
  <1>4. CASE StartStep
    <2>1. CounterExact'
      BY <1>1, <1>4 DEF StartStep, Closing
    <2>2. ~InARow(Len(asked)) /\ Len(asked) > 0
      <3>1. Len(asked) > 0 /\ repeated_action_count < RepeatThreshold
        BY <1>0, <1>4 DEF StartStep, CounterExact, Closing, CallsInv,
           AnswersFollowCalls, TypeOK
      <3>2. repeated_action_count \in Nat
        BY <1>0 DEF TypeOK
      <3>. QED
        BY <1>0, <3>1, <3>2, CounterDecides, LoopAssumption
    <2>. QED
      BY <1>0, <1>4, <2>1, <2>2 DEF StartStep, NoThirdRepeat, RepeatStopJustified, InARow
  <1>5. ASSUME NEW c \in Call, RepeatStep(c)
        PROVE  CounterExact' /\ NoThirdRepeat' /\ RepeatStopJustified'
    <2>1. CounterExact'
      BY <1>0, <1>5, CounterStep DEF RepeatStep, Closing
    <2>2. NoThirdRepeat'
      BY <1>0, <1>5, InARowStable DEF RepeatStep, NoThirdRepeat, TypeOK
    <2>3. Len(asked') > 0
      BY <1>0, <1>5 DEF RepeatStep, TypeOK
    <2>4. InARow(Len(asked))'
      <3>1. (TypeOK /\ CounterExact /\ Len(asked) > 0 =>
               (InARow(Len(asked)) <=> repeated_action_count >= RepeatThreshold))'
        BY CounterDecides, PTL
      <3>. QED  BY <1>0, <1>5, <2>1, <2>3, <3>1 DEF RepeatStep
    <2>. QED  BY <2>1, <2>2, <2>4 DEF RepeatStopJustified
  <1>. QED  BY <1>0, <1>2, <1>3, <1>4, <1>5 DEF StepKind

\* No tool is executed for the RepeatThreshold-th equal call in a row.
THEOREM NoThirdRepeatRuns == Spec => []NoThirdRepeat
  <1>1. Spec => []RepeatInv
    BY RepeatInit, RepeatInvStep, PTL DEF Spec
  <1>. QED  BY <1>1, PTL DEF RepeatInv

\* A run is stopped for a repetition only if there was one.
THEOREM RepeatStopsAreJustified == Spec => []RepeatStopJustified
  <1>1. Spec => []RepeatInv
    BY RepeatInit, RepeatInvStep, PTL DEF Spec
  <1>. QED  BY <1>1, PTL DEF RepeatInv

(***************************************************************************)
(* The final status and the last answer.                                   *)
(***************************************************************************)
StatusInv == CallsInv /\ StatusMatchesLastAnswer

\* Each step that sets the status sets it to what the last answer says.
LEMMA StatusStep == StatusInv /\ [Next]_vars => StatusInv'
  <1> SUFFICES ASSUME StatusInv, [Next]_vars
               PROVE  StatusMatchesLastAnswer'
    BY CallsStep DEF StatusInv
  <1>0. /\ StepKind /\ CallsInv /\ TypeOK /\ TypeOK' /\ ControlOK /\ ControlOK'
        /\ StatusMatchesLastAnswer
    BY StepKinds, TypeStep DEF StatusInv, CallsInv
  <1> USE DEF InCall
  <1>1. CASE StillStep
    BY <1>0, <1>1 DEF StillStep, callVars, historyVars, StatusMatchesLastAnswer, Correctable
  <1>2. CASE QuietStep /\ final_status' = final_status
    <2>1. pc' \in {"finish", "done"} => pc \in {"finish", "done"}
      BY <1>0, <1>2 DEF QuietStep, ControlOK, Closing
    <2>. QED
      BY <1>0, <1>2, <2>1 DEF QuietStep, callVars, historyVars, StatusMatchesLastAnswer, Correctable
  <1>3. CASE /\ QuietStep /\ final_status = "none"
             /\ final_status' \in FinalStatuses \ (RefusalStatuses \cup {"tool_error"})
    <2>1. UNCHANGED <<observations, asked, ran>>
      BY <1>3 DEF QuietStep, callVars, historyVars
    <2>2. final_status' # "tool_error"
      BY <1>3 DEF QuietStep
    <2>3. Len(observations) = 0 \/ Len(observations) \in ran \/ Correctable(Len(observations))
      BY <1>0, <1>3 DEF CallsInv, RefusalEndsTheRun, RefusalStatuses, TypeOK
    <2>. QED
      BY <1>3, <2>1, <2>2, <2>3 DEF StatusMatchesLastAnswer, Correctable
  <1>4. CASE TakeStep \/ ConfirmStep \/ StartStep
    BY <1>4 DEF TakeStep, ConfirmStep, StartStep, StatusMatchesLastAnswer
  <1>5. ASSUME NEW c \in Call, RepeatStep(c)
        PROVE  StatusMatchesLastAnswer'
    <2>1. /\ Len(observations') = Len(observations) + 1
          /\ observations'[Len(observations')] =
               [call |-> c, decision |-> "block", success |-> FALSE]
      BY <1>0, <1>5 DEF RepeatStep, TypeOK
    <2>2. Len(observations') \notin ran'
      BY <1>0, <1>5, <2>1 DEF RepeatStep, CallsInv, CallInProgress, AnswersFollowCalls, TypeOK
    <2>3. Len(observations') > 0
      BY <1>0, <2>1 DEF TypeOK
    <2>. QED
      BY <1>0, <1>5, <2>1, <2>2, <2>3 DEF RepeatStep, StatusMatchesLastAnswer, RefusalStatuses
  <1>6. ASSUME NEW outcome \in {"allow", "confirm", "block"}, NEW success \in BOOLEAN,
               AnswerStep(outcome, success)
        PROVE  StatusMatchesLastAnswer'
    <2>1. /\ Len(observations') = Len(observations) + 1
          /\ observations'[Len(observations')] =
               [call |-> call, decision |-> outcome, success |-> success]
      BY <1>0, <1>6 DEF AnswerStep, TypeOK
    <2>2. Len(observations') \in ran' <=> pc = "tool"
      BY <1>0, <1>6, <2>1 DEF AnswerStep, historyVars, CallsInv, CallInProgress,
         AnswersFollowCalls, TypeOK
    <2>3. Len(observations') > 0
      BY <1>0, <2>1 DEF TypeOK
    <2>. QED
      BY <1>0, <1>6, <2>1, <2>2, <2>3 DEF AnswerStep, StatusMatchesLastAnswer, RefusalStatuses,
         ControlOK, Closing
  <1>. QED  BY <1>0, <1>1, <1>2, <1>3, <1>4, <1>5, <1>6 DEF StepKind, QuietStep

\* The final status says what became of the last call.
THEOREM StatusesMatchAnswers == Spec => []StatusMatchesLastAnswer
  <1>1. Init => StatusInv
    BY CallsInit DEF Init, StatusInv, StatusMatchesLastAnswer
  <1>. QED  BY <1>1, StatusStep, PTL DEF Spec, StatusInv

(***************************************************************************)
(* What a step writes into the log.  It appends the events new, which are  *)
(* of one of four kinds; the proofs about the log distinguish only these.  *)
(***************************************************************************)
Requests == {"model_requested", "model_retry"}

EventFits(e) ==
    /\ e.step = step_count'
    /\ e.event = "model_action" => pc = "calls" /\ Head(queue) # Malformed
    /\ e.event = "run_error" /\ e.detail = "model_error" => final_status' = "model_error"

AskLogged(new) ==
    /\ Len(new) = 1 /\ new[1].event \in Requests
    /\ pc' = "ask"
    /\ \/ pc = "step" /\ step_count' = step_count + 1 /\ attempt' = 1
       \/ pc = "ask" /\ UNCHANGED step_count /\ attempt' = attempt + 1
    /\ UNCHANGED observations

AnswerLogged(new, o) ==
    /\ Len(new) >= 2
    /\ \A i \in 1..Len(new) :
         /\ new[i].event \notin Requests \cup {"run_finished"}
         /\ new[i].event = "tool_finished" <=> i = Len(new) - 1
    /\ new[Len(new) - 1].detail = "failed" <=> ~o.success
    /\ new[Len(new)].event = "run_snapshot"
    /\ observations' = Append(observations, o)
    /\ pc # "done" /\ pc' # "done"
    /\ UNCHANGED <<step_count, attempt>>

FinishLogged(new) ==
    /\ Len(new) = 2
    /\ new[1].event = "run_snapshot"
    /\ new[2].event = "run_finished" /\ new[2].detail = final_status'
    /\ pc = "finish" /\ pc' = "done"
    /\ UNCHANGED <<step_count, attempt, observations>>

OtherLogged(new) ==
    /\ \A i \in 1..Len(new) :
         new[i].event \notin Requests \cup {"tool_finished", "run_snapshot", "run_finished"}
    /\ pc' = "done" <=> pc = "done"
    /\ pc = "done" => new = <<>>
    /\ UNCHANGED <<step_count, attempt, observations>>

LogStep ==
    \E new \in Seq(LogEvent) :
        /\ log' = log \o new
        /\ \A i \in 1..Len(new) : EventFits(new[i])
        /\ \/ AskLogged(new) \/ FinishLogged(new) \/ OtherLogged(new)
           \/ \E o \in Observation : AnswerLogged(new, o)

\* A step that writes nothing, or one event that is of no account.
LEMMA NothingLogged ==
    ASSUME TypeOK, UNCHANGED <<step_count, attempt, observations, log>>, pc' = "done" <=> pc = "done"
    PROVE  LogStep
  <1>1. <<>> \in Seq(LogEvent) /\ log' = log \o <<>> /\ Len(<<>>) = 0
    BY DEF TypeOK
  <1>2. OtherLogged(<<>>)
    BY <1>1 DEF OtherLogged
  <1>3. \A i \in 1..Len(<<>>) : EventFits(<<>>[i])
    BY <1>1
  <1> SUFFICES \E new \in Seq(LogEvent) :
                 /\ log' = log \o new
                 /\ \A i \in 1..Len(new) : EventFits(new[i])
                 /\ OtherLogged(new)
    BY DEF LogStep
  <1> WITNESS <<>> \in Seq(LogEvent)
  <1>. QED  BY <1>1, <1>2, <1>3

\* A step that logs one event, no request and no result of a tool.
LEMMA OneLogged ==
    ASSUME TypeOK, UNCHANGED <<step_count, attempt, observations>>, NEW e \in LogEvent,
           log' = Append(log, e), EventFits(e), pc # "done", pc' # "done",
           e.event \notin Requests \cup {"tool_finished", "run_snapshot", "run_finished"}
    PROVE  LogStep
  <1>1. <<e>> \in Seq(LogEvent) /\ log' = log \o <<e>> /\ Len(<<e>>) = 1 /\ <<e>>[1] = e
    BY DEF TypeOK
  <1>2. OtherLogged(<<e>>)
    BY <1>1 DEF OtherLogged
  <1>3. \A i \in 1..Len(<<e>>) : EventFits(<<e>>[i])
    <2>. SUFFICES ASSUME NEW i \in 1..Len(<<e>>) PROVE EventFits(<<e>>[i])
      OBVIOUS
    <2>1. i = 1
      BY <1>1
    <2>. QED  BY <1>1, <2>1
  <1> SUFFICES \E new \in Seq(LogEvent) :
                 /\ log' = log \o new
                 /\ \A i \in 1..Len(new) : EventFits(new[i])
                 /\ OtherLogged(new)
    BY DEF LogStep
  <1> WITNESS <<e>> \in Seq(LogEvent)
  <1>. QED  BY <1>1, <1>2, <1>3

\* Events of no account for the proofs, and the events of a request.
LEMMA OthersLogged ==
    ASSUME UNCHANGED <<step_count, attempt, observations>>, NEW new \in Seq(LogEvent),
           log' = log \o new, pc # "done", pc' # "done",
           \A i \in 1..Len(new) :
               /\ EventFits(new[i])
               /\ new[i].event \notin Requests \cup {"tool_finished", "run_snapshot", "run_finished"}
    PROVE  LogStep
  BY DEF OtherLogged, LogStep

\* A step that asks the model.
LEMMA AskIsLogStep ==
    ASSUME NEW e \in LogEvent, log' = log \o <<e>>, e.event \in Requests,
           e.step = step_count', AskLogged(<<e>>)
    PROVE  LogStep
  <1>1. <<e>> \in Seq(LogEvent) /\ Len(<<e>>) = 1 /\ <<e>>[1] = e
    OBVIOUS
  <1>2. EventFits(e)
    BY DEF EventFits, Requests
  <1>3. \A i \in 1..Len(<<e>>) : EventFits(<<e>>[i])
    <2>. SUFFICES ASSUME NEW i \in 1..Len(<<e>>) PROVE EventFits(<<e>>[i])
      OBVIOUS
    <2>1. i = 1
      BY <1>1
    <2>. QED  BY <1>1, <1>2, <2>1
  <1> SUFFICES \E new \in Seq(LogEvent) :
                 /\ log' = log \o new
                 /\ \A i \in 1..Len(new) : EventFits(new[i])
                 /\ AskLogged(new)
    BY DEF LogStep
  <1> WITNESS <<e>> \in Seq(LogEvent)
  <1>. QED  BY <1>1, <1>3

\* Recording an observation writes tool_finished and run_snapshot, in this order.
LEMMA ObservationLogged ==
    ASSUME TypeOK, NEW c \in Call, NEW outcome \in {"allow", "confirm", "block"},
           NEW success \in BOOLEAN, NEW before \in Seq(LogEvent),
           RecordObservation(c, outcome, success, before),
           \A i \in 1..Len(before) :
               /\ EventFits(before[i])
               /\ before[i].event \in {"policy_decision", "model_action"},
           UNCHANGED <<step_count, attempt>>, pc # "done", pc' # "done"
    PROVE  LogStep
  <1> DEFINE finished == Event("tool_finished", step_count, c, IF success THEN "ok" ELSE "failed")
             snapshot == Happened("run_snapshot", "-")
             pair     == <<finished, snapshot>>
             new      == before \o pair
             o        == [call |-> c, decision |-> outcome, success |-> success]
  <1>1. finished \in LogEvent /\ snapshot \in LogEvent
    BY EventTyped DEF TypeOK, Happened, EventKinds, EventDetails
  <1>2. /\ finished.event = "tool_finished" /\ snapshot.event = "run_snapshot"
        /\ finished.step = step_count' /\ snapshot.step = step_count'
        /\ finished.detail = "failed" <=> ~success
    BY DEF Event, Happened
  <1>3. o \in Observation /\ o.success = success
    BY DEF Observation
  <1>4. log' = (log \o before) \o pair /\ observations' = Append(observations, o)
    BY DEF RecordObservation
  <1> HIDE DEF finished, snapshot, o
  <1>5. /\ pair \in Seq(LogEvent) /\ Len(pair) = 2 /\ pair[1] = finished /\ pair[2] = snapshot
        /\ log \in Seq(LogEvent)
    BY <1>1 DEF TypeOK
  <1> HIDE DEF pair
  <1>6. log' = log \o new
    BY <1>4, <1>5, ConcatAssociative, SMTT(30)
  <1>7. /\ new \in Seq(LogEvent) /\ Len(new) = Len(before) + 2
        /\ \A i \in 1..Len(before) : new[i] = before[i]
        /\ new[Len(before) + 1] = finished /\ new[Len(before) + 2] = snapshot
    <2>1. /\ new \in Seq(LogEvent) /\ Len(new) = Len(before) + Len(pair)
          /\ \A i \in 1..(Len(before) + Len(pair)) :
               new[i] = IF i <= Len(before) THEN before[i] ELSE pair[i - Len(before)]
      BY <1>5, ConcatProperties
    <2>2. Len(before) \in Nat
      OBVIOUS
    <2>3. ASSUME NEW i \in 1..Len(before)
          PROVE  new[i] = before[i]
      BY <1>5, <2>1, <2>2
    <2>4. (Len(before) + 1) - Len(before) = 1 /\ (Len(before) + 2) - Len(before) = 2
      BY <2>2
    <2>. HIDE DEF new
    <2>. QED  BY <1>5, <2>1, <2>2, <2>3, <2>4
  <1> HIDE DEF new
  <1>8. Len(before) \in Nat /\ Len(new) - 1 = Len(before) + 1
    BY <1>7
  <1>9. \A i \in 1..Len(new) : i \in 1..Len(before) \/ i = Len(before) + 1 \/ i = Len(before) + 2
    BY <1>7, <1>8
  <1>10. \A i \in 1..Len(new) : EventFits(new[i])
    BY <1>2, <1>7, <1>8, <1>9 DEF EventFits
  <1>11. \A i \in 1..Len(new) :
            /\ new[i].event \notin Requests \cup {"run_finished"}
            /\ (new[i].event = "tool_finished") <=> (i = Len(new) - 1)
    <2>. SUFFICES ASSUME NEW i \in 1..Len(new)
                  PROVE  /\ new[i].event \notin Requests \cup {"run_finished"}
                         /\ (new[i].event = "tool_finished") <=> (i = Len(new) - 1)
      OBVIOUS
    <2>1. CASE i \in 1..Len(before)
      BY <1>7, <1>8, <2>1 DEF Requests
    <2>2. CASE i = Len(before) + 1
      BY <1>2, <1>7, <1>8, <2>2 DEF Requests
    <2>3. CASE i = Len(before) + 2
      BY <1>2, <1>7, <1>8, <2>3 DEF Requests
    <2>. QED  BY <1>9, <2>1, <2>2, <2>3
  <1>12. AnswerLogged(new, o)
    BY <1>2, <1>3, <1>4, <1>7, <1>8, <1>11 DEF AnswerLogged
  <1>. QED  BY <1>3, <1>6, <1>7, <1>10, <1>12 DEF LogStep

\* Each step of the loop writes its events so.
LEMMA LogSteps == TypeOK /\ ControlOK /\ [Next]_vars => LogStep
  <1> SUFFICES ASSUME TypeOK, ControlOK, [Next]_vars
               PROVE  LogStep
    OBVIOUS
  <1> USE DEF stateVars, historyVars
  <1>0. /\ <<>> \in Seq(LogEvent)
        /\ \A i \in 1..Len(<<>>) :
             EventFits(<<>>[i]) /\ <<>>[i].event \in {"policy_decision", "model_action"}
    OBVIOUS
  <1>1. CASE Start
    <2>1. Happened("run_started", "-") \in LogEvent
      BY EventTyped DEF Happened, TypeOK, EventKinds, EventDetails
    <2>. QED
      BY <1>1, <2>1, OneLogged DEF Start, Stop, Happened, Event, EventFits, Requests
  <1>2. CASE BeginStep
    <2> DEFINE e == Event("model_requested", step_count + 1, NoCall, "-")
    <2>1. e \in LogEvent
      BY <1>2, EventTyped, LoopAssumption DEF BeginStep, TypeOK, EventKinds, EventDetails
    <2>2. e.event = "model_requested" /\ e.step = step_count'
      BY <1>2 DEF BeginStep, Event
    <2> HIDE DEF e
    <2>3. AskLogged(<<e>>)
      BY <1>2, <2>2, LoopAssumption DEF BeginStep, AskLogged, Requests, TypeOK
    <2>4. log' = log \o <<e>>
      BY <1>2, <2>1, AppendIsConcat DEF BeginStep, TypeOK, e
    <2>. QED  BY <2>1, <2>2, <2>3, <2>4, AskIsLogStep DEF Requests
  <1>3. CASE RetryModel
    <2> DEFINE e == Happened("model_retry", "-")
    <2>1. e \in LogEvent
      BY EventTyped DEF Happened, TypeOK, EventKinds, EventDetails
    <2>2. e.event = "model_retry" /\ e.step = step_count'
      BY <1>3 DEF RetryModel, Event, Happened
    <2> HIDE DEF e
    <2>3. AskLogged(<<e>>)
      BY <1>3, <2>2 DEF RetryModel, AskLogged, Requests, TypeOK
    <2>4. log' = log \o <<e>>
      BY <1>3, <2>1, AppendIsConcat DEF RetryModel, TypeOK, e
    <2>. QED  BY <2>1, <2>2, <2>3, <2>4, AskIsLogStep DEF Requests
  <1>4. CASE GiveUpOnModel
    <2>1. Happened("run_error", "model_error") \in LogEvent
      BY EventTyped DEF Happened, TypeOK, EventKinds, EventDetails, FinalStatuses
    <2>. QED
      BY <1>4, <2>1, OneLogged DEF GiveUpOnModel, Stop, Happened, Event, EventFits, Requests
  <1>5. CASE \/ ReachMaxSteps \/ ModelReturnsNothing \/ ModelFinishes \/ ModelAsksForCall
             \/ Interrupt \/ Ended \/ UNCHANGED vars
    BY <1>5, NothingLogged DEF ReachMaxSteps, ModelReturnsNothing, ModelFinishes,
       ModelAsksForCall, Interrupt, Ended, Stop, vars
  <1>6. ASSUME RecordInvalidAction, UNCHANGED <<step_count, attempt, observations>>,
               pc # "done"
        PROVE  LogStep
    <2>1. Happened("run_error", "invalid_action") \in LogEvent
      BY EventTyped DEF Happened, TypeOK, EventKinds, EventDetails, FinalStatuses,
         InvalidStatuses
    <2>. QED
      BY <1>6, <2>1, OneLogged DEF RecordInvalidAction, Stop, Happened, Event, EventFits, Requests
  <1>7. CASE ModelReturnsUnusable \/ RejectMalformedCall
    BY <1>6, <1>7 DEF ModelReturnsUnusable, RejectMalformedCall
  <1>8. CASE ModelAsksForBatch
    BY <1>6, <1>8, NothingLogged DEF ModelAsksForBatch
  <1>9. CASE AcceptCall
    <2> DEFINE c     == Head(queue)
               e     == Event("model_action", step_count, c, "-")
    <2>1. c \in Call
      BY <1>9 DEF AcceptCall, TypeOK, ControlOK, Member
    <2>2. e \in LogEvent /\ <<e>> \in Seq(LogEvent)
      BY <2>1, EventTyped DEF TypeOK, EventKinds, EventDetails
    <2>3. EventFits(e) /\ e.event = "model_action"
      BY <1>9 DEF AcceptCall, EventFits, Event
    <2>4. pc = "calls" /\ UNCHANGED <<step_count, attempt>>
      BY <1>9 DEF AcceptCall
    <2>5. \/ pc' = "lookup" /\ log' = log \o <<e>> /\ UNCHANGED observations
          \/ pc' = "finish" /\ RecordObservation(c, "block", FALSE, <<e>>)
      BY <1>9 DEF AcceptCall, StopBatch, Stop
    <2> HIDE DEF c, e
    <2>6. Len(<<e>>) = 1 /\ <<e>>[1] = e
      OBVIOUS
    <2>7. \A i \in 1..Len(<<e>>) : EventFits(<<e>>[i]) /\ <<e>>[i].event \in {"policy_decision", "model_action"}
      <3>. SUFFICES ASSUME NEW i \in 1..Len(<<e>>)
                    PROVE  EventFits(<<e>>[i]) /\ <<e>>[i].event \in {"policy_decision", "model_action"}
        OBVIOUS
      <3>1. i = 1
        BY <2>6
      <3>. QED  BY <2>3, <2>6, <3>1
    <2>8. CASE pc' = "lookup" /\ log' = log \o <<e>> /\ UNCHANGED observations
      <3>1. log' = Append(log, e)
        BY <2>2, <2>8, AppendIsConcat DEF TypeOK
      <3>. QED  BY <2>2, <2>3, <2>4, <2>8, <3>1, OneLogged DEF Requests
    <2>9. CASE pc' = "finish" /\ RecordObservation(c, "block", FALSE, <<e>>)
      BY <2>1, <2>2, <2>4, <2>7, <2>9, ObservationLogged
    <2>. QED  BY <2>5, <2>8, <2>9
  <1>10. CASE UnknownTool \/ PolicyUnusable \/ InvalidArguments
    <2>1. /\ RecordObservation(call, "block", FALSE, <<>>) /\ call \in Call
          /\ UNCHANGED <<step_count, attempt>> /\ pc # "done" /\ pc' # "done"
      BY <1>10 DEF UnknownTool, PolicyUnusable, InvalidArguments, StopBatch, Stop, Proceed,
         ControlOK, InCall
    <2>. QED  BY <1>0, <2>1, ObservationLogged
  <1>11. CASE UserRefuses \/ ToolReturns \/ ToolBreaks
    <2>1. PICK success \in BOOLEAN : RecordObservation(call, decision, success, <<>>)
      BY <1>11 DEF UserRefuses, ToolReturns, ToolBreaks
    <2>2. /\ call \in Call /\ decision \in {"allow", "confirm", "block"}
          /\ UNCHANGED <<step_count, attempt>> /\ pc # "done" /\ pc' # "done"
      BY <1>11 DEF UserRefuses, ToolReturns, ToolBreaks, StopBatch, Stop, Proceed,
         ControlOK, InCall
    <2>. QED  BY <1>0, <2>1, <2>2, ObservationLogged
  <1>12. ASSUME NEW outcome \in {"allow", "confirm", "block"}, pc = "lookup",
                UNCHANGED step_count
         PROVE  /\ Decided(outcome) \in Seq(LogEvent) /\ Len(Decided(outcome)) = 1
                /\ EventFits(Decided(outcome)[1])
                /\ Decided(outcome)[1].event = "policy_decision"
    <2>1. Event("policy_decision", step_count, call, outcome) \in LogEvent
      BY <1>12, EventTyped DEF TypeOK, ControlOK, InCall, EventKinds, EventDetails
    <2>. QED  BY <1>12, <2>1 DEF Decided, EventFits, Event
  <1>13. ASSUME InCall, UNCHANGED step_count
         PROVE  /\ ToolStarted \in Seq(LogEvent) /\ Len(ToolStarted) = 1
                /\ EventFits(ToolStarted[1])
                /\ ToolStarted[1].event = "tool_started"
    <2>1. Event("tool_started", step_count, call, "-") \in LogEvent
      BY <1>13, EventTyped DEF TypeOK, ControlOK, InCall, EventKinds, EventDetails
    <2>. QED  BY <1>13, <2>1 DEF ToolStarted, EventFits, Event
  <1>14. CASE PolicyBlocks
    <2>1. /\ RecordObservation(call, "block", FALSE, Decided("block")) /\ call \in Call
          /\ UNCHANGED <<step_count, attempt>> /\ pc = "lookup" /\ pc' # "done"
      BY <1>14 DEF PolicyBlocks, StopBatch, Stop, ControlOK, InCall
    <2>2. \A i \in 1..Len(Decided("block")) :
             /\ EventFits(Decided("block")[i])
             /\ Decided("block")[i].event \in {"policy_decision", "model_action"}
      <3>1. /\ Len(Decided("block")) = 1 /\ EventFits(Decided("block")[1])
            /\ Decided("block")[1].event = "policy_decision"
        BY <1>12, <2>1
      <3>. QED  BY <3>1
    <2>3. Decided("block") \in Seq(LogEvent)
      BY <1>12, <2>1
    <2>. QED  BY <2>1, <2>2, <2>3, ObservationLogged
  <1>15. CASE PolicyAsksToConfirm
    <2>1. /\ log' = log \o Decided("confirm") /\ pc = "lookup" /\ pc' = "confirm"
          /\ UNCHANGED <<step_count, attempt, observations>>
      BY <1>15 DEF PolicyAsksToConfirm
    <2>2. /\ Decided("confirm") \in Seq(LogEvent) /\ Len(Decided("confirm")) = 1
          /\ EventFits(Decided("confirm")[1])
          /\ Decided("confirm")[1].event = "policy_decision"
      BY <1>12, <2>1
    <2>3. \A i \in 1..Len(Decided("confirm")) :
             EventFits(Decided("confirm")[i]) /\ Decided("confirm")[i].event = "policy_decision"
      BY <2>2
    <2>. QED  BY <2>1, <2>2, <2>3, OthersLogged DEF Requests
  <1>16. CASE UserConfirms
    <2>1. /\ log' = log \o <<>> \o ToolStarted /\ pc = "confirm" /\ pc' = "tool"
          /\ UNCHANGED <<step_count, attempt, observations>>
      BY <1>16 DEF UserConfirms, StartTool
    <2>2. log \o <<>> = log
      BY ConcatEmptySeq DEF TypeOK
    <2>3. /\ ToolStarted \in Seq(LogEvent) /\ Len(ToolStarted) = 1
          /\ EventFits(ToolStarted[1]) /\ ToolStarted[1].event = "tool_started"
      BY <1>13, <2>1 DEF InCall
    <2>4. \A i \in 1..Len(ToolStarted) :
             EventFits(ToolStarted[i]) /\ ToolStarted[i].event = "tool_started"
      BY <2>3
    <2>. QED  BY <2>1, <2>2, <2>3, <2>4, OthersLogged DEF Requests
  <1>17. CASE PolicyAllows
    <2> DEFINE new == Decided("allow") \o ToolStarted
    <2>1. /\ log' = log \o Decided("allow") \o ToolStarted /\ pc = "lookup" /\ pc' = "tool"
          /\ UNCHANGED <<step_count, attempt, observations>>
      BY <1>17 DEF PolicyAllows, StartTool
    <2>2. /\ Decided("allow") \in Seq(LogEvent) /\ Len(Decided("allow")) = 1
          /\ EventFits(Decided("allow")[1]) /\ Decided("allow")[1].event = "policy_decision"
      BY <1>12, <2>1
    <2>3. /\ ToolStarted \in Seq(LogEvent) /\ Len(ToolStarted) = 1
          /\ EventFits(ToolStarted[1]) /\ ToolStarted[1].event = "tool_started"
      BY <1>13, <2>1 DEF InCall
    <2>4. log' = log \o new
      <3>1. log \in Seq(LogEvent)
        BY DEF TypeOK
      <3>2. (log \o Decided("allow")) \o ToolStarted = log \o new
        BY <2>2, <2>3, <3>1, ConcatAssociative
      <3>. QED  BY <2>1, <3>2
    <2>5. /\ new \in Seq(LogEvent) /\ Len(new) = 2
          /\ new[1] = Decided("allow")[1] /\ new[2] = ToolStarted[1]
      BY <2>2, <2>3, ConcatProperties
    <2> HIDE DEF new
    <2>6. \A i \in 1..Len(new) : EventFits(new[i]) /\ new[i].event \in {"policy_decision", "tool_started"}
      BY <2>2, <2>3, <2>5
    <2>. QED  BY <2>1, <2>4, <2>5, <2>6, OthersLogged DEF Requests
  <1>18. CASE FinishRun
    <2> DEFINE s   == Happened("run_snapshot", "-")
               f   == Happened("run_finished", final_status)
               new == <<s, f>>
    <2>1. s \in LogEvent /\ f \in LogEvent
      BY <1>18, EventTyped DEF FinishRun, Happened, TypeOK, ControlOK, EventKinds, EventDetails
    <2>2. /\ s.event = "run_snapshot" /\ f.event = "run_finished" /\ f.detail = final_status'
          /\ s.step = step_count' /\ f.step = step_count'
      BY <1>18 DEF FinishRun, Happened, Event
    <2>3. log' = log \o new
      BY <1>18 DEF FinishRun
    <2>4. /\ pc = "finish" /\ pc' = "done" /\ UNCHANGED <<step_count, attempt, observations>>
      BY <1>18 DEF FinishRun
    <2> HIDE DEF s, f
    <2>5. new \in Seq(LogEvent) /\ Len(new) = 2 /\ new[1] = s /\ new[2] = f
      BY <2>1
    <2> HIDE DEF new
    <2>6. FinishLogged(new) /\ \A i \in 1..Len(new) : EventFits(new[i])
      BY <2>2, <2>4, <2>5 DEF FinishLogged, EventFits
    <2>. QED  BY <2>3, <2>5, <2>6 DEF LogStep
  <1>. QED
    BY <1>1, <1>2, <1>3, <1>4, <1>5, <1>7, <1>8, <1>9, <1>10, <1>11, <1>14, <1>15, <1>16, <1>17,
       <1>18 DEF Next, LoopStep

(***************************************************************************)
(* The log.  LogShape relates every event to the state it was written in;  *)
(* it is what the readers of the run log rely on.                          *)
(***************************************************************************)
Finished == {i \in DOMAIN log : log[i].event = "tool_finished"}
Failed   == {i \in Finished : log[i].detail = "failed"}
Failing  == {n \in DOMAIN observations : ~observations[n].success}

StepsBehind == \A i \in DOMAIN log : log[i].step <= step_count

LogShape ==
    /\ \A i \in DOMAIN log : log[i].event = "run_finished" =>
         pc = "done" /\ log[i].detail = final_status
    /\ pc = "done" => /\ Len(log) >= 2
                      /\ log[Len(log)].event = "run_finished"
                      /\ log[Len(log) - 1].event = "run_snapshot"
    /\ \A i \in Finished : i + 1 \in DOMAIN log /\ log[i + 1].event = "run_snapshot"
    /\ \A i \in DOMAIN log : log[i].event = "run_error" /\ log[i].detail = "model_error" =>
         final_status = "model_error"

CountsMatch ==
    /\ Cardinality(Finished) = Len(observations)
    /\ Cardinality(Failed) = Cardinality(Failing)

LogInv == TypeOK /\ ControlOK /\ StepsBehind /\ LogShape /\ CountsMatch

\* A final status and what led to it are not touched again.
LEMMA OutcomeStep ==
    TypeOK /\ ControlOK /\ [Next]_vars /\ final_status # "none" =>
        UNCHANGED <<final_status, observations, asked, ran>>
  <1> SUFFICES ASSUME TypeOK, ControlOK, [Next]_vars, final_status # "none"
               PROVE  UNCHANGED <<final_status, observations, asked, ran>>
    OBVIOUS
  <1>1. StepKind /\ Closing
    BY StepKinds DEF ControlOK
  <1>2. QuietStep \/ StillStep
    BY <1>1 DEF StepKind, Closing, InCall, TakeStep, ConfirmStep, StartStep, RepeatStep,
       AnswerStep
  <1>. QED  BY <1>2 DEF QuietStep, StillStep, callVars, historyVars

\* Appending keeps the events and puts the new ones behind them.
LEMMA LogGrows ==
    ASSUME TypeOK, NEW new \in Seq(LogEvent), log' = log \o new
    PROVE  /\ Len(log) \in Nat /\ Len(new) \in Nat
           /\ Len(log') = Len(log) + Len(new)
           /\ DOMAIN log = 1..Len(log) /\ DOMAIN log' = 1..Len(log')
           /\ \A i \in DOMAIN log : i \in DOMAIN log' /\ log'[i] = log[i]
           /\ \A i \in 1..Len(new) : Len(log) + i \in DOMAIN log' /\ log'[Len(log) + i] = new[i]
           /\ \A j \in DOMAIN log' : j \in DOMAIN log \/
                (j - Len(log) \in 1..Len(new) /\ log'[j] = new[j - Len(log)])
  <1>1. /\ log \in Seq(LogEvent) /\ Len(log) \in Nat /\ Len(new) \in Nat
        /\ DOMAIN log = 1..Len(log)
    BY DEF TypeOK
  <1>2. /\ log' \in Seq(LogEvent) /\ Len(log') = Len(log) + Len(new)
        /\ \A i \in 1..(Len(log) + Len(new)) :
             log'[i] = IF i <= Len(log) THEN log[i] ELSE new[i - Len(log)]
    BY <1>1, ConcatProperties
  <1>3. DOMAIN log' = 1..Len(log')
    BY <1>2
  <1>4. ASSUME NEW i \in 1..Len(new)
        PROVE  Len(log) + i \in DOMAIN log' /\ log'[Len(log) + i] = new[i]
    <2>1. /\ Len(log) + i \in 1..(Len(log) + Len(new)) /\ ~(Len(log) + i <= Len(log))
          /\ (Len(log) + i) - Len(log) = i
      BY <1>1
    <2>. QED  BY <1>2, <1>3, <2>1
  <1>5. ASSUME NEW i \in DOMAIN log
        PROVE  i \in DOMAIN log' /\ log'[i] = log[i]
    <2>1. i \in 1..(Len(log) + Len(new)) /\ i <= Len(log)
      BY <1>1
    <2>. QED  BY <1>2, <1>3, <2>1
  <1>6. ASSUME NEW j \in DOMAIN log', j \notin DOMAIN log
        PROVE  j - Len(log) \in 1..Len(new) /\ log'[j] = new[j - Len(log)]
    <2>1. j \in 1..(Len(log) + Len(new)) /\ ~(j <= Len(log)) /\ j - Len(log) \in 1..Len(new)
      BY <1>1, <1>2, <1>3, <1>6
    <2>. QED  BY <1>2, <2>1
  <1>. QED  BY <1>1, <1>2, <1>3, <1>4, <1>5, <1>6

\* The parts of the log that are counted are finite.
LEMMA LogFinite ==
    ASSUME TypeOK
    PROVE  /\ IsFiniteSet(DOMAIN log) /\ IsFiniteSet(DOMAIN observations)
           /\ \A S \in SUBSET (DOMAIN log) : IsFiniteSet(S) /\ Cardinality(S) \in Nat
           /\ \A S \in SUBSET (DOMAIN observations) : IsFiniteSet(S) /\ Cardinality(S) \in Nat
  <1>1. /\ DOMAIN log = 1..Len(log) /\ Len(log) \in Nat
        /\ DOMAIN observations = 1..Len(observations) /\ Len(observations) \in Nat
    BY DEF TypeOK
  <1>2. IsFiniteSet(DOMAIN log) /\ IsFiniteSet(DOMAIN observations)
    BY <1>1, FS_Interval
  <1>. QED  BY <1>2, FS_Subset, FS_CardinalityType

\* A recorded observation is one more tool_finished, and one more failure if it is one.
LEMMA CountsStep ==
    ASSUME TypeOK, CountsMatch, NEW new \in Seq(LogEvent), log' = log \o new,
           NEW o \in Observation, AnswerLogged(new, o)
    PROVE  CountsMatch'
  <1>0. /\ Len(log) \in Nat /\ Len(new) \in Nat /\ Len(new) >= 2
        /\ observations \in Seq(Observation) /\ Len(observations) \in Nat
    BY LogGrows DEF AnswerLogged, TypeOK
  <1> DEFINE p == Len(log) + (Len(new) - 1)
             n == Len(observations) + 1
  <1>1. /\ p \in DOMAIN log' /\ p \notin DOMAIN log /\ log'[p] = new[Len(new) - 1]
        /\ log'[p].event = "tool_finished"
        /\ (log'[p].detail = "failed") <=> ~o.success
    <2>1. Len(new) - 1 \in 1..Len(new) /\ p > Len(log)
      BY <1>0
    <2>2. /\ \A i \in 1..Len(new) : Len(log) + i \in DOMAIN log' /\ log'[Len(log) + i] = new[i]
          /\ DOMAIN log = 1..Len(log)
      BY LogGrows
    <2>3. /\ new[Len(new) - 1].event = "tool_finished"
          /\ (new[Len(new) - 1].detail = "failed") <=> ~o.success
      BY <2>1 DEF AnswerLogged
    <2>4. p \in DOMAIN log' /\ log'[p] = new[Len(new) - 1]
      BY <2>1, <2>2
    <2>5. p \notin DOMAIN log
      BY <2>1, <2>2
    <2>. HIDE DEF p
    <2>. QED  BY <2>3, <2>4, <2>5
  <1>2. ASSUME NEW j \in DOMAIN log', j \notin DOMAIN log, log'[j].event = "tool_finished"
        PROVE  j = p
    <2>1. j - Len(log) \in 1..Len(new) /\ log'[j] = new[j - Len(log)] /\ j \in Nat
      BY <1>0, <1>2, LogGrows
    <2>2. j - Len(log) = Len(new) - 1
      BY <1>2, <2>1 DEF AnswerLogged
    <2>3. j = Len(log) + (j - Len(log))
      BY <1>0, <2>1
    <2>. QED  BY <2>2, <2>3
  <1> HIDE DEF p
  <1>3. Finished' = Finished \cup {p} /\ p \notin Finished
    BY <1>1, <1>2, LogGrows DEF Finished
  <1>4. Failed' = Failed \cup (IF o.success THEN {} ELSE {p}) /\ p \notin Failed
    BY <1>1, <1>3, LogGrows DEF Failed, Finished
  <1>5. /\ observations' = Append(observations, o) /\ Len(observations') = n
        /\ DOMAIN observations' = DOMAIN observations \cup {n} /\ n \notin DOMAIN observations
        /\ observations'[n] = o
        /\ \A k \in DOMAIN observations : observations'[k] = observations[k]
    <2>1. observations' = Append(observations, o)
      BY DEF AnswerLogged
    <2>2. /\ observations' \in Seq(Observation) /\ Len(observations') = n
          /\ \A k \in 1..Len(observations) : observations'[k] = observations[k]
          /\ observations'[n] = o
      BY <1>0, <2>1, AppendProperties
    <2>3. DOMAIN observations = 1..Len(observations) /\ DOMAIN observations' = 1..n
      BY <1>0, <2>2
    <2>. QED  BY <1>0, <2>1, <2>2, <2>3
  <1> HIDE DEF n
  <1>6. Failing' = Failing \cup (IF o.success THEN {} ELSE {n}) /\ n \notin Failing
    BY <1>5 DEF Failing
  <1>7. /\ IsFiniteSet(Finished) /\ IsFiniteSet(Failed) /\ IsFiniteSet(Failing)
        /\ Cardinality(Finished) \in Nat
    BY LogFinite DEF Finished, Failed, Failing
  <1>8. Cardinality(Finished') = Cardinality(Finished) + 1
    BY <1>3, <1>7, FS_AddElement
  <1>9. Cardinality(Failed') = Cardinality(Failing')
    <2>1. CASE o.success
      BY <1>4, <1>6, <2>1 DEF CountsMatch
    <2>2. CASE ~o.success
      <3>1. /\ Cardinality(Failed') = Cardinality(Failed) + 1
            /\ Cardinality(Failing') = Cardinality(Failing) + 1
        BY <1>4, <1>6, <1>7, <2>2, FS_AddElement
      <3>. QED  BY <3>1 DEF CountsMatch
    <2>. QED  BY <2>1, <2>2
  <1>. QED  BY <1>5, <1>8, <1>9 DEF CountsMatch, n

\* The log starts empty.
LEMMA LogInit == Init => LogInv
  <1> SUFFICES ASSUME Init PROVE StepsBehind /\ LogShape /\ CountsMatch
    BY TypeInit DEF LogInv
  <1>1. DOMAIN log = {} /\ DOMAIN observations = {} /\ Len(observations) = 0 /\ pc = "start"
    BY DEF Init
  <1>2. Finished = {} /\ Failed = {} /\ Failing = {}
    BY <1>1 DEF Finished, Failed, Failing
  <1>. QED  BY <1>1, <1>2, FS_EmptySet DEF StepsBehind, LogShape, CountsMatch

\* Each step keeps the shape of the log.
LEMMA LogInvStep == LogInv /\ [Next]_vars => LogInv'
  <1> SUFFICES ASSUME LogInv, [Next]_vars
               PROVE  StepsBehind' /\ LogShape' /\ CountsMatch'
    BY TypeStep DEF LogInv
  <1>0. /\ TypeOK /\ ControlOK /\ TypeOK' /\ ControlOK' /\ StepsBehind /\ LogShape /\ CountsMatch
        /\ LogStep
        /\ final_status # "none" => UNCHANGED final_status
    BY TypeStep, LogSteps, OutcomeStep DEF LogInv
  <1>1. PICK new \in Seq(LogEvent) :
           /\ log' = log \o new
           /\ \A i \in 1..Len(new) : EventFits(new[i])
           /\ \/ AskLogged(new) \/ FinishLogged(new) \/ OtherLogged(new)
              \/ \E o \in Observation : AnswerLogged(new, o)
    BY <1>0 DEF LogStep
  <1>2. /\ Len(log) \in Nat /\ Len(new) \in Nat
        /\ Len(log') = Len(log) + Len(new)
        /\ DOMAIN log = 1..Len(log) /\ DOMAIN log' = 1..Len(log')
        /\ \A i \in DOMAIN log : i \in DOMAIN log' /\ log'[i] = log[i]
        /\ \A i \in 1..Len(new) : Len(log) + i \in DOMAIN log' /\ log'[Len(log) + i] = new[i]
        /\ \A j \in DOMAIN log' : j \in DOMAIN log \/
             (j - Len(log) \in 1..Len(new) /\ log'[j] = new[j - Len(log)])
    BY <1>0, <1>1, LogGrows
  <1>3. StepsBehind'
    <2>1. step_count \in Nat /\ step_count' \in Nat /\ step_count <= step_count'
      BY <1>0, <1>1, LoopAssumption DEF TypeOK, AskLogged, FinishLogged, OtherLogged, AnswerLogged
    <2>2. ASSUME NEW j \in DOMAIN log' PROVE log'[j].step <= step_count'
      <3>1. CASE j \in DOMAIN log
        <4>0. log \in Seq(LogEvent)
          BY <1>0 DEF TypeOK
        <4>1. log[j] \in LogEvent
          BY <1>2, <3>1, <4>0
        <4>2. log[j].step \in Nat
          BY <4>1, LoopAssumption DEF LogEvent
        <4>. QED  BY <1>0, <1>2, <2>1, <3>1, <4>2 DEF StepsBehind
      <3>2. CASE j \notin DOMAIN log
        BY <1>1, <1>2, <2>1, <3>2 DEF EventFits
      <3>. QED  BY <3>1, <3>2
    <2>. QED  BY <2>2 DEF StepsBehind
  <1>4. ASSUME NEW j \in DOMAIN log',
               log'[j].event = "run_error" /\ log'[j].detail = "model_error"
        PROVE  final_status' = "model_error"
    <2>1. CASE j \in DOMAIN log
      BY <1>0, <1>2, <1>4, <2>1 DEF LogShape
    <2>2. CASE j \notin DOMAIN log
      BY <1>1, <1>2, <1>4, <2>2 DEF EventFits
    <2>. QED  BY <2>1, <2>2
  <1>5. ASSUME \A i \in 1..Len(new) : new[i].event # "run_finished",
               (pc' = "done") <=> (pc = "done"), pc = "done" => new = <<>>
        PROVE  /\ \A i \in DOMAIN log' : log'[i].event = "run_finished" =>
                     pc' = "done" /\ log'[i].detail = final_status'
               /\ pc' = "done" => /\ Len(log') >= 2
                                  /\ log'[Len(log')].event = "run_finished"
                                  /\ log'[Len(log') - 1].event = "run_snapshot"
    <2>1. pc = "done" => final_status' = final_status
      BY <1>0 DEF ControlOK
    <2>2. pc' = "done" => log' = log
      <3>1. log \o <<>> = log
        BY <1>0, ConcatEmptySeq DEF TypeOK
      <3>. QED  BY <1>1, <1>5, <3>1
    <2>3. ASSUME NEW i \in DOMAIN log', log'[i].event = "run_finished"
          PROVE  pc' = "done" /\ log'[i].detail = final_status'
      <3>1. i \in DOMAIN log
        BY <1>2, <1>5, <2>3
      <3>. QED  BY <1>0, <1>2, <1>5, <2>1, <2>3, <3>1 DEF LogShape
    <2>4. pc' = "done" => /\ Len(log') >= 2
                          /\ log'[Len(log')].event = "run_finished"
                          /\ log'[Len(log') - 1].event = "run_snapshot"
      BY <1>0, <1>5, <2>2 DEF LogShape
    <2>. QED  BY <2>3, <2>4
  <1>6. ASSUME \A i \in 1..Len(new) : new[i].event # "tool_finished", UNCHANGED observations
        PROVE  /\ CountsMatch'
               /\ \A i \in Finished' : i + 1 \in DOMAIN log' /\ log'[i + 1].event = "run_snapshot"
    <2>1. Finished' = Finished
      BY <1>2, <1>6 DEF Finished
    <2>2. Failed' = Failed /\ Failing' = Failing
      BY <1>2, <1>6, <2>1 DEF Failed, Failing, Finished
    <2>. QED  BY <1>0, <1>2, <1>6, <2>1, <2>2 DEF CountsMatch, LogShape
  <1>7. CASE AskLogged(new)
    <2>1. /\ \A i \in 1..Len(new) : new[i].event \in Requests
          /\ pc' # "done" /\ pc # "done" /\ UNCHANGED observations
      BY <1>7 DEF AskLogged
    <2>. QED  BY <1>3, <1>4, <1>5, <1>6, <2>1 DEF LogShape, Requests
  <1>8. CASE OtherLogged(new)
    <2>1. /\ \A i \in 1..Len(new) : new[i].event \notin {"tool_finished", "run_finished"}
          /\ (pc' = "done") <=> (pc = "done")
          /\ pc = "done" => new = <<>>
          /\ UNCHANGED observations
      BY <1>8 DEF OtherLogged
    <2>. QED  BY <1>3, <1>4, <1>5, <1>6, <2>1 DEF LogShape
  <1>9. CASE FinishLogged(new)
    <2>1. /\ Len(new) = 2 /\ new[1].event = "run_snapshot"
          /\ new[2].event = "run_finished" /\ new[2].detail = final_status'
          /\ pc = "finish" /\ pc' = "done" /\ UNCHANGED observations
      BY <1>9 DEF FinishLogged
    <2>2. /\ Len(log') = Len(log) + 2
          /\ log'[Len(log) + 1] = new[1] /\ log'[Len(log) + 2] = new[2]
          /\ Len(log') - 1 = Len(log) + 1
      BY <1>2, <2>1
    <2>3. ASSUME NEW i \in DOMAIN log', log'[i].event = "run_finished"
          PROVE  log'[i].detail = final_status'
      <3>1. i \notin DOMAIN log
        BY <1>0, <1>2, <2>1, <2>3 DEF LogShape
      <3>2. i - Len(log) \in 1..2 /\ log'[i] = new[i - Len(log)]
        BY <1>2, <2>1, <3>1
      <3>. QED  BY <2>1, <2>3, <3>2
    <2>4. \A i \in 1..Len(new) : new[i].event # "tool_finished"
      BY <2>1
    <2>5. /\ Len(log') >= 2 /\ log'[Len(log')].event = "run_finished"
          /\ log'[Len(log') - 1].event = "run_snapshot"
      BY <1>2, <2>1, <2>2
    <2>. QED  BY <1>3, <1>4, <1>6, <2>1, <2>3, <2>4, <2>5 DEF LogShape
  <1>10. ASSUME NEW o \in Observation, AnswerLogged(new, o)
         PROVE  StepsBehind' /\ LogShape' /\ CountsMatch'
    <2>1. CountsMatch'
      BY <1>0, <1>1, <1>10, CountsStep
    <2>2. /\ Len(new) >= 2
          /\ \A i \in 1..Len(new) : /\ new[i].event # "run_finished"
                                    /\ (new[i].event = "tool_finished") <=> (i = Len(new) - 1)
          /\ new[Len(new)].event = "run_snapshot"
          /\ pc # "done" /\ pc' # "done"
      BY <1>10 DEF AnswerLogged
    <2>3. ASSUME NEW j \in Finished'
          PROVE  j + 1 \in DOMAIN log' /\ log'[j + 1].event = "run_snapshot"
      <3>0. j \in DOMAIN log' /\ log'[j].event = "tool_finished"
        BY <2>3 DEF Finished
      <3>1. CASE j \in DOMAIN log
        <4>1. j \in Finished
          BY <1>2, <3>0, <3>1 DEF Finished
        <4>. QED  BY <1>0, <1>2, <4>1 DEF LogShape
      <3>2. CASE j \notin DOMAIN log
        <4>1. /\ j - Len(log) \in 1..Len(new) /\ log'[j] = new[j - Len(log)]
              /\ j \in Nat
          BY <1>2, <3>0, <3>2
        <4>2. j - Len(log) = Len(new) - 1
          BY <2>2, <3>0, <4>1
        <4>3. j + 1 = Len(log) + Len(new) /\ Len(new) \in 1..Len(new)
          BY <1>2, <2>2, <4>1, <4>2
        <4>. QED  BY <1>2, <2>2, <4>3
      <3>. QED  BY <3>1, <3>2
    <2>. QED  BY <1>3, <1>4, <1>5, <2>1, <2>2, <2>3 DEF LogShape
  <1>. QED  BY <1>1, <1>7, <1>8, <1>9, <1>10

(***************************************************************************)
(* Requests of a step.  The attempt counter is at least the number of      *)
(* requests of the step in progress, and no request belongs to a step that *)
(* has not begun.                                                          *)
(***************************************************************************)
RequestInv ==
    /\ pc = "ask" => step_count >= 1
    /\ \A s \in 0..MaxSteps :
         Cardinality(RequestsOf(s)) <= IF s = 0 \/ s > step_count THEN 0
                                       ELSE IF s = step_count THEN attempt
                                       ELSE RetryAttempts

\* A request counts for its step only; no other event counts.
LEMMA RequestsGrow ==
    ASSUME TypeOK, NEW new \in Seq(LogEvent), log' = log \o new,
           \A i \in 1..Len(new) : EventFits(new[i]), NEW s \in 0..MaxSteps
    PROVE  /\ IsFiniteSet(RequestsOf(s)) /\ Cardinality(RequestsOf(s)) \in Nat
           /\ IF AskLogged(new) /\ s = step_count'
              THEN Cardinality(RequestsOf(s)') = Cardinality(RequestsOf(s)) + 1
              ELSE (\/ AskLogged(new)
                    \/ \A i \in 1..Len(new) : new[i].event \notin Requests) =>
                   RequestsOf(s)' = RequestsOf(s)
  <1>1. /\ Len(log) \in Nat /\ Len(new) \in Nat
        /\ DOMAIN log = 1..Len(log)
        /\ \A i \in DOMAIN log : i \in DOMAIN log' /\ log'[i] = log[i]
        /\ \A i \in 1..Len(new) : Len(log) + i \in DOMAIN log' /\ log'[Len(log) + i] = new[i]
        /\ \A j \in DOMAIN log' : j \in DOMAIN log \/
             (j - Len(log) \in 1..Len(new) /\ log'[j] = new[j - Len(log)])
    BY LogGrows
  <1>2. RequestsOf(s) \subseteq DOMAIN log
    BY DEF RequestsOf
  <1>3. IsFiniteSet(RequestsOf(s)) /\ Cardinality(RequestsOf(s)) \in Nat
    BY <1>2, LogFinite
  <1>4. ASSUME \A i \in 1..Len(new) : new[i].event \notin Requests \/ new[i].step # s
        PROVE  RequestsOf(s)' = RequestsOf(s)
    <2>1. ASSUME NEW j \in RequestsOf(s)' PROVE j \in RequestsOf(s)
      BY <1>1, <1>4, <2>1 DEF RequestsOf, Requests
    <2>2. ASSUME NEW j \in RequestsOf(s) PROVE j \in RequestsOf(s)'
      BY <1>1, <2>2 DEF RequestsOf
    <2>. QED  BY <2>1, <2>2
  <1>5. CASE AskLogged(new) /\ s = step_count'
    <2> DEFINE p == Len(log) + 1
    <2>1. /\ Len(new) = 1 /\ new[1].event \in Requests /\ new[1].step = s
      BY <1>5 DEF AskLogged, EventFits
    <2>2. p \in DOMAIN log' /\ log'[p] = new[1] /\ p \notin DOMAIN log
      BY <1>1, <2>1
    <2>3. ASSUME NEW j \in DOMAIN log', j \notin DOMAIN log PROVE j = p
      <3>1. j - Len(log) = 1 /\ j \in Int
        BY <1>1, <2>1, <2>3
      <3>2. j = Len(log) + (j - Len(log))
        BY <1>1, <3>1
      <3>. QED  BY <3>1, <3>2
    <2> HIDE DEF p
    <2>4. RequestsOf(s)' = RequestsOf(s) \cup {p} /\ p \notin RequestsOf(s)
      BY <1>1, <2>1, <2>2, <2>3 DEF RequestsOf, Requests
    <2>. QED  BY <1>3, <1>5, <2>4, FS_AddElement
  <1>6. CASE AskLogged(new) /\ s # step_count'
    <2>1. \A i \in 1..Len(new) : new[i].step # s
      BY <1>6 DEF AskLogged, EventFits
    <2>. QED  BY <1>3, <1>4, <1>6, <2>1
  <1>. QED  BY <1>3, <1>4, <1>5, <1>6

\* The request counts keep below the attempts.
LEMMA RequestStep == LogInv /\ RequestInv /\ [Next]_vars => RequestInv'
  <1> SUFFICES ASSUME LogInv, RequestInv, [Next]_vars
               PROVE  RequestInv'
    OBVIOUS
  <1>0. TypeOK /\ ControlOK /\ TypeOK' /\ LogStep
    BY TypeStep, LogSteps DEF LogInv
  <1>1. PICK new \in Seq(LogEvent) :
           /\ log' = log \o new
           /\ \A i \in 1..Len(new) : EventFits(new[i])
           /\ \/ AskLogged(new) \/ FinishLogged(new) \/ OtherLogged(new)
              \/ \E o \in Observation : AnswerLogged(new, o)
    BY <1>0 DEF LogStep
  <1>2. /\ step_count \in Nat /\ step_count' \in Nat /\ attempt \in Nat
        /\ attempt <= RetryAttempts /\ RetryAttempts \in Nat
        /\ step_count' <= MaxSteps /\ MaxSteps \in Nat
    BY <1>0, LoopAssumption DEF TypeOK
  <1>3. pc' = "ask" => step_count' >= 1
    <2>1. pc' = "ask" => (pc = "ask" /\ step_count' = step_count) \/ step_count' = step_count + 1
      BY <1>0 DEF Next, LoopStep, Start, BeginStep, ReachMaxSteps, RetryModel, GiveUpOnModel,
         ModelReturnsNothing, ModelFinishes, ModelReturnsUnusable, ModelAsksForCall,
         ModelAsksForBatch, RejectMalformedCall, AcceptCall, UnknownTool, InvalidArguments,
         PolicyUnusable, PolicyBlocks, PolicyAllows, PolicyAsksToConfirm, UserConfirms,
         UserRefuses, ToolReturns, ToolBreaks, FinishRun, Interrupt, Ended, vars,
         RecordInvalidAction, Stop, StopBatch, Proceed, StartTool
    <2>. QED  BY <1>2, <2>1 DEF RequestInv
  <1>4. ASSUME NEW s \in 0..MaxSteps
        PROVE  Cardinality(RequestsOf(s)') <= IF s = 0 \/ s > step_count' THEN 0
                                              ELSE IF s = step_count' THEN attempt'
                                              ELSE RetryAttempts
    <2>1. /\ Cardinality(RequestsOf(s)) \in Nat
          /\ IF AskLogged(new) /\ s = step_count'
             THEN Cardinality(RequestsOf(s)') = Cardinality(RequestsOf(s)) + 1
             ELSE (\/ AskLogged(new)
                   \/ \A i \in 1..Len(new) : new[i].event \notin Requests) =>
                  RequestsOf(s)' = RequestsOf(s)
      BY <1>0, <1>1, RequestsGrow
    <2>2. Cardinality(RequestsOf(s)) <= IF s = 0 \/ s > step_count THEN 0
                                        ELSE IF s = step_count THEN attempt
                                        ELSE RetryAttempts
      BY DEF RequestInv
    <2>3. s \in Nat
      BY <1>2
    <2>4. CASE AskLogged(new)
      <3>1. /\ pc' = "ask"
            /\ \/ step_count' = step_count + 1 /\ attempt' = 1
               \/ step_count' = step_count /\ attempt' = attempt + 1
        BY <2>4 DEF AskLogged
      <3>2. CASE s = step_count'
        BY <1>2, <1>3, <2>1, <2>2, <2>3, <2>4, <3>1, <3>2
      <3>3. CASE s # step_count'
        <4>1. RequestsOf(s)' = RequestsOf(s)
          BY <2>1, <2>4, <3>3
        <4>. QED  BY <1>2, <1>3, <2>1, <2>2, <2>3, <3>1, <3>3, <4>1
      <3>. QED  BY <3>2, <3>3
    <2>5. CASE ~AskLogged(new)
      <3>1. /\ UNCHANGED <<step_count, attempt>>
            /\ \A i \in 1..Len(new) : new[i].event \notin Requests
        <4>1. CASE FinishLogged(new)
          <5>1. \A i \in 1..Len(new) : i = 1 \/ i = 2
            BY <4>1 DEF FinishLogged
          <5>. QED  BY <4>1, <5>1 DEF FinishLogged, Requests
        <4>2. CASE OtherLogged(new)
          BY <4>2 DEF OtherLogged
        <4>3. CASE \E o \in Observation : AnswerLogged(new, o)
          BY <4>3 DEF AnswerLogged
        <4>. QED  BY <1>1, <2>5, <4>1, <4>2, <4>3
      <3>2. RequestsOf(s)' = RequestsOf(s)
        BY <2>1, <2>5, <3>1
      <3>. QED  BY <2>2, <3>1, <3>2
    <2>. QED  BY <2>4, <2>5
  <1>. QED  BY <1>3, <1>4 DEF RequestInv

\* The model is asked at most RetryAttempts times in a step.
THEOREM RequestsAreBounded == Spec => []RequestsBounded
  <1>1. Init => RequestInv
    <2>. SUFFICES ASSUME Init PROVE RequestInv
      OBVIOUS
    <2>1. \A s \in 0..MaxSteps : RequestsOf(s) = {}
      BY DEF Init, RequestsOf
    <2>. QED  BY <2>1, FS_EmptySet, LoopAssumption DEF Init, RequestInv
  <1>2. LogInv /\ RequestInv => RequestsBounded
    <2>. SUFFICES ASSUME LogInv, RequestInv, NEW s \in 0..MaxSteps
                  PROVE  Cardinality(RequestsOf(s)) <= IF s = 0 THEN 0 ELSE RetryAttempts
      BY DEF RequestsBounded
    <2>1. Cardinality(RequestsOf(s)) \in Nat
      BY LogFinite DEF RequestsOf, LogInv
    <2>2. attempt \in Nat /\ attempt <= RetryAttempts /\ RetryAttempts \in Nat
      BY LoopAssumption DEF LogInv, TypeOK
    <2>. QED  BY <2>1, <2>2 DEF RequestInv
  <1>. QED  BY <1>1, <1>2, LogInit, LogInvStep, RequestStep, PTL DEF Spec

(***************************************************************************)
(* Invalid actions.  A batch is checked before its first member is         *)
(* accepted, and a single call is checked before it is: while a malformed  *)
(* member is queued, the step has accepted no call.                        *)
(***************************************************************************)
Fresh == \A i \in DOMAIN log : log[i].event = "model_action" => log[i].step < step_count

CleanQueue == \A i \in DOMAIN queue : queue[i] # Malformed

FreshInv ==
    /\ pc = "ask" => Fresh
    /\ pc = "calls" \/ InCall => CleanQueue \/ (pc = "calls" /\ Fresh /\ Len(queue) = 1)
    /\ final_status = "invalid_action" => Fresh

\* What a step does to the queue.
QueueStep ==
    \/ pc = "step" /\ pc' = "ask" /\ step_count' = step_count + 1 /\ UNCHANGED final_status
    \/ /\ pc = "ask" /\ pc' = "calls" /\ UNCHANGED <<step_count, final_status>>
       /\ CleanQueue' \/ Len(queue') = 1
    \/ /\ pc = "calls" /\ Head(queue) # Malformed /\ queue' = Tail(queue)
       /\ pc' \in {"lookup", "finish"} /\ UNCHANGED step_count
       /\ final_status' \in {final_status, "repeated_action"}
    \/ /\ UNCHANGED <<queue, step_count>>
       /\ pc # "calls" \/ Head(queue) = Malformed
       /\ pc' = "ask" => pc = "ask"
       /\ pc' = "calls" \/ InCall' => InCall \/ (pc' = "calls" /\ pc = "calls")
       /\ final_status' = "invalid_action" /\ final_status # "invalid_action" =>
            pc = "ask" \/ pc = "calls"
    \/ pc' = "interrupted" /\ UNCHANGED <<log, step_count, final_status>>
    \/ UNCHANGED vars

\* Each step does one of these.
LEMMA QueueSteps == TypeOK /\ ControlOK /\ [Next]_vars => QueueStep
  <1> SUFFICES ASSUME TypeOK, ControlOK, [Next]_vars
               PROVE  QueueStep
    OBVIOUS
  <1> USE DEF InCall, stateVars, historyVars
  <1>1. CASE BeginStep
    BY <1>1 DEF BeginStep, QueueStep
  <1>2. CASE ModelAsksForCall
    <2>1. PICK member \in Member : queue' = <<member>>
      BY <1>2 DEF ModelAsksForCall
    <2>2. Len(queue') = 1
      BY <2>1
    <2>. QED  BY <1>2, <2>2 DEF ModelAsksForCall, QueueStep
  <1>3. CASE ModelAsksForBatch
    <2>1. PICK batch \in Batch :
            \/ /\ BatchAccepted(batch) /\ queue' = batch /\ pc' = "calls"
               /\ UNCHANGED <<final_status, log>>
            \/ RecordInvalidAction /\ UNCHANGED queue
      BY <1>3 DEF ModelAsksForBatch
    <2>2. CASE BatchAccepted(batch) /\ queue' = batch /\ pc' = "calls"
               /\ UNCHANGED <<final_status, log>>
      BY <1>3, <2>2 DEF ModelAsksForBatch, BatchAccepted, CleanQueue, QueueStep
    <2>3. CASE RecordInvalidAction /\ UNCHANGED queue
      BY <1>3, <2>3 DEF ModelAsksForBatch, RecordInvalidAction, Stop, QueueStep
    <2>. QED  BY <2>1, <2>2, <2>3
  <1>4. CASE AcceptCall
    BY <1>4 DEF AcceptCall, RecordObservation, StopBatch, Stop, QueueStep
  <1>5. CASE ModelReturnsUnusable \/ RejectMalformedCall
    BY <1>5 DEF ModelReturnsUnusable, RejectMalformedCall, RecordInvalidAction, Stop, QueueStep
  <1>6. CASE \/ Start \/ ReachMaxSteps \/ RetryModel \/ GiveUpOnModel \/ ModelReturnsNothing
             \/ ModelFinishes
    BY <1>6 DEF Start, ReachMaxSteps, RetryModel, GiveUpOnModel, ModelReturnsNothing,
       ModelFinishes, Stop, QueueStep
  <1>7. CASE \/ UnknownTool \/ InvalidArguments \/ PolicyUnusable \/ PolicyBlocks
             \/ UserRefuses \/ ToolReturns \/ ToolBreaks
    BY <1>7 DEF UnknownTool, InvalidArguments, PolicyUnusable, PolicyBlocks, UserRefuses,
       ToolReturns, ToolBreaks, StopBatch, Stop, Proceed, QueueStep
  <1>8. CASE PolicyAllows \/ PolicyAsksToConfirm \/ UserConfirms
    BY <1>8 DEF PolicyAllows, PolicyAsksToConfirm, UserConfirms, StartTool, QueueStep
  <1>9. CASE FinishRun \/ Ended \/ UNCHANGED vars
    BY <1>9 DEF FinishRun, Ended, QueueStep
  <1>10. CASE Interrupt
    BY <1>10 DEF Interrupt, QueueStep
  <1>. QED
    BY <1>1, <1>2, <1>3, <1>4, <1>5, <1>6, <1>7, <1>8, <1>9, <1>10 DEF Next, LoopStep

\* No step that could break it gets past the check of the batch.
LEMMA FreshStep == LogInv /\ FreshInv /\ [Next]_vars => FreshInv'
  <1> SUFFICES ASSUME LogInv, FreshInv, [Next]_vars
               PROVE  FreshInv'
    OBVIOUS
  <1>0. /\ TypeOK /\ ControlOK /\ TypeOK' /\ ControlOK' /\ LogStep /\ QueueStep /\ StepsBehind
        /\ step_count \in Nat
    BY TypeStep, LogSteps, QueueSteps DEF LogInv, TypeOK
  <1>1. PICK new \in Seq(LogEvent) :
           /\ log' = log \o new
           /\ \A i \in 1..Len(new) : EventFits(new[i])
    BY <1>0 DEF LogStep
  <1>2. /\ \A i \in DOMAIN log : i \in DOMAIN log' /\ log'[i] = log[i]
        /\ \A j \in DOMAIN log' : j \in DOMAIN log \/
             (j - Len(log) \in 1..Len(new) /\ log'[j] = new[j - Len(log)])
        /\ \A i \in DOMAIN log : log[i].step \in Nat
    <2>1. /\ \A i \in DOMAIN log : i \in DOMAIN log' /\ log'[i] = log[i]
          /\ \A j \in DOMAIN log' : j \in DOMAIN log \/
               (j - Len(log) \in 1..Len(new) /\ log'[j] = new[j - Len(log)])
      BY <1>0, <1>1, LogGrows
    <2>2. ASSUME NEW i \in DOMAIN log PROVE log[i].step \in Nat
      <3>1. log[i] \in LogEvent
        BY <1>0, <2>2 DEF TypeOK
      <3>. QED  BY <3>1, LoopAssumption DEF LogEvent
    <2>. QED  BY <2>1, <2>2
  <1>3. ASSUME Fresh, UNCHANGED step_count, pc # "calls" \/ Head(queue) = Malformed
        PROVE  Fresh'
    BY <1>1, <1>2, <1>3 DEF Fresh, EventFits
  <1>4. CASE pc = "step" /\ pc' = "ask" /\ step_count' = step_count + 1 /\ UNCHANGED final_status
    <2>1. ASSUME NEW j \in DOMAIN log', log'[j].event = "model_action"
          PROVE  log'[j].step < step_count'
      <3>1. j \in DOMAIN log
        BY <1>1, <1>2, <1>4, <2>1 DEF EventFits
      <3>. QED  BY <1>0, <1>2, <1>4, <3>1 DEF StepsBehind
    <2>. QED  BY <1>4, <2>1 DEF FreshInv, Fresh, InCall
  <1>5. CASE /\ pc = "ask" /\ pc' = "calls" /\ UNCHANGED <<step_count, final_status>>
             /\ CleanQueue' \/ Len(queue') = 1
    BY <1>3, <1>5 DEF FreshInv, InCall
  <1>6. CASE /\ pc = "calls" /\ Head(queue) # Malformed /\ queue' = Tail(queue)
             /\ pc' \in {"lookup", "finish"} /\ UNCHANGED step_count
             /\ final_status' \in {final_status, "repeated_action"}
    <2>1. queue \in Seq(Member) /\ queue # <<>>
      BY <1>0, <1>6 DEF TypeOK, ControlOK
    <2>2. Len(queue) \in Nat /\ queue[1] = Head(queue)
      BY <2>1
    <2>3. CleanQueue
      BY <1>6, <2>1, <2>2 DEF FreshInv, CleanQueue
    <2>4. CleanQueue'
      BY <1>6, <2>1, <2>3 DEF CleanQueue
    <2>5. final_status' # "invalid_action"
      BY <1>0, <1>6 DEF ControlOK, Closing
    <2>. QED  BY <1>6, <2>4, <2>5 DEF FreshInv
  <1>7. CASE /\ UNCHANGED <<queue, step_count>>
             /\ pc # "calls" \/ Head(queue) = Malformed
             /\ pc' = "ask" => pc = "ask"
             /\ pc' = "calls" \/ InCall' => InCall \/ (pc' = "calls" /\ pc = "calls")
             /\ final_status' = "invalid_action" /\ final_status # "invalid_action" =>
                  pc = "ask" \/ pc = "calls"
    <2>1. CleanQueue' <=> CleanQueue
      BY <1>7 DEF CleanQueue
    <2>2. pc = "calls" => queue \in Seq(Member) /\ queue # <<>>
      BY <1>0 DEF TypeOK, ControlOK
    <2>3. pc = "calls" => ~CleanQueue
      BY <1>7, <2>2 DEF CleanQueue
    <2>4. pc = "calls" => Fresh
      BY <2>3 DEF FreshInv
    <2>5. Fresh => Fresh'
      BY <1>3, <1>7
    <2>. QED  BY <1>7, <2>1, <2>3, <2>4, <2>5 DEF FreshInv, InCall
  <1>8. CASE pc' = "interrupted" /\ UNCHANGED <<log, step_count, final_status>>
    BY <1>8 DEF FreshInv, Fresh, InCall
  <1>9. CASE UNCHANGED vars
    BY <1>9 DEF vars, FreshInv, Fresh, CleanQueue, InCall
  <1>. QED  BY <1>0, <1>4, <1>5, <1>6, <1>7, <1>8, <1>9 DEF QueueStep

\* When a run ends with an invalid action, its step has accepted no call.
THEOREM RejectedBatchesRunNothing == Spec => []RejectedBatchRunsNothing
  <1>1. Init => FreshInv
    BY DEF Init, FreshInv, Fresh, InCall
  <1>2. FreshInv => RejectedBatchRunsNothing
    BY DEF FreshInv, Fresh, RejectedBatchRunsNothing
  <1>. QED  BY <1>1, <1>2, LogInit, LogInvStep, FreshStep, PTL DEF Spec

(***************************************************************************)
(* The outcome, and the contract of a run.                                 *)
(***************************************************************************)
\* Once a final status is set, nothing is accepted, executed or answered.
THEOREM OutcomesAreFinal == Spec => OutcomeIsFinal
  <1>1. TypeOK /\ ControlOK /\ [Next]_vars =>
          [final_status # "none" =>
             UNCHANGED <<final_status, observations, asked, ran>>]_vars
    BY OutcomeStep
  <1>2. Spec => [](TypeOK /\ ControlOK)
    BY TypeInit, TypeStep, PTL DEF Spec
  <1>. QED  BY <1>1, <1>2, PTL DEF Spec, OutcomeIsFinal

\* The contract's test of a repetition is that of the loop's last call.
LEMMA RepeatsIsInARow ==
    TypeOK => (Contract!Repeats(asked) <=> InARow(Len(asked)))
  BY DEF TypeOK, Contract!Repeats, InARow

\* Each step of the loop is a step of the contract or leaves its variables alone.
LEMMA ContractStep ==
    RepeatInv /\ RepeatInv' /\ [Next]_vars => [Contract!Next]_Contract!contractVars
  <1> SUFFICES ASSUME RepeatInv, RepeatInv', [Next]_vars
               PROVE  [Contract!Next]_Contract!contractVars
    OBVIOUS
  <1>0. /\ StepKind /\ TypeOK /\ TypeOK' /\ ControlOK /\ CounterExact'
        /\ AnswersFollowCalls /\ CallInProgress
        /\ Len(asked) \in Nat /\ Len(observations) \in Nat
    BY StepKinds, TypeStep DEF RepeatInv, CallsInv, TypeOK
  <1>1. /\ InCall => Len(asked) = Len(observations) + 1 /\ final_status = "none"
        /\ ~InCall /\ pc # "interrupted" => Len(asked) = Len(observations)
        /\ pc = "calls" => final_status = "none"
    BY <1>0 DEF AnswersFollowCalls, ControlOK, Closing, InCall
  <1>2. Len(asked') > 0 =>
          (Contract!Repeats(asked') <=> repeated_action_count' >= RepeatThreshold)
    <2>1. (TypeOK => (Contract!Repeats(asked) <=> InARow(Len(asked))))'
      BY RepeatsIsInARow, PTL
    <2>2. (TypeOK /\ CounterExact /\ Len(asked) > 0 =>
             (InARow(Len(asked)) <=> repeated_action_count >= RepeatThreshold))'
      BY CounterDecides, PTL
    <2>. QED  BY <1>0, <2>1, <2>2
  <1> USE DEF Contract!contractVars, Contract!Open, Contract!Pending
  <1>3. CASE StillStep \/ ConfirmStep
    BY <1>3 DEF StillStep, ConfirmStep, callVars, historyVars
  <1>4. CASE QuietStep
    BY <1>0, <1>1, <1>4 DEF QuietStep, callVars, historyVars, Contract!Next, Contract!Conclude
  <1>5. CASE TakeStep
    <2>1. ~Contract!Repeats(asked')
      <3>1. /\ Len(asked') > 0
            /\ ~(repeated_action_count' >= RepeatThreshold)
        BY <1>0, <1>5, LoopAssumption DEF TakeStep, TypeOK
      <3>. QED  BY <1>2, <3>1
    <2>2. Contract!Ask(call')
      BY <1>0, <1>1, <1>5, <2>1 DEF TakeStep, Contract!Ask, InCall
    <2>. QED  BY <1>5, <2>2 DEF TakeStep, Contract!Next
  <1>6. ASSUME NEW c \in Call, RepeatStep(c)
        PROVE  Contract!Next
    <2>1. Contract!Repeats(asked')
      BY <1>0, <1>2, <1>6 DEF RepeatStep, TypeOK
    <2>2. Len(observations') = Len(observations) + 1
      BY <1>0, <1>6 DEF RepeatStep, TypeOK
    <2>3. Contract!RefuseRepeat(c)
      BY <1>0, <1>1, <1>6, <2>1, <2>2 DEF RepeatStep, Contract!RefuseRepeat, InCall,
         RefusalStatuses
    <2>. QED  BY <2>3 DEF Contract!Next
  <1>7. CASE StartStep
    <2>1. Contract!Run
      BY <1>0, <1>1, <1>7 DEF StartStep, Contract!Run, CallInProgress, InCall
    <2>. QED  BY <2>1 DEF Contract!Next
  <1>8. ASSUME NEW outcome \in {"allow", "confirm", "block"}, NEW success \in BOOLEAN,
               AnswerStep(outcome, success)
        PROVE  Contract!Next
    <2>1. Len(observations') = Len(observations) + 1
      BY <1>0, <1>8 DEF AnswerStep, TypeOK
    <2>2. IF Len(asked) \in ran
          THEN final_status' \in {"none"} \cup (FinalStatuses \ RefusalStatuses)
          ELSE final_status' \in {"none"} \cup RefusalStatuses
      BY <1>0, <1>8 DEF AnswerStep, CallInProgress, FinalStatuses, RefusalStatuses
    <2>3. UNCHANGED <<asked, ran>> /\ final_status = "none"
      BY <1>1, <1>8 DEF AnswerStep, historyVars
    <2>4. Contract!Answer
      BY <1>0, <1>1, <1>8, <2>1, <2>2, <2>3 DEF AnswerStep, Contract!Answer
    <2>. QED  BY <2>4 DEF Contract!Next
  <1>. QED  BY <1>0, <1>3, <1>4, <1>5, <1>6, <1>7, <1>8 DEF StepKind

\* Every run of the loop is a run of the contract.
THEOREM LoopImplementsContract == Spec => ImplementsContract
  <1>1. Init => Contract!Init
    BY DEF Init, Contract!Init
  <1>2. Spec => []RepeatInv
    BY RepeatInit, RepeatInvStep, PTL DEF Spec
  <1>. QED
    BY <1>1, <1>2, ContractStep, PTL DEF Spec, ImplementsContract, Contract!Spec

(***************************************************************************)
(* Termination, but for fairness: what a run has left to do grows less     *)
(* with every step of the loop.                                            *)
(***************************************************************************)
\* At most four steps are taken for a member of a batch, and the end is one.
CallsLeft(members) == 4 * members + 2

\* What the current step of run() has left, the end of the run included.
StepLeft ==
    CASE pc = "start"   -> 3
      [] pc = "step"    -> 2
      [] pc = "ask"     -> RetryAttempts - attempt + CallsLeft(MaxBatch) + 1
      [] pc = "calls"   -> CallsLeft(Len(queue))
      [] pc = "lookup"  -> CallsLeft(Len(queue)) + 3
      [] pc = "confirm" -> CallsLeft(Len(queue)) + 2
      [] pc = "tool"    -> CallsLeft(Len(queue)) + 1
      [] pc = "finish"  -> 1
      [] OTHER          -> 0

StepCost == RetryAttempts + CallsLeft(MaxBatch) + 1

Remaining == StepCost * (MaxSteps - step_count) + StepLeft

\* No step of the loop is idle, and none is taken after the last.
EveryStepCounts == [][LoopStep => Remaining' \in Nat /\ Remaining' < Remaining]_vars

\* What is left of a step is a number.
LEMMA StepLeftTyped == ASSUME TypeOK PROVE StepLeft \in Nat
  <1>1. /\ Len(queue) \in Nat /\ MaxBatch \in Nat
        /\ attempt \in Nat /\ RetryAttempts \in Nat /\ attempt <= RetryAttempts
    BY LoopAssumption DEF TypeOK
  <1>2. CallsLeft(Len(queue)) \in Nat /\ CallsLeft(MaxBatch) \in Nat
    BY <1>1 DEF CallsLeft
  <1>. QED  BY <1>1, <1>2 DEF StepLeft

\* While step_count stays it is enough to look at what the step has left.
LEMMA SameStep ==
    ASSUME TypeOK, TypeOK', step_count' = step_count, StepLeft' < StepLeft
    PROVE  Remaining' \in Nat /\ Remaining' < Remaining
  <1>1. StepLeft \in Nat /\ StepLeft' \in Nat
    <2>1. (TypeOK => StepLeft \in Nat)'
      BY StepLeftTyped, PTL
    <2>. QED  BY <2>1, StepLeftTyped
  <1>2. StepCost \in Nat /\ MaxSteps - step_count \in Nat
    BY LoopAssumption DEF StepCost, CallsLeft, TypeOK
  <1>3. StepCost * (MaxSteps - step_count) \in Nat
    BY <1>2
  <1>4. Remaining' = StepCost * (MaxSteps - step_count) + StepLeft'
    BY DEF Remaining, StepCost, CallsLeft
  <1>. QED  BY <1>1, <1>3, <1>4 DEF Remaining

\* Every step of the loop is counted.
LEMMA StepCounts ==
    TypeOK /\ ControlOK /\ LoopStep => Remaining' \in Nat /\ Remaining' < Remaining
  <1> SUFFICES ASSUME TypeOK, ControlOK, LoopStep
               PROVE  Remaining' \in Nat /\ Remaining' < Remaining
    OBVIOUS
  <1>0. TypeOK'
    BY TypeStep DEF Next
  <1>1. /\ Len(queue) \in Nat /\ Len(queue') \in Nat /\ MaxBatch \in Nat /\ MaxBatch >= 1
        /\ RetryAttempts \in Nat /\ attempt \in 0..RetryAttempts
    BY <1>0, LoopAssumption DEF TypeOK
  <1>2. /\ CallsLeft(Len(queue)) = 4 * Len(queue) + 2
        /\ CallsLeft(Len(queue')) = 4 * Len(queue') + 2
        /\ CallsLeft(MaxBatch) = 4 * MaxBatch + 2
    BY DEF CallsLeft
  <1> USE <1>1, <1>2
  <1>3. CASE BeginStep
    <2>1. StepLeft = 2 /\ StepLeft' = RetryAttempts - 1 + CallsLeft(MaxBatch) + 1
      BY <1>3 DEF BeginStep, StepLeft
    <2>2. PICK n \in Nat : MaxSteps - step_count' = n /\ MaxSteps - step_count = n + 1
      <3>1. MaxSteps - step_count' \in Nat /\ MaxSteps - step_count = MaxSteps - step_count' + 1
        BY <1>0, <1>3, LoopAssumption DEF BeginStep, TypeOK
      <3>. QED  BY <3>1
    <2>3. /\ StepCost \in Nat /\ StepCost * n \in Nat
          /\ StepCost * (n + 1) = StepCost * n + StepCost
      BY DEF StepCost
    <2>4. /\ StepCost * (MaxSteps - step_count) = StepCost * (MaxSteps - step_count') + StepCost
          /\ StepCost * (MaxSteps - step_count') \in Nat
      BY <2>2, <2>3
    <2>5. Remaining' = StepCost * (MaxSteps - step_count') + StepLeft'
      BY DEF Remaining, StepCost, CallsLeft
    <2>6. StepLeft' = StepCost - 1 /\ StepCost \in Nat
      BY <2>1 DEF StepCost
    <2>. QED  BY <2>1, <2>4, <2>5, <2>6 DEF Remaining
  <1>4. ASSUME ~BeginStep
        PROVE  step_count' = step_count /\ StepLeft' < StepLeft
    <2>1. CASE Start
      BY <2>1 DEF Start, Stop, StepLeft
    <2>2. CASE ReachMaxSteps
      BY <2>2 DEF ReachMaxSteps, Stop, StepLeft
    <2>3. CASE RetryModel
      <3>1. /\ StepLeft = RetryAttempts - attempt + CallsLeft(MaxBatch) + 1
            /\ StepLeft' = RetryAttempts - attempt' + CallsLeft(MaxBatch) + 1
        BY <2>3 DEF RetryModel, StepLeft
      <3>. QED  BY <2>3, <3>1 DEF RetryModel
    <2>4. CASE GiveUpOnModel \/ ModelReturnsNothing \/ ModelFinishes \/ ModelReturnsUnusable
      <3>1. pc = "ask" /\ pc' = "finish" /\ step_count' = step_count
        BY <2>4 DEF GiveUpOnModel, ModelReturnsNothing, ModelFinishes, ModelReturnsUnusable,
           RecordInvalidAction, Stop
      <3>. QED  BY <3>1 DEF StepLeft
    <2>5. CASE ModelAsksForCall \/ ModelAsksForBatch
      <3>1. /\ pc = "ask" /\ step_count' = step_count
            /\ pc' = "finish" \/ (pc' = "calls" /\ Len(queue') <= MaxBatch)
        BY <2>5 DEF ModelAsksForCall, ModelAsksForBatch, BatchAccepted, RecordInvalidAction, Stop
      <3>. QED  BY <3>1 DEF StepLeft
    <2>6. CASE RejectMalformedCall
      BY <2>6 DEF RejectMalformedCall, RecordInvalidAction, Stop, StepLeft
    <2>7. CASE AcceptCall
      <3>1. Len(queue') = Len(queue) - 1
        BY <2>7 DEF AcceptCall, ControlOK, TypeOK
      <3>2. pc = "calls" /\ pc' \in {"lookup", "finish"} /\ step_count' = step_count
        BY <2>7 DEF AcceptCall, StopBatch, Stop
      <3>. QED  BY <3>1, <3>2 DEF StepLeft
    <2>8. CASE UnknownTool \/ PolicyUnusable \/ PolicyBlocks \/ UserRefuses \/ ToolBreaks
      <3>1. InCall /\ pc' = "finish" /\ step_count' = step_count
        BY <2>8 DEF UnknownTool, PolicyUnusable, PolicyBlocks, UserRefuses, ToolBreaks,
           StopBatch, Stop, InCall
      <3>. QED  BY <3>1 DEF StepLeft, InCall
    <2>9. CASE InvalidArguments \/ ToolReturns
      <3>1. /\ InCall /\ pc' \in {"step", "calls"} /\ step_count' = step_count
            /\ queue' = queue
        BY <2>9 DEF InvalidArguments, ToolReturns, Proceed, InCall
      <3>. QED  BY <3>1 DEF StepLeft, InCall
    <2>10. CASE PolicyAllows \/ PolicyAsksToConfirm \/ UserConfirms
      <3>1. /\ \/ pc = "lookup" /\ pc' \in {"confirm", "tool"}
               \/ pc = "confirm" /\ pc' = "tool"
            /\ step_count' = step_count /\ queue' = queue
        BY <2>10 DEF PolicyAllows, PolicyAsksToConfirm, UserConfirms, StartTool
      <3>. QED  BY <3>1 DEF StepLeft
    <2>11. CASE FinishRun
      BY <2>11 DEF FinishRun, StepLeft
    <2>. QED  BY <1>4, <2>1, <2>2, <2>3, <2>4, <2>5, <2>6, <2>7, <2>8, <2>9, <2>10, <2>11
              DEF LoopStep
  <1>. QED  BY <1>0, <1>3, <1>4, SameStep

\* However the model, the policy, the user and the tools answer, a run takes no
\* more steps than Remaining says at its start: it ends unless something that
\* it waits for never comes.
THEOREM StepsAreCounted == Spec => EveryStepCounts
  <1>1. TypeOK /\ ControlOK /\ [Next]_vars =>
          [LoopStep => Remaining' \in Nat /\ Remaining' < Remaining]_vars
    BY StepCounts
  <1>2. Spec => [](TypeOK /\ ControlOK)
    BY TypeInit, TypeStep, PTL DEF Spec
  <1>. QED  BY <1>1, <1>2, PTL DEF Spec, EveryStepCounts
==============================================================================
