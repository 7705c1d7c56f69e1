-------------------------------- MODULE RunLog --------------------------------
(***************************************************************************)
(* The log of a run (logging/run_logger.py) between the loop that writes   *)
(* it and the commands of cli.py that read it, show-run, list-runs,        *)
(* resume-run and restore-run.                                             *)
(*                                                                         *)
(* AgentLoop hands its events to the logger one after the other and waits  *)
(* for each.  A write that fails is swallowed by the loop; one that fails  *)
(* in the middle leaves part of a line.  The readers take what they can    *)
(* parse, at any time, also of a run that is still going on or was killed. *)
(*                                                                         *)
(* The variable log of AgentLoop is what happened; a line of the file      *)
(* holds the position of its event in log.                                 *)
(***************************************************************************)
EXTENDS AgentLoop

CONSTANTS
    Commands,      \* processes that issue restore-run and resume-run
    MaxLogLines,   \* lines that fit into MAX_RUN_LOG_BYTES
    LogItems,      \* _MAX_LOG_COLLECTION_ITEMS, of a list in a payload
    MaxIssued,     \* bound on the commands issued
    MaxLogFaults   \* bound on failed writes of the log

ASSUME RunLogAssumption ==
    /\ MaxLogLines \in Nat /\ MaxIssued \in Nat /\ MaxLogFaults \in Nat
    /\ LogItems \in Nat \ {0}

VARIABLES
    alive,      \* the process of the run exists
    written,    \* how many events of log were handed to RunLogger.log
    file,       \* the lines of the run log
    dropped,    \* history: writes that failed and left nothing
    torn,       \* history: writes that failed and left part of a line
    command,    \* what each command is doing
    issued,     \* bound: commands that read the log
    died,       \* history: commands that died between goal and answer
    session     \* the turns restore-run appended for this run

logVars == <<written, file, dropped, torn>>
commandVars == <<command, issued, died, session>>
runLogVars == <<vars, alive, logVars, commandVars>>

(***************************************************************************)
(* Lines.                                                                  *)
(***************************************************************************)
Garbage == 0

\* Seeded fault: after a line that was cut off no line ends any more.
FaultWithLine(line) ==
    LET n == Len(file) IN
    IF n > 0 /\ ~file[n].ended
    THEN [file EXCEPT ![n] = [event |-> Garbage, ended |-> FALSE]]
    ELSE Append(file, line)

\* The file after line was added: it continues a line that has no end.
WithLine(line) ==
    LET n == Len(file) IN
    IF n > 0 /\ ~file[n].ended
    THEN [file EXCEPT ![n] = [event |-> Garbage, ended |-> line.ended]]
    ELSE Append(file, line)

\* _read_run_events: the lines that are a JSON object; the others are skipped.
Readable == {n \in DOMAIN file : file[n].event # Garbage}

\* The event a readable line holds.
EventAt(n) == log[file[n].event]

TooLarge == Len(file) > MaxLogLines

(***************************************************************************)
(* The run and its logger.                                                 *)
(***************************************************************************)
\* The loop waits for the logger: it goes on when every event was handed over.
RunStep ==
    /\ alive
    /\ written = Len(log)
    /\ LoopStep
    /\ UNCHANGED <<alive, logVars, commandVars>>

WriteEvent ==
    /\ alive
    /\ written < Len(log)
    /\ written' = written + 1
    /\ file' = WithLine([event |-> written + 1, ended |-> TRUE])
    /\ UNCHANGED <<vars, alive, dropped, torn, commandVars>>

MayFail == dropped + torn < MaxLogFaults

\* The path cannot be checked or opened: _log_event returns as if all were well.
DropEvent ==
    /\ alive
    /\ written < Len(log)
    /\ MayFail
    /\ written' = written + 1
    /\ dropped' = dropped + 1
    /\ UNCHANGED <<vars, alive, file, torn, commandVars>>

\* The write stops in the middle, at the earliest after the first character,
\* at the latest before the end of the line.
TearEvent ==
    /\ alive
    /\ written < Len(log)
    /\ MayFail
    /\ \E cut \in {Garbage, written + 1} :
         file' = WithLine([event |-> cut, ended |-> FALSE])
    /\ written' = written + 1
    /\ torn' = torn + 1
    /\ UNCHANGED <<vars, alive, dropped, commandVars>>

RunClosed == pc = "done" /\ written = Len(log)

\* Ctrl-C, or the end of the process, at any point of the loop or between two
\* writes of one step.
KillRun ==
    /\ alive
    /\ ~RunClosed
    /\ alive' = FALSE
    /\ UNCHANGED <<vars, logVars, commandVars>>

(***************************************************************************)
(* _summarize_run_log.                                                     *)
(***************************************************************************)
Of(kind) == {n \in Readable : EventAt(n).event = kind}

LastOf(lines) == CHOOSE n \in lines : \A m \in lines : m <= n

StatusOf ==
    LET final == Of("run_finished")
    IN  IF final = {} THEN "unknown" ELSE EventAt(LastOf(final)).detail

Failures == {n \in Of("tool_finished") : EventAt(n).detail = "failed"}

\* Seeded fault: every run_error is shown as an error of the model.
FaultModelErrors == Of("run_error")

\* run_error is also written for an action the loop rejects.
ModelErrors == {n \in Of("run_error") : EventAt(n).detail = "model_error"}

\* _redact_sequence: of a list that is too long the first LogItems - 1 items
\* and a marker are logged.
Redacted(items) == IF items > LogItems THEN LogItems ELSE items

\* Seeded fault: the snapshot is taken before the last call was added.
FaultSnapshotSize(n) ==
    Redacted(Cardinality({i \in 1..(n - 2) : log[i].event = "tool_finished"}))

\* The entries a run_snapshot lists as observations, by its position in log.
SnapshotSize(n) ==
    Redacted(Cardinality({i \in 1..n : log[i].event = "tool_finished"}))

ShownObservations ==
    LET snapshots == Of("run_snapshot")
    IN  IF snapshots = {} THEN 0 ELSE SnapshotSize(file[LastOf(snapshots)].event)

\* What all commands show, store or send of the run.
Summary ==
    [goal          |-> Of("run_started") # {},
     status        |-> StatusOf,
     tool_calls    |-> Cardinality(Of("tool_finished")),
     tool_failures |-> Cardinality(Failures),
     model_error   |-> ModelErrors # {},
     observations  |-> ShownObservations]

(***************************************************************************)
(* Commands.  A report is the part of the summary that becomes the answer  *)
(* in the session or in the conversation of the resumed run; settled says  *)
(* whether the run was closed, with all its events written, when it was    *)
(* read.                                                                   *)
(***************************************************************************)
NoReport == [status |-> "none", model_error |-> FALSE, settled |-> FALSE]

\* Seeded fault: what has no final status is restored as completed.
FaultReport ==
    LET summary == Summary
    IN  [status |-> IF summary.status = "unknown" THEN "completed" ELSE summary.status,
         model_error |-> summary.model_error, settled |-> RunClosed /\ dropped + torn = 0]

Report ==
    LET summary == Summary
    IN  [status |-> summary.status, model_error |-> summary.model_error,
         settled |-> RunClosed /\ dropped + torn = 0]

Idle == [pc |-> "idle", number |-> 0, report |-> NoReport]

CommandAt(c, where) == command[c].pc = where

Leave(c) == command' = [command EXCEPT ![c] = Idle]

\* No file yet, too large a file, or no run_started that can be read: no goal.
Restorable == file # <<>> /\ ~TooLarge /\ Summary.goal

\* A command starts and reads the log.
ReadLog(c, next) ==
    /\ CommandAt(c, "idle")
    /\ issued < MaxIssued
    /\ Restorable
    /\ issued' = issued + 1
    /\ command' = [command EXCEPT ![c] = [pc |-> next, number |-> issued + 1,
                                         report |-> Report]]
    /\ UNCHANGED <<vars, alive, logVars, died, session>>

\* resume-run goes on with a run of its own, whose conversation is the report.
ResumeReads(c) == ReadLog(c, "resumed")
RestoreReads(c) == ReadLog(c, "check")

ResumeEnds(c) ==
    /\ CommandAt(c, "resumed")
    /\ Leave(c)
    /\ UNCHANGED <<vars, alive, logVars, issued, died, session>>

\* _session_has_restored_run: any turn of the run, goal or answer.
CheckSession(c) ==
    /\ CommandAt(c, "check")
    /\ IF session # <<>> THEN Leave(c)
       ELSE command' = [command EXCEPT ![c].pc = "goal"]
    /\ UNCHANGED <<vars, alive, logVars, issued, died, session>>

RestoreTurn(c, role, report) ==
    session' = Append(session, [number |-> command[c].number, role |-> role,
                                report |-> report])

AppendGoal(c) ==
    /\ CommandAt(c, "goal")
    /\ RestoreTurn(c, "user", NoReport)
    /\ command' = [command EXCEPT ![c].pc = "answer"]
    /\ UNCHANGED <<vars, alive, logVars, issued, died>>

\* Seeded fault: nothing is said about a run without a final status.
FaultAppendAnswer(c) ==
    /\ CommandAt(c, "answer")
    /\ IF command[c].report.status = "unknown" THEN UNCHANGED session
       ELSE RestoreTurn(c, "assistant", command[c].report)
    /\ Leave(c)
    /\ UNCHANGED <<vars, alive, logVars, issued, died>>

\* There always is a status, hence an answer: "Run stopped with status ...".
AppendAnswer(c) ==
    /\ CommandAt(c, "answer")
    /\ RestoreTurn(c, "assistant", command[c].report)
    /\ Leave(c)
    /\ UNCHANGED <<vars, alive, logVars, issued, died>>

\* The command is interrupted, or the session cannot be written.
CommandDies(c) ==
    /\ ~CommandAt(c, "idle")
    /\ died' = died + (IF CommandAt(c, "answer") THEN 1 ELSE 0)
    /\ Leave(c)
    /\ UNCHANGED <<vars, alive, logVars, issued, session>>

(***************************************************************************)
(* Composition.                                                            *)
(***************************************************************************)
RunLogInit ==
    /\ Init
    /\ alive = TRUE /\ written = 0 /\ file = <<>>
    /\ dropped = 0 /\ torn = 0
    /\ command = [c \in Commands |-> Idle]
    /\ issued = 0 /\ died = 0 /\ session = <<>>

AllQuiet ==
    /\ RunClosed \/ ~alive
    /\ \A c \in Commands : CommandAt(c, "idle")
    /\ UNCHANGED runLogVars

CommandStep(c) ==
    \/ ResumeReads(c) \/ RestoreReads(c) \/ ResumeEnds(c)
    \/ CheckSession(c) \/ AppendGoal(c) \/ AppendAnswer(c) \/ CommandDies(c)

RunLogNext ==
    \/ RunStep \/ WriteEvent \/ DropEvent \/ TearEvent \/ KillRun
    \/ \E c \in Commands : CommandStep(c)
    \/ AllQuiet

RunLogSpec == RunLogInit /\ [][RunLogNext]_runLogVars

-----------------------------------------------------------------------------
(***************************************************************************)
(* Properties.                                                             *)
(***************************************************************************)
Statuses == FinalStatuses \cup {"unknown", "none"}
ReportType == [status : Statuses, model_error : BOOLEAN, settled : BOOLEAN]

\* The variables of the log and its commands have their types; the loop keeps
\* its own.
RunLogTypeOK ==
    /\ TypeOK
    /\ alive \in BOOLEAN
    /\ written \in 0..Len(log)
    /\ file \in Seq([event : 0..Len(log), ended : BOOLEAN])
    /\ dropped \in Nat /\ torn \in Nat
    /\ command \in [Commands -> [pc : {"idle", "resumed", "check", "goal", "answer"},
                                 number : 0..MaxIssued, report : ReportType]]
    /\ issued \in 0..MaxIssued /\ died \in 0..issued
    /\ session \in Seq([number : 1..MaxIssued, role : {"user", "assistant"},
                        report : ReportType])

\* The readers see events of the run in their order, each at most once, and
\* all of them but at most one for each write that left nothing and two for
\* each that was cut off: the torn one and the one that continued its line.
\* (Garbage, 0, is less than every event.)
LossBounded ==
    /\ \A n \in Readable : \A m \in 1..(n - 1) : file[m].event < file[n].event
    /\ written - Cardinality(Readable) <= dropped + 2 * torn

\* Whatever was lost and whenever the log is read, the summary invents
\* nothing: no status but the true one, no more calls and failures than there
\* were, an error of the model only if the run ended with one.
SummaryInventsNothing ==
    LET summary == Summary IN
    /\ summary.status \in {"unknown", final_status}
    /\ summary.tool_calls <= Len(observations)
    /\ summary.tool_failures
         <= Cardinality({n \in DOMAIN observations : ~observations[n].success})
    /\ summary.model_error => final_status = "model_error"

\* The calls that are counted and the snapshot that is shown beside them differ
\* by the events that were lost and by the call whose snapshot is still to be
\* written, as long as the snapshot was not cut: a number of observations below
\* the limit can be trusted, the limit means "as many or more".  Without a loss
\* the summary of a closed run counts every call and shows all it can.
SnapshotAgreesWithCalls ==
    LET summary == Summary
        lost    == dropped + 2 * torn
        pending == IF RunClosed THEN 0 ELSE 1
    IN  /\ summary.observations <= LogItems
        /\ summary.observations - summary.tool_calls <= lost
        /\ summary.observations < LogItems =>
             summary.tool_calls - summary.observations <= lost + pending
        /\ RunClosed /\ lost = 0 =>
             /\ summary.tool_calls = Len(observations)
             /\ summary.observations = IF summary.tool_calls < LogItems
                                       THEN summary.tool_calls ELSE LogItems

Reports == {session[i].report : i \in {k \in DOMAIN session : session[k].role = "assistant"}}
           \cup {command[c].report : c \in {d \in Commands : ~CommandAt(d, "idle")
                                            /\ command[d].report # NoReport}}

\* What a session or a resumed run was told of the run stays true when the run
\* goes on after it was read: the status is the one the run ended with, or
\* "unknown", and "unknown" only if the run was not closed or events were lost.
ToldTheTruth ==
    \A report \in Reports :
        /\ report.status \in {"unknown", final_status}
        /\ report.model_error => final_status = "model_error"
        /\ report.settled => report.status = final_status

Restored(role) == {session[i].number : i \in {k \in DOMAIN session : session[k].role = role}}

\* An answer is restored only after the goal of the same command, and a goal
\* stays without its answer only while its command goes on or because it died:
\* the run then counts as restored all the same.
HalfRestored ==
    /\ \A i \in DOMAIN session : session[i].role = "assistant" =>
         \E k \in 1..(i - 1) : /\ session[k].role = "user"
                               /\ session[k].number = session[i].number
    /\ Cardinality(Restored("user") \ Restored("assistant"))
         <= died + Cardinality({c \in Commands : CommandAt(c, "answer")})
==============================================================================
