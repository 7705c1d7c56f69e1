------------------------------ MODULE SessionStore ------------------------------
(***************************************************************************)
(* SessionStore (core/session.py) and the commands that use one session:   *)
(* agent run and agent chat (a turn: refresh the summary, load, append the *)
(* goal, run, append the answer) and agent restore-run (append goal and    *)
(* answer of a logged run, once).                                          *)
(*                                                                         *)
(* transcript.jsonl only grows; summary.md is rewritten by every turn.     *)
(* Nothing is locked, and all commands use the session "default" unless    *)
(* they are told otherwise.  A turn of the conversation is known by the    *)
(* command that appended it and its role, a line of the file by the turn   *)
(* it holds.                                                               *)
(***************************************************************************)
EXTENDS Integers, Sequences, FiniteSets

CONSTANTS
    Procs,         \* processes that issue commands, one at a time each
    Runs,          \* logged runs that may be restored
    NoRun,         \* "not restored"
    KeepTurns,     \* config.session_context_turns
    SummaryTurns,  \* config.session_summary_turns
    SummaryLines,  \* turns whose lines fit into the 4096 characters loaded
    MaxLines,      \* lines that fit into the 2 MiB a load accepts
    MaxCommands,   \* bound on the commands issued
    MaxFaults      \* bound on crashes and failed writes

ASSUME SessionAssumption ==
    /\ KeepTurns \in Nat /\ SummaryTurns \in Nat \ {0} /\ SummaryLines \in Nat
    /\ MaxLines \in Nat /\ MaxCommands \in Nat /\ MaxFaults \in Nat
    /\ IsFiniteSet(Procs) /\ NoRun \notin Runs

VARIABLES
    transcript,  \* the lines of transcript.jsonl
    summary,     \* the turns in summary.md
    proc,        \* what each process is doing
    commands, faults,  \* the bounds
    torn,        \* history: the number of lines cut off while being written
    appended,    \* history: turns whose append returned
    restores     \* history: restores of each run that passed the check while no
                 \* other restore of it was about to append its goal

vars == <<transcript, summary, proc, commands, faults, torn, appended, restores>>

(***************************************************************************)
(* The transcript.  A line that was cut off is garbage, or complete but    *)
(* for its end: then it can be read until the next append runs into it.    *)
(***************************************************************************)
Turn == [command : 1..MaxCommands, role : {"user", "assistant"}, run : Runs \cup {NoRun}]
Garbage == [command |-> 0, role |-> "garbage", run |-> NoRun]
Line == [turn : Turn \cup {Garbage}, ended : BOOLEAN]

Last(lines) == lines[Len(lines)]
LastN(s, n) == SubSeq(s, (IF Len(s) > n THEN Len(s) - n ELSE 0) + 1, Len(s))
ButLastN(s, n) == SubSeq(s, 1, IF Len(s) > n THEN Len(s) - n ELSE 0)
FirstN(s, n) == SubSeq(s, 1, IF Len(s) > n THEN n ELSE Len(s))

\* Seeded fault: after a line that was cut off no line ends any more.
FaultExtended(line) ==
    IF transcript # <<>> /\ ~Last(transcript).ended
    THEN Append(SubSeq(transcript, 1, Len(transcript) - 1),
                [turn |-> Garbage, ended |-> FALSE])
    ELSE Append(transcript, line)

\* The file after text for line was added: it continues a line without end.
Extended(line) ==
    IF transcript # <<>> /\ ~Last(transcript).ended
    THEN [transcript EXCEPT ![Len(transcript)] = [turn |-> Garbage, ended |-> line.ended]]
    ELSE Append(transcript, line)

\* Seeded fault: a line that cannot be read counts as a turn.
FaultReadable(lines) == [i \in DOMAIN lines |-> lines[i].turn]

\* _load_transcript, line by line: it skips what it cannot read.
Readable(lines) ==
    LET kept[n \in 0..Len(lines)] ==
          IF n = 0 THEN <<>>
          ELSE IF lines[n].turn # Garbage THEN Append(kept[n - 1], lines[n].turn)
          ELSE kept[n - 1]
    IN  kept[Len(lines)]

\* Seeded fault: the size is not checked.
FaultTooLarge == FALSE

TooLarge == Len(transcript) > MaxLines

(***************************************************************************)
(* Commands.                                                               *)
(***************************************************************************)
Idle == [pc |-> "idle", command |-> 0, run |-> NoRun, draft |-> <<>>,
         turns |-> <<>>, memory |-> <<>>, alone |-> TRUE]

At(p, pc) == proc[p].pc = pc
End(p) == proc' = [proc EXCEPT ![p] = Idle]

\* The turn that p appends next.
Says(p, role) == [command |-> proc[p].command, role |-> role, run |-> proc[p].run]

\* p goes on as next; the others, if they are refreshing or loading, are not
\* alone with the session's files.
Change(p, next) ==
    proc' = [q \in Procs |->
               IF q = p THEN next
               ELSE IF proc[q].pc \in {"truncate", "write", "load", "load summary"}
                    THEN [proc[q] EXCEPT !.alone = FALSE]
               ELSE proc[q]]

Init ==
    /\ transcript = <<>> /\ summary = <<>>
    /\ proc = [p \in Procs |-> Idle]
    /\ commands = 0 /\ faults = 0
    /\ torn = 0 /\ appended = {}
    /\ restores = [r \in Runs |-> 0]

Issue(p, pc, run) ==
    /\ At(p, "idle")
    /\ commands < MaxCommands
    /\ commands' = commands + 1
    /\ proc' = [proc EXCEPT ![p] = [Idle EXCEPT !.pc = pc, !.command = commands + 1,
                                                !.run = run]]
    /\ UNCHANGED <<transcript, summary, faults, torn, appended, restores>>

IssueTurn(p) == Issue(p, "refresh", NoRun)
IssueRestore(p) == \E run \in Runs : Issue(p, "check", run)

(***************************************************************************)
(* refresh_summary: the turns before the last KeepTurns, at most           *)
(* SummaryTurns of them.  write_text truncates, then writes.               *)
(***************************************************************************)
\* Seeded fault: the turn at the border is neither kept nor summarized.
FaultSummarizedLess(turns) == LastN(ButLastN(turns, KeepTurns + 1), SummaryTurns)

Summarized(turns) == LastN(ButLastN(turns, KeepTurns), SummaryTurns)

Refresh(p) ==
    /\ At(p, "refresh")
    /\ IF TooLarge
       THEN End(p)
       ELSE proc' = [proc EXCEPT ![p].pc = "truncate",
                                 ![p].draft = Summarized(Readable(transcript))]
    /\ UNCHANGED <<transcript, summary, commands, faults, torn, appended, restores>>

TruncateSummary(p) ==
    /\ At(p, "truncate")
    /\ summary' = <<>>
    /\ Change(p, [proc[p] EXCEPT !.pc = "write"])
    /\ UNCHANGED <<transcript, commands, faults, torn, appended, restores>>

WriteSummary(p) ==
    /\ At(p, "write")
    /\ summary' = proc[p].draft
    /\ Change(p, [proc[p] EXCEPT !.pc = "load", !.draft = <<>>])
    /\ UNCHANGED <<transcript, commands, faults, torn, appended, restores>>

(***************************************************************************)
(* load: the transcript, then the summary, of which the end is cut off if  *)
(* it is too long.                                                         *)
(***************************************************************************)
LoadTranscript(p) ==
    /\ At(p, "load")
    /\ IF TooLarge
       THEN End(p)
       ELSE proc' = [proc EXCEPT ![p].pc = "load summary",
                                 ![p].turns = Readable(transcript)]
    /\ UNCHANGED <<transcript, summary, commands, faults, torn, appended, restores>>

LoadSummary(p) ==
    /\ At(p, "load summary")
    /\ proc' = [proc EXCEPT ![p].pc = "goal", ![p].memory = FirstN(summary, SummaryLines)]
    /\ UNCHANGED <<transcript, summary, commands, faults, torn, appended, restores>>

(***************************************************************************)
(* append_transcript.                                                      *)
(***************************************************************************)
AppendTurn(p, role) ==
    /\ transcript' = Extended([turn |-> Says(p, role), ended |-> TRUE])
    /\ appended' = appended \cup {Says(p, role)}

\* The goal is appended, then the loop runs.
AppendGoal(p) ==
    /\ At(p, "goal")
    /\ AppendTurn(p, "user")
    /\ Change(p, [Idle EXCEPT !.pc = "answer", !.command = proc[p].command,
                              !.run = proc[p].run])
    /\ UNCHANGED <<summary, commands, faults, torn, restores>>

AppendAnswer(p) ==
    /\ At(p, "answer")
    /\ AppendTurn(p, "assistant")
    /\ Change(p, Idle)
    /\ UNCHANGED <<summary, commands, faults, torn, restores>>

\* A crash in the middle of the write, or a disk that is full: the line is cut
\* off somewhere and the command ends.
AppendFails(p) ==
    /\ proc[p].pc \in {"goal", "answer"}
    /\ faults < MaxFaults
    /\ faults' = faults + 1
    /\ torn' = torn + 1
    /\ \E cut \in {Garbage, Says(p, IF At(p, "goal") THEN "user" ELSE "assistant")} :
         transcript' = Extended([turn |-> cut, ended |-> FALSE])
    /\ Change(p, Idle)
    /\ UNCHANGED <<summary, commands, appended, restores>>

(***************************************************************************)
(* restore-run.                                                            *)
(***************************************************************************)
\* Seeded fault: the answer is looked for, which is appended last.
FaultIsRestored(run) ==
    \E i \in DOMAIN Readable(transcript) :
        Readable(transcript)[i].run = run /\ Readable(transcript)[i].role = "assistant"

\* _session_has_restored_run
IsRestored(run) == \E i \in DOMAIN Readable(transcript) : Readable(transcript)[i].run = run

CheckRestored(p) ==
    /\ At(p, "check")
    /\ IF TooLarge \/ IsRestored(proc[p].run)
       THEN End(p) /\ UNCHANGED restores
       ELSE /\ proc' = [proc EXCEPT ![p].pc = "goal"]
            /\ restores' = IF \E q \in Procs : At(q, "goal") /\ proc[q].run = proc[p].run
                           THEN restores
                           ELSE [restores EXCEPT ![proc[p].run] = @ + 1]
    /\ UNCHANGED <<transcript, summary, commands, faults, torn, appended>>

\* The process is killed, the user interrupts it, or the model client cannot be
\* created after the session was loaded.
Crash(p) ==
    /\ ~At(p, "idle")
    /\ faults < MaxFaults
    /\ faults' = faults + 1
    /\ End(p)
    /\ UNCHANGED <<transcript, summary, commands, torn, appended, restores>>

Done ==
    /\ commands = MaxCommands
    /\ \A p \in Procs : At(p, "idle")
    /\ UNCHANGED vars

Next ==
    \/ \E p \in Procs :
         \/ IssueTurn(p) \/ IssueRestore(p)
         \/ Refresh(p) \/ TruncateSummary(p) \/ WriteSummary(p)
         \/ LoadTranscript(p) \/ LoadSummary(p)
         \/ AppendGoal(p) \/ AppendAnswer(p) \/ AppendFails(p)
         \/ CheckRestored(p) \/ Crash(p)
    \/ Done

Spec == Init /\ [][Next]_vars

-----------------------------------------------------------------------------
(***************************************************************************)
(* Properties.                                                             *)
(***************************************************************************)
PCs == {"idle", "refresh", "truncate", "write", "load", "load summary", "check",
        "goal", "answer"}

ProcState == [pc : PCs, command : 0..MaxCommands, run : Runs \cup {NoRun},
              draft : Seq(Turn), turns : Seq(Turn), memory : Seq(Turn), alone : BOOLEAN]

\* What a command reads and writes are turns, never a line that was cut off.
TypeOK ==
    /\ transcript \in Seq(Line)
    /\ summary \in Seq(Turn)
    /\ proc \in [Procs -> ProcState]
    /\ commands \in 0..MaxCommands /\ faults \in 0..MaxFaults /\ torn \in 0..faults
    /\ appended \subseteq Turn
    /\ restores \in [Runs -> Nat]

\* The conversation a turn starts with (context_messages; the model client
\* shows the last KeepTurns of the transcript).
Shown(p) == proc[p].memory \o LastN(proc[p].turns, KeepTurns)

StartsTurn(p) == At(p, "goal") /\ proc[p].run = NoRun

\* A turn that refreshed and loaded the session while nobody changed it starts
\* with all of the last KeepTurns + SummaryTurns turns, each once and in order,
\* if their summary is not too long: none is forgotten between summary and
\* transcript, none is in both, whatever earlier crashes left behind.
NothingForgotten ==
    SummaryTurns <= SummaryLines =>
        \A p \in Procs : StartsTurn(p) /\ proc[p].alone =>
            Shown(p) = LastN(proc[p].turns, KeepTurns + SummaryTurns)

ReadableTurns == {Readable(transcript)[i] : i \in DOMAIN Readable(transcript)}

\* A turn whose append returned is read by every later load, whoever appended
\* at the same time, unless a line was cut off: each such line costs at most
\* one of them, the one that was appended to it.
OnlyTornLinesLose == Cardinality(appended \ ReadableTurns) <= torn

\* Without a fault a run is restored once per session by the restores that check
\* while no other one of the run is about to append its goal: as soon as a goal
\* is appended, also without its answer, a later check finds the run restored.
\* Two restores that both check before either appends do restore it twice;
\* the second of these is not counted.
RestoredOnce == faults = 0 => \A run \in Runs : restores[run] <= 1

\* A transcript that became too large to load grows by no more than the turns
\* of the commands that had loaded it before.
TranscriptBounded == Len(transcript) <= MaxLines + 2 * Cardinality(Procs)

(* What the README says. *)

\* "Older turns are compacted into a Prior conversation summary, and recent
\* turns are kept as transcript context."
OlderTurnsSummarized ==
    \A p \in Procs : StartsTurn(p) /\ proc[p].alone =>
        Shown(p) = LastN(proc[p].turns, KeepTurns + SummaryTurns)
==============================================================================
